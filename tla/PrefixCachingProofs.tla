------------------------ MODULE PrefixCachingProofs ------------------------
(***************************************************************************)
(* Proofs about the prefix-caching allocator, for any blocks, sequences,   *)
(* tokens and block size: no block is lost or counted wrongly, and the     *)
(* content index and the block tables agree.  Without chunked prefill, and *)
(* while no step copies to one block twice, every computed token and every *)
(* block reported as computed has its KV in memory.                        *)
(*                                                                         *)
(* Then about the cache of recurrent states over it, for any prompts,      *)
(* budget, policy, restore mode, alignment and capacity of at least two    *)
(* states: the workers hold the states the scheduler counts on, and every  *)
(* state is the state of the prefix it is kept for.                        *)
(***************************************************************************)
EXTENDS GdnPrefixCache, SequenceTheorems, FiniteSetTheorems, NaturalsInduction, TLAPS

-----------------------------------------------------------------------------
(* Block numbers *)

LEMMA Products ==
  ASSUME NEW i \in Nat
  PROVE  /\ i * BlockSize \in Nat
         /\ (i + 1) * BlockSize = i * BlockSize + BlockSize
         /\ i # 0 => i * BlockSize > 0 /\ (i - 1) * BlockSize = i * BlockSize - BlockSize
         /\ (i * BlockSize) % BlockSize = 0
         /\ \A j \in Nat : i < j => i * BlockSize + BlockSize <= j * BlockSize
         /\ \A j \in Nat : i * BlockSize = j * BlockSize => i = j
<1>1. BlockSize \in Nat /\ BlockSize > 0
  BY AllocatorAssumption
<1>2. i * BlockSize \in Nat /\ (i + 1) * BlockSize = i * BlockSize + BlockSize
  BY <1>1
<1>3. i # 0 => i * BlockSize > 0 /\ (i - 1) * BlockSize = i * BlockSize - BlockSize
  BY <1>1
<1>4. (i * BlockSize) % BlockSize = 0
  BY <1>1
<1>5. ASSUME NEW j \in Nat, i < j PROVE i * BlockSize + BlockSize <= j * BlockSize
  <2>1. j * BlockSize = (i + 1) * BlockSize + (j - i - 1) * BlockSize /\ j - i - 1 \in Nat
    BY <1>1, <1>5
  <2>2. (j - i - 1) * BlockSize \in Nat
    BY <1>1, <2>1
  <2> QED
    BY <1>1, <1>2, <2>1, <2>2
<1>6. ASSUME NEW j \in Nat, i * BlockSize = j * BlockSize PROVE i = j
  BY <1>1, <1>6
<1> QED
  BY <1>2, <1>3, <1>4, <1>5, <1>6

\* A table of NumBlocks(n) blocks has room for n tokens, and a table of one less not.
LEMMA NumBlocksFacts ==
  ASSUME NEW n \in Nat
  PROVE  /\ NumBlocks(n) \in Nat
         /\ n <= NumBlocks(n) * BlockSize /\ NumBlocks(n) * BlockSize < n + BlockSize
         /\ \A k \in Nat : n <= k * BlockSize /\ k * BlockSize < n + BlockSize => k = NumBlocks(n)
         /\ n > 0 => BlockOf(n) = NumBlocks(n) /\ BlockOf(n) > 0
<1> DEFINE m == n + BlockSize - 1
           q == m \div BlockSize
<1>1. BlockSize \in Nat /\ BlockSize > 0 /\ m \in Nat
  BY AllocatorAssumption
<1>2. q \in Nat /\ q * BlockSize <= m /\ m < q * BlockSize + BlockSize
  BY <1>1
<1>3. q = NumBlocks(n)
  BY DEF NumBlocks
<1> HIDE DEF q
<1>4. n <= q * BlockSize /\ q * BlockSize < n + BlockSize
  BY <1>1, <1>2, Products
<1>5. ASSUME NEW k \in Nat, n <= k * BlockSize, k * BlockSize < n + BlockSize PROVE k = q
  <2>0. k * BlockSize \in Nat /\ q * BlockSize \in Nat
    BY <1>2, Products
  <2>1. ~ (k < q)
    <3>1. k < q => k * BlockSize + BlockSize <= q * BlockSize
      BY <1>2, Products
    <3> QED
      BY <1>1, <1>4, <1>5, <2>0, <3>1
  <2>2. ~ (q < k)
    <3>1. q < k => q * BlockSize + BlockSize <= k * BlockSize
      BY <1>2, Products
    <3> QED
      BY <1>1, <1>4, <1>5, <2>0, <3>1
  <2> QED
    BY <1>2, <2>1, <2>2
<1>6. ASSUME n > 0 PROVE BlockOf(n) = q /\ BlockOf(n) > 0
  <2> DEFINE r == (n - 1) \div BlockSize
  <2>1. n - 1 \in Nat /\ r \in Nat /\ r * BlockSize <= n - 1 /\ n - 1 < r * BlockSize + BlockSize
    BY <1>1, <1>6
  <2> HIDE DEF r
  <2>2. r + 1 \in Nat /\ n <= (r + 1) * BlockSize /\ (r + 1) * BlockSize < n + BlockSize
    BY <1>1, <2>1, Products
  <2>3. r + 1 = q
    BY <1>5, <2>2
  <2> QED
    BY <2>1, <2>3 DEF BlockOf, r
<1> QED
  BY <1>2, <1>3, <1>4, <1>5, <1>6

\* SeqsUpTo(n) is what it says.
LEMMA SeqsUpToFacts ==
  ASSUME NEW n \in Nat, NEW t
  PROVE  t \in SeqsUpTo(n) <=> t \in Seq(Tokens) /\ Len(t) <= n
<1>1. ASSUME t \in SeqsUpTo(n) PROVE t \in Seq(Tokens) /\ Len(t) <= n
  <2>1. PICK k \in 0 .. n : t \in [1 .. k -> Tokens]
    BY <1>1 DEF SeqsUpTo
  <2> QED
    BY <2>1
<1>2. ASSUME t \in Seq(Tokens), Len(t) <= n PROVE t \in SeqsUpTo(n)
  <2>1. Len(t) \in 0 .. n /\ t \in [1 .. Len(t) -> Tokens]
    BY <1>2, LenProperties
  <2> QED
    BY <2>1 DEF SeqsUpTo
<1> QED
  BY <1>1, <1>2

\* A prefix of a token sequence.
LEMMA PrefixFacts ==
  ASSUME NEW S, NEW t \in Seq(S), NEW n \in 0 .. Len(t)
  PROVE  /\ Prefix(t, n) \in Seq(S) /\ Len(Prefix(t, n)) = n /\ DOMAIN Prefix(t, n) = 1 .. n
         /\ \A i \in 1 .. n : Prefix(t, n)[i] = t[i]
<1>1. Len(t) \in Nat /\ n \in Nat
  BY LenProperties
<1>2. \A i \in 1 .. n : t[i] \in S
  BY <1>1, ElementOfSeq
<1>3. Prefix(t, n) = [i \in 1 .. n |-> t[i]]
  BY <1>1 DEF Prefix
<1>4. Prefix(t, n) \in [1 .. n -> S]
  BY <1>2, <1>3
<1> QED
  BY <1>1, <1>3, <1>4

\* The same of a block table.
LEMMA BlockPrefix ==
  \A t \in Seq(Blocks) : \A n \in 0 .. Len(t) :
    /\ Prefix(t, n) \in Seq(Blocks) /\ Len(Prefix(t, n)) = n /\ DOMAIN Prefix(t, n) = 1 .. n
    /\ \A i \in 1 .. n : Prefix(t, n)[i] = t[i]
BY PrefixFacts

\* The hash of a full block.
LEMMA HashFacts ==
  ASSUME NEW t \in SeqsUpTo(MaxLen), NEW i \in Nat \ {0}, IsFull(t, i)
  PROVE  /\ HashAt(t, i) \in Hashes /\ Len(HashAt(t, i)) = i * BlockSize
         /\ HashAt(t, i) \in Seq(Tokens) /\ i * BlockSize \in 0 .. Len(t)
         /\ \A j \in 1 .. i * BlockSize : HashAt(t, i)[j] = t[j]
<1>1. t \in Seq(Tokens) /\ Len(t) <= MaxLen /\ Len(t) \in Nat /\ MaxLen \in Nat
  BY SeqsUpToFacts, AllocatorAssumption, LenProperties
<1>2. i * BlockSize \in 0 .. Len(t) /\ i * BlockSize > 0 /\ (i * BlockSize) % BlockSize = 0
  BY <1>1, Products DEF IsFull
<1>3. /\ HashAt(t, i) \in Seq(Tokens) /\ Len(HashAt(t, i)) = i * BlockSize
      /\ \A j \in 1 .. i * BlockSize : HashAt(t, i)[j] = t[j]
  BY <1>1, <1>2, PrefixFacts DEF HashAt
<1>4. HashAt(t, i) \in SeqsUpTo(MaxLen)
  BY <1>1, <1>2, <1>3, SeqsUpToFacts
<1> QED
  BY <1>2, <1>3, <1>4 DEF Hashes

-----------------------------------------------------------------------------
(* The invariant, of a pool p, the tokens tok and the block tables tab *)

Pools == [free : SUBSET Blocks, ref : [Blocks -> Nat], cached : [Hashes -> Blocks \cup {None}],
          evictable : [Blocks -> Hashes \cup {None}], active : SUBSET Blocks,
          computed : SUBSET Blocks, touched : SUBSET Blocks]

\* What the allocator's operations do to the fields of its state.
LEMMA PoolFields ==
  ASSUME NEW p \in Pools
  PROVE  /\ p.free \in SUBSET Blocks /\ p.ref \in [Blocks -> Nat]
         /\ p.cached \in [Hashes -> Blocks \cup {None}]
         /\ p.evictable \in [Blocks -> Hashes \cup {None}] /\ p.active \in SUBSET Blocks
         /\ p.computed \in SUBSET Blocks /\ p.touched \in SUBSET Blocks
BY DEF Pools

LEMMA DecrFacts ==
  ASSUME NEW p \in Pools, NEW b \in Blocks, p.ref[b] # 0
  PROVE  LET q == DecrRefcountHashless(p, b)
         IN  /\ q \in Pools /\ q.ref = [p.ref EXCEPT ![b] = p.ref[b] - 1]
             /\ q.free = (IF p.ref[b] = 1 THEN p.free \cup {b} ELSE p.free)
             /\ q.active = (IF p.ref[b] = 1 THEN p.active \ {b} ELSE p.active)
             /\ q.cached = p.cached /\ q.evictable = p.evictable
<1>1. p.ref[b] \in Nat /\ p.ref[b] - 1 \in Nat /\ [p.ref EXCEPT ![b] = p.ref[b] - 1] \in [Blocks -> Nat]
  BY PoolFields
<1>2. CASE p.ref[b] > 1
  <2>1. DecrRefcountHashless(p, b) = [p EXCEPT !.ref = [p.ref EXCEPT ![b] = p.ref[b] - 1]]
    BY <1>2 DEF DecrRefcountHashless
  <2> QED
    BY <1>1, <1>2, <2>1 DEF Pools
<1>3. CASE p.ref[b] = 1
  <2>1. DecrRefcountHashless(p, b) =
          [p EXCEPT !.ref = [p.ref EXCEPT ![b] = p.ref[b] - 1], !.free = p.free \cup {b},
                    !.active = p.active \ {b}, !.computed = p.computed \ {b}]
    BY <1>3 DEF DecrRefcountHashless
  <2>2. p.free \cup {b} \in SUBSET Blocks /\ p.active \ {b} \in SUBSET Blocks /\ p.computed \ {b} \in SUBSET Blocks
    BY PoolFields
  <2> QED
    BY <1>1, <1>3, <2>1, <2>2 DEF Pools
<1> QED
  BY <1>1, <1>2, <1>3

LEMMA AllocateFacts ==
  ASSUME NEW p \in Pools, NEW b \in Blocks, p.ref[b] = 0
  PROVE  LET q == AllocateBlockId(p, b)
         IN  /\ q \in Pools /\ q.ref = [p.ref EXCEPT ![b] = 1]
             /\ q.free = p.free \ {b} /\ q.active = p.active \cup {b}
             /\ q.evictable = [p.evictable EXCEPT ![b] = None]
             /\ q.cached = [h \in Hashes |-> IF p.evictable[b] # None /\ h = p.evictable[b] THEN None ELSE p.cached[h]]
<1> DEFINE ref == [p.ref EXCEPT ![b] = 1]
           evi == [p.evictable EXCEPT ![b] = None]
           cac == [h \in Hashes |-> IF p.evictable[b] # None /\ h = p.evictable[b] THEN None ELSE p.cached[h]]
           free == p.free \ {b}
           act == p.active \cup {b}
           com == p.computed \ {b}
<1>1. ref \in [Blocks -> Nat] /\ evi \in [Blocks -> Hashes \cup {None}]
  BY PoolFields
<1>2. cac \in [Hashes -> Blocks \cup {None}]
  BY PoolFields
<1>3. cac = IF p.evictable[b] = None THEN p.cached ELSE [p.cached EXCEPT ![p.evictable[b]] = None]
  BY PoolFields
<1>4. free \in SUBSET Blocks /\ act \in SUBSET Blocks /\ com \in SUBSET Blocks
  BY PoolFields
<1>5. AllocateBlockId(p, b) = [p EXCEPT !.free = free, !.cached = cac, !.evictable = evi, !.ref = ref,
                                        !.active = act, !.computed = com]
  <2> HIDE DEF cac
  <2> QED
    BY <1>3 DEF AllocateBlockId
<1> HIDE DEF ref, evi, cac, free, act, com
<1>6. [p EXCEPT !.free = free, !.cached = cac, !.evictable = evi, !.ref = ref,
                !.active = act, !.computed = com] \in Pools
  BY <1>1, <1>2, <1>4 DEF Pools
<1> QED
  BY <1>5, <1>6 DEF ref, evi, cac, free, act, com, Pools

LEMMA IncrFacts ==
  ASSUME NEW p \in Pools, NEW h \in Hashes, p.cached[h] \in Blocks
  PROVE  LET q == IncrRefcountCached(p, h)
             b == p.cached[h]
         IN  /\ q \in Pools /\ q.ref = [p.ref EXCEPT ![b] = p.ref[b] + 1]
             /\ q.free = p.free /\ q.cached = p.cached
             /\ q.active = (IF p.ref[b] = 0 THEN p.active \cup {b} ELSE p.active)
             /\ q.evictable = (IF p.ref[b] = 0 THEN [p.evictable EXCEPT ![b] = None] ELSE p.evictable)
<1> DEFINE b == p.cached[h]
           ref == [p.ref EXCEPT ![b] = p.ref[b] + 1]
           evi == [p.evictable EXCEPT ![b] = None]
<1>1. b \in Blocks /\ p.ref[b] \in Nat /\ ref \in [Blocks -> Nat] /\ evi \in [Blocks -> Hashes \cup {None}]
  BY PoolFields
<1>2. p.active \cup {b} \in SUBSET Blocks /\ p.computed \cup {b} \in SUBSET Blocks
  BY PoolFields
<1>3. CASE p.ref[b] > 0
  <2>1. IncrRefcountCached(p, h) = [p EXCEPT !.ref = ref]
    BY <1>3 DEF IncrRefcountCached
  <2> HIDE DEF ref, b
  <2> QED
    BY <1>1, <1>3, <2>1 DEF Pools, ref, b
<1>4. CASE p.ref[b] = 0
  <2>1. IncrRefcountCached(p, h) = [p EXCEPT !.ref = ref, !.evictable = evi, !.active = p.active \cup {b},
                                             !.computed = p.computed \cup {b}]
    BY <1>4 DEF IncrRefcountCached
  <2> QED
    BY <1>1, <1>2, <1>4, <2>1 DEF Pools
<1> QED
  BY <1>1, <1>3, <1>4

LEMMA RegisterFacts ==
  ASSUME NEW p \in Pools, NEW b \in Blocks, NEW h \in Hashes, p.cached[h] = None
  PROVE  LET q == PromoteToImmutable(p, b, h)
         IN  /\ q \in Pools /\ q.cached = [p.cached EXCEPT ![h] = b]
             /\ q.ref = p.ref /\ q.free = p.free /\ q.active = p.active /\ q.evictable = p.evictable
<1> DEFINE cac == [p.cached EXCEPT ![h] = b]
<1>1. cac \in [Hashes -> Blocks \cup {None}] /\ p.touched \cup {b} \in SUBSET Blocks
  BY PoolFields
<1>2. PromoteToImmutable(p, b, h) = [p EXCEPT !.cached = cac, !.touched = p.touched \cup {b}]
  BY DEF PromoteToImmutable
<1> QED
  BY <1>1, <1>2 DEF Pools

Shaped(p, tok, tab) ==
  p \in Pools /\ tok \in [Seqs -> SeqsUpTo(MaxLen)] /\ tab \in [Seqs -> Seq(Blocks)]

Holders(tab, b) == {s \in Seqs : \E i \in DOMAIN tab[s] : tab[s][i] = b}

Counted(p, tab) ==
  \A b \in Blocks :
    /\ p.ref[b] = Cardinality(Holders(tab, b))
    /\ b \in p.active <=> p.ref[b] > 0
    /\ b \in p.free <=> p.ref[b] = 0 /\ p.evictable[b] = None
    /\ p.evictable[b] # None => p.ref[b] = 0

\* The evictor's hashes are in the index.
EvictableIndexed(p) == \A b \in Blocks : p.evictable[b] # None => p.cached[p.evictable[b]] = b

\* What the index names is evictable or in a table.
IndexBacked(p, tok, tab) ==
  \A h \in Hashes :
    p.cached[h] # None =>
      \/ p.evictable[p.cached[h]] = h
      \/ \E s \in Seqs : \E i \in DOMAIN tab[s] :
           IsFull(tok[s], i) /\ tab[s][i] = p.cached[h] /\ HashAt(tok[s], i) = h

\* Every full block of a table is in the index.
FullIndexed(p, tok, tab) ==
  \A s \in Seqs : \A i \in DOMAIN tab[s] :
    IsFull(tok[s], i) => p.cached[HashAt(tok[s], i)] = tab[s][i]

\* A block has the same place, and is as full, in every table that holds it.
SamePlace(tok, tab) ==
  \A s, r \in Seqs : \A i \in DOMAIN tab[s], j \in DOMAIN tab[r] :
    tab[s][i] = tab[r][j] =>
      /\ i = j
      /\ IsFull(tok[s], i) <=> IsFull(tok[r], j)
      /\ IsFull(tok[s], i) => HashAt(tok[s], i) = HashAt(tok[r], j)

Good(p, tok, tab) ==
  /\ Shaped(p, tok, tab)
  /\ Counted(p, tab)
  /\ EvictableIndexed(p)
  /\ IndexBacked(p, tok, tab)
  /\ FullIndexed(p, tok, tab)
  /\ SamePlace(tok, tab)

LEMMA GoodFacts ==
  ASSUME NEW p, NEW tok, NEW tab, Good(p, tok, tab)
  PROVE  /\ p.free \subseteq Blocks /\ p.ref \in [Blocks -> Nat]
         /\ p.cached \in [Hashes -> Blocks \cup {None}]
         /\ p.evictable \in [Blocks -> Hashes \cup {None}] /\ p.active \subseteq Blocks
         /\ p.computed \subseteq Blocks /\ p.touched \subseteq Blocks
         /\ tok \in [Seqs -> SeqsUpTo(MaxLen)] /\ tab \in [Seqs -> Seq(Blocks)]
         /\ \A s \in Seqs :
              /\ tok[s] \in Seq(Tokens) /\ Len(tok[s]) \in 0 .. MaxLen
              /\ tab[s] \in Seq(Blocks) /\ Len(tab[s]) \in Nat
              /\ DOMAIN tab[s] = 1 .. Len(tab[s])
              /\ \A i \in DOMAIN tab[s] : i \in Nat \ {0} /\ tab[s][i] \in Blocks
<1>1. Shaped(p, tok, tab)
  BY DEF Good
<1>2. /\ p.free \subseteq Blocks /\ p.ref \in [Blocks -> Nat]
      /\ p.cached \in [Hashes -> Blocks \cup {None}]
      /\ p.evictable \in [Blocks -> Hashes \cup {None}] /\ p.active \subseteq Blocks
      /\ p.computed \subseteq Blocks /\ p.touched \subseteq Blocks
  BY <1>1 DEF Shaped, Pools
<1>3. ASSUME NEW s \in Seqs
      PROVE  /\ tok[s] \in Seq(Tokens) /\ Len(tok[s]) \in 0 .. MaxLen
             /\ tab[s] \in Seq(Blocks) /\ Len(tab[s]) \in Nat
             /\ DOMAIN tab[s] = 1 .. Len(tab[s])
             /\ \A i \in DOMAIN tab[s] : i \in Nat \ {0} /\ tab[s][i] \in Blocks
  <2>1. tok[s] \in SeqsUpTo(MaxLen) /\ tab[s] \in Seq(Blocks)
    BY <1>1 DEF Shaped
  <2>2. tok[s] \in Seq(Tokens) /\ Len(tok[s]) <= MaxLen
    BY <2>1, SeqsUpToFacts, AllocatorAssumption
  <2>3. Len(tok[s]) \in 0 .. MaxLen
    BY <2>2, LenProperties, AllocatorAssumption
  <2>4. Len(tab[s]) \in Nat /\ DOMAIN tab[s] = 1 .. Len(tab[s])
    BY <2>1, LenProperties
  <2>5. \A i \in DOMAIN tab[s] : i \in Nat \ {0} /\ tab[s][i] \in Blocks
    BY <2>1, <2>4, ElementOfSeq
  <2> QED
    BY <2>1, <2>2, <2>3, <2>4, <2>5
<1> QED
  BY <1>1, <1>2, <1>3 DEF Shaped

\* A block some table holds is not evictable; if it is not full there, it is not in
\* the index; if it is, then under that hash only.
LEMMA HeldFacts ==
  ASSUME NEW p, NEW tok, NEW tab, Good(p, tok, tab),
         NEW s \in Seqs, NEW i \in DOMAIN tab[s]
  PROVE  /\ p.ref[tab[s][i]] > 0 /\ p.evictable[tab[s][i]] = None /\ tab[s][i] \notin p.free
         /\ \A h \in Hashes : p.cached[h] = tab[s][i] => IsFull(tok[s], i) /\ h = HashAt(tok[s], i)
<1> DEFINE b == tab[s][i]
           H == Holders(tab, b)
<1>1. b \in Blocks
  BY GoodFacts
<1>2. s \in H /\ IsFiniteSet(H)
  BY FS_Subset, AllocatorAssumption DEF Holders
<1>3. Cardinality(H) \in Nat /\ Cardinality(H) # 0
  <2> HIDE DEF H
  <2> QED
    BY <1>2, FS_CardinalityType, FS_EmptySet
<1>4. p.ref[b] = Cardinality(H)
  BY <1>1 DEF Good, Counted
<1> HIDE DEF H
<1>5. p.ref[b] > 0 /\ p.ref[b] # 0
  BY <1>3, <1>4
<1>6. p.evictable[b] = None /\ b \notin p.free
  BY <1>1, <1>5 DEF Good, Counted
<1>7. ASSUME NEW h \in Hashes, p.cached[h] = b
      PROVE  IsFull(tok[s], i) /\ h = HashAt(tok[s], i)
  <2>1. h # None /\ b # None
    BY <1>1, NoneAssumption, AllocatorAssumption
  <2>2. PICK r \in Seqs : \E j \in DOMAIN tab[r] :
               IsFull(tok[r], j) /\ tab[r][j] = b /\ HashAt(tok[r], j) = h
    <3>1. p.evictable[p.cached[h]] # h
      BY <1>6, <1>7, <2>1
    <3> QED
      BY <1>7, <2>1, <3>1 DEF Good, IndexBacked
  <2>3. PICK j \in DOMAIN tab[r] : IsFull(tok[r], j) /\ tab[r][j] = b /\ HashAt(tok[r], j) = h
    BY <2>2
  <2> QED
    BY <2>3 DEF Good, SamePlace
<1> QED
  BY <1>5, <1>6, <1>7

\* A block no table holds is in the index only while it is evictable.
LEMMA UnheldFacts ==
  ASSUME NEW p, NEW tok, NEW tab, Good(p, tok, tab),
         NEW b \in Blocks, p.ref[b] = 0
  PROVE  /\ \A s \in Seqs : \A i \in DOMAIN tab[s] : tab[s][i] # b
         /\ \A h \in Hashes : p.cached[h] = b => p.evictable[b] = h
         /\ Holders(tab, b) = {}
<1>1. \A s \in Seqs : \A i \in DOMAIN tab[s] : tab[s][i] # b
  <2> SUFFICES ASSUME NEW s \in Seqs, NEW i \in DOMAIN tab[s], tab[s][i] = b PROVE FALSE
    OBVIOUS
  <2>1. p.ref[tab[s][i]] > 0
    BY HeldFacts
  <2> QED
    BY <2>1
<1>2. b # None
  BY AllocatorAssumption
<1>3. \A h \in Hashes : p.cached[h] = b => p.evictable[b] = h
  BY <1>1, <1>2 DEF Good, IndexBacked
<1> QED
  BY <1>1, <1>3 DEF Holders

Has(q, b) == \E i \in DOMAIN q : q[i] = b

\* How many tables hold b after the table of s changed.
LEMMA CountExcept ==
  ASSUME NEW tab, NEW new, NEW s \in Seqs, NEW b,
         \A r \in Seqs : r # s => new[r] = tab[r]
  PROVE  /\ Cardinality(Holders(tab, b)) \in Nat
         /\ (Has(tab[s], b) <=> Has(new[s], b)) => Cardinality(Holders(new, b)) = Cardinality(Holders(tab, b))
         /\ ~ Has(tab[s], b) /\ Has(new[s], b) => Cardinality(Holders(new, b)) = Cardinality(Holders(tab, b)) + 1
         /\ Has(tab[s], b) /\ ~ Has(new[s], b) => Cardinality(Holders(new, b)) = Cardinality(Holders(tab, b)) - 1
<1> DEFINE H == Holders(tab, b)
           G == Holders(new, b)
<1>1. IsFiniteSet(H) /\ (s \in H <=> Has(tab[s], b))
  BY FS_Subset, AllocatorAssumption DEF Holders, Has
<1>2. G = IF Has(new[s], b) THEN H \cup {s} ELSE H \ {s}
  BY DEF Holders, Has
<1> HIDE DEF H, G
<1>3. Cardinality(H) \in Nat
  BY <1>1, FS_CardinalityType
<1>4. Cardinality(H \cup {s}) = IF s \in H THEN Cardinality(H) ELSE Cardinality(H) + 1
  BY <1>1, FS_AddElement
<1>5. Cardinality(H \ {s}) = IF s \in H THEN Cardinality(H) - 1 ELSE Cardinality(H)
  BY <1>1, FS_RemoveElement
<1>6. /\ (Has(tab[s], b) <=> Has(new[s], b)) => Cardinality(G) = Cardinality(H)
      /\ ~ Has(tab[s], b) /\ Has(new[s], b) => Cardinality(G) = Cardinality(H) + 1
      /\ Has(tab[s], b) /\ ~ Has(new[s], b) => Cardinality(G) = Cardinality(H) - 1
  BY <1>1, <1>2, <1>4, <1>5
<1> QED
  BY <1>3, <1>6 DEF H, G

-----------------------------------------------------------------------------
(* The moves the operations are made of *)

\* The tokens of s change behind the blocks its table has.
LEMMA Retoken ==
  ASSUME NEW p, NEW tok, NEW tab, Good(p, tok, tab), NEW s \in Seqs, NEW t \in SeqsUpTo(MaxLen),
         \A i \in DOMAIN tab[s] :
           /\ IsFull(t, i) <=> IsFull(tok[s], i)
           /\ IsFull(t, i) => HashAt(t, i) = HashAt(tok[s], i)
  PROVE  Good(p, [tok EXCEPT ![s] = t], tab)
<1> DEFINE new == [tok EXCEPT ![s] = t]
<1>1. new \in [Seqs -> SeqsUpTo(MaxLen)] /\ Shaped(p, new, tab)
  BY DEF Good, Shaped
<1>2. ASSUME NEW r \in Seqs, NEW i \in DOMAIN tab[r]
      PROVE  /\ IsFull(new[r], i) <=> IsFull(tok[r], i)
             /\ IsFull(new[r], i) => HashAt(new[r], i) = HashAt(tok[r], i)
  <2>1. new[r] = IF r = s THEN t ELSE tok[r]
    BY DEF Good, Shaped
  <2> QED
    BY <2>1
<1> HIDE DEF new
<1>3. IndexBacked(p, new, tab)
  <2> SUFFICES ASSUME NEW h \in Hashes, p.cached[h] # None, p.evictable[p.cached[h]] # h
               PROVE  \E r \in Seqs : \E i \in DOMAIN tab[r] :
                        IsFull(new[r], i) /\ tab[r][i] = p.cached[h] /\ HashAt(new[r], i) = h
    BY DEF IndexBacked
  <2>1. PICK r \in Seqs : \E i \in DOMAIN tab[r] :
               IsFull(tok[r], i) /\ tab[r][i] = p.cached[h] /\ HashAt(tok[r], i) = h
    BY DEF Good, IndexBacked
  <2>2. PICK i \in DOMAIN tab[r] : IsFull(tok[r], i) /\ tab[r][i] = p.cached[h] /\ HashAt(tok[r], i) = h
    BY <2>1
  <2>3. IsFull(new[r], i) /\ HashAt(new[r], i) = h
    BY <1>2, <2>2
  <2> QED
    BY <2>2, <2>3
<1>4. FullIndexed(p, new, tab)
  BY <1>2 DEF Good, FullIndexed
<1>5. SamePlace(new, tab)
  BY <1>2 DEF Good, SamePlace
<1> QED
  BY <1>1, <1>3, <1>4, <1>5 DEF Good, new

\* The table of s loses its last block, which is not full.
LEMMA DropTail ==
  ASSUME NEW p, NEW tok, NEW tab, Good(p, tok, tab), NEW s \in Seqs, Len(tab[s]) > 0,
         ~ IsFull(tok[s], Len(tab[s]))
  PROVE  Good(DecrRefcountHashless(p, tab[s][Len(tab[s])]), tok,
              [tab EXCEPT ![s] = Prefix(tab[s], Len(tab[s]) - 1)])
<1> DEFINE n == Len(tab[s])
           b == tab[s][n]
           q == Prefix(tab[s], n - 1)
           new == [tab EXCEPT ![s] = q]
           pn == DecrRefcountHashless(p, b)
<1>1. n \in Nat /\ n \in DOMAIN tab[s] /\ b \in Blocks /\ tab[s] \in Seq(Blocks) /\ DOMAIN tab[s] = 1 .. n
      /\ n - 1 \in 0 .. n
  BY GoodFacts
<1>2. /\ q \in Seq(Blocks) /\ DOMAIN q = 1 .. n - 1 /\ \A i \in 1 .. n - 1 : q[i] = tab[s][i]
  BY <1>1, BlockPrefix
<1>3. new \in [Seqs -> Seq(Blocks)] /\ new[s] = q /\ \A r \in Seqs : r # s => new[r] = tab[r]
  BY <1>2, GoodFacts
<1>4. \A r \in Seqs : \A i \in DOMAIN new[r] : i \in DOMAIN tab[r] /\ new[r][i] = tab[r][i]
  BY <1>1, <1>2, <1>3
<1>5. /\ p.ref[b] \in Nat \ {0} /\ p.evictable[b] = None /\ b \notin p.free
      /\ \A h \in Hashes : p.cached[h] # b
  BY <1>1, HeldFacts, GoodFacts
<1>6. /\ pn \in Pools /\ pn.ref = [p.ref EXCEPT ![b] = p.ref[b] - 1]
      /\ pn.free = (IF p.ref[b] = 1 THEN p.free \cup {b} ELSE p.free)
      /\ pn.active = (IF p.ref[b] = 1 THEN p.active \ {b} ELSE p.active)
      /\ pn.cached = p.cached /\ pn.evictable = p.evictable
  BY <1>1, <1>5, DecrFacts DEF Good, Shaped
<1> HIDE DEF new, pn, q
<1>7. ASSUME NEW c \in Blocks
      PROVE  Cardinality(Holders(new, c)) = IF c = b THEN p.ref[b] - 1 ELSE p.ref[c]
  <2>1. p.ref[c] = Cardinality(Holders(tab, c))
    BY DEF Good, Counted
  <2>2. ASSUME c # b PROVE Has(tab[s], c) <=> Has(q, c)
    <3>1. \A i \in 1 .. n : i # n => i \in 1 .. n - 1
      BY <1>1
    <3>2. \A i \in 1 .. n - 1 : i \in 1 .. n
      BY <1>1
    <3> QED
      BY <1>1, <1>2, <2>2, <3>1, <3>2 DEF Has
  <2>3. ASSUME c = b PROVE Has(tab[s], c) /\ ~ Has(q, c)
    <3>1. \A i \in 1 .. n - 1 : tab[s][i] # b
      BY <1>1 DEF Good, SamePlace
    <3> QED
      BY <1>1, <1>2, <2>3, <3>1 DEF Has
  <2>4. CASE c = b
    BY <1>3, <2>1, <2>3, <2>4, CountExcept
  <2>5. CASE c # b
    BY <1>3, <2>1, <2>2, <2>5, CountExcept
  <2> QED
    BY <2>4, <2>5
<1>8. Counted(pn, new)
  <2> SUFFICES ASSUME NEW c \in Blocks
               PROVE  /\ pn.ref[c] = Cardinality(Holders(new, c))
                      /\ c \in pn.active <=> pn.ref[c] > 0
                      /\ c \in pn.free <=> pn.ref[c] = 0 /\ pn.evictable[c] = None
                      /\ pn.evictable[c] # None => pn.ref[c] = 0
    BY DEF Counted
  <2>1. pn.ref[c] = IF c = b THEN p.ref[b] - 1 ELSE p.ref[c]
    BY <1>1, <1>6, GoodFacts
  <2>2. /\ c \in p.active <=> p.ref[c] > 0
        /\ c \in p.free <=> p.ref[c] = 0 /\ p.evictable[c] = None
        /\ p.evictable[c] # None => p.ref[c] = 0
    BY DEF Good, Counted
  <2>3. CASE c = b
    BY <1>5, <1>6, <1>7, <2>1, <2>2, <2>3
  <2>4. CASE c # b
    BY <1>6, <1>7, <2>1, <2>2, <2>4
  <2> QED
    BY <2>3, <2>4
<1>9. EvictableIndexed(pn)
  BY <1>6 DEF Good, EvictableIndexed
<1>10. IndexBacked(pn, tok, new)
  <2> SUFFICES ASSUME NEW h \in Hashes, p.cached[h] # None, p.evictable[p.cached[h]] # h
               PROVE  \E r \in Seqs : \E i \in DOMAIN new[r] :
                        IsFull(tok[r], i) /\ new[r][i] = p.cached[h] /\ HashAt(tok[r], i) = h
    BY <1>6 DEF IndexBacked
  <2>1. PICK r \in Seqs : \E i \in DOMAIN tab[r] :
               IsFull(tok[r], i) /\ tab[r][i] = p.cached[h] /\ HashAt(tok[r], i) = h
    BY DEF Good, IndexBacked
  <2>2. PICK i \in DOMAIN tab[r] : IsFull(tok[r], i) /\ tab[r][i] = p.cached[h] /\ HashAt(tok[r], i) = h
    BY <2>1
  <2>3. i \in DOMAIN new[r] /\ new[r][i] = tab[r][i]
    <3>1. CASE r # s
      BY <1>3, <3>1
    <3>2. CASE r = s
      <4>1. i # n
        BY <2>2, <3>2
      <4>2. i \in 1 .. n - 1
        BY <1>1, <2>2, <3>2, <4>1
      <4> QED
        BY <1>2, <1>3, <3>2, <4>2
    <3> QED
      BY <3>1, <3>2
  <2> QED
    BY <2>2, <2>3
<1>11. FullIndexed(pn, tok, new)
  BY <1>4, <1>6 DEF Good, FullIndexed
<1>12. SamePlace(tok, new)
  BY <1>4 DEF Good, SamePlace
<1>13. Shaped(pn, tok, new)
  BY <1>3, <1>6 DEF Good, Shaped
<1> QED
  BY <1>8, <1>9, <1>10, <1>11, <1>12, <1>13 DEF Good, new, pn, q

\* The table of s gets block x behind its others.
LEMMA Appended ==
  ASSUME NEW tab \in [Seqs -> Seq(Blocks)], NEW s \in Seqs, NEW x \in Blocks, NEW new,
         new[s] = Append(tab[s], x)
  PROVE  /\ new[s] \in Seq(Blocks) /\ DOMAIN new[s] = 1 .. Len(tab[s]) + 1 /\ new[s][Len(tab[s]) + 1] = x
         /\ Len(tab[s]) \in Nat /\ DOMAIN tab[s] = 1 .. Len(tab[s])
         /\ \A i \in DOMAIN tab[s] : i \in DOMAIN new[s] /\ new[s][i] = tab[s][i] /\ i # Len(tab[s]) + 1
         /\ \A i \in DOMAIN new[s] : i \in DOMAIN tab[s] \/ i = Len(tab[s]) + 1
         /\ Len(tab[s]) + 1 \in DOMAIN new[s] /\ Len(tab[s]) + 1 \in Nat \ {0}
         /\ \A c : Has(new[s], c) <=> Has(tab[s], c) \/ c = x
<1> DEFINE n == Len(tab[s])
<1>1. tab[s] \in Seq(Blocks) /\ n \in Nat /\ DOMAIN tab[s] = 1 .. n
  BY LenProperties
<1>2. /\ Append(tab[s], x) \in Seq(Blocks) /\ Len(Append(tab[s], x)) = n + 1
      /\ \A i \in 1 .. n : Append(tab[s], x)[i] = tab[s][i]
      /\ Append(tab[s], x)[n + 1] = x
  BY <1>1, AppendProperties
<1>3. new[s] \in Seq(Blocks)
  BY <1>2
<1>4. DOMAIN new[s] = 1 .. n + 1
  BY <1>2, LenProperties
<1>5. /\ \A i \in 1 .. n : i \in 1 .. n + 1 /\ i # n + 1
      /\ \A i \in 1 .. n + 1 : i \in 1 .. n \/ i = n + 1
      /\ n + 1 \in 1 .. n + 1 /\ n + 1 \in Nat \ {0}
  BY <1>1
<1>6. \A c : Has(new[s], c) <=> Has(tab[s], c) \/ c = x
  BY <1>1, <1>2, <1>3, <1>4, <1>5 DEF Has
<1> QED
  BY <1>1, <1>2, <1>3, <1>4, <1>5, <1>6

\* The table of s gets a block from the free list or the evictor, for tokens that do
\* not fill it.
LEMMA PushTail ==
  ASSUME NEW p, NEW tok, NEW tab, Good(p, tok, tab), NEW s \in Seqs, NEW b \in Blocks,
         Allocatable(p, b), ~ IsFull(tok[s], Len(tab[s]) + 1)
  PROVE  /\ Good(AllocateBlockId(p, b), tok, [tab EXCEPT ![s] = Append(tab[s], b)])
         /\ AllocateBlockId(p, b).ref[b] = 1
<1> DEFINE n == Len(tab[s])
           new == [tab EXCEPT ![s] = Append(tab[s], b)]
           pn == AllocateBlockId(p, b)
<1>1. tab \in [Seqs -> Seq(Blocks)] /\ p \in Pools /\ b # None
  BY AllocatorAssumption DEF Good, Shaped
<1>2. p.ref[b] = 0
  BY DEF Good, Counted, Allocatable, Evictable
<1>3. /\ \A r \in Seqs : \A i \in DOMAIN tab[r] : tab[r][i] # b
      /\ \A h \in Hashes : p.cached[h] = b => p.evictable[b] = h
      /\ ~ Has(tab[s], b)
  BY <1>2, UnheldFacts DEF Has
<1>a. /\ pn \in Pools /\ pn.ref = [p.ref EXCEPT ![b] = 1]
      /\ pn.free = p.free \ {b} /\ pn.active = p.active \cup {b}
      /\ pn.evictable = [p.evictable EXCEPT ![b] = None]
      /\ pn.cached = [h \in Hashes |-> IF p.evictable[b] # None /\ h = p.evictable[b] THEN None ELSE p.cached[h]]
  BY <1>1, <1>2, AllocateFacts
<1>b. new[s] = Append(tab[s], b) /\ \A r \in Seqs : r # s => new[r] = tab[r]
  BY <1>1
<1>c. new[s] \in Seq(Blocks) => new \in [Seqs -> Seq(Blocks)]
  BY <1>1
<1> HIDE DEF new, pn
<1>4. /\ pn \in Pools /\ pn.free = p.free \ {b} /\ pn.active = p.active \cup {b}
      /\ \A h \in Hashes : pn.cached[h] = IF p.evictable[b] # None /\ h = p.evictable[b] THEN None ELSE p.cached[h]
  BY <1>a
<1>5. /\ new \in [Seqs -> Seq(Blocks)] /\ \A r \in Seqs : r # s => new[r] = tab[r]
      /\ new[s][n + 1] = b
      /\ \A i \in DOMAIN tab[s] : i \in DOMAIN new[s] /\ new[s][i] = tab[s][i] /\ i # n + 1
      /\ \A i \in DOMAIN new[s] : i \in DOMAIN tab[s] \/ i = n + 1
      /\ \A c : Has(new[s], c) <=> Has(tab[s], c) \/ c = b
  <2>1. new[s] \in Seq(Blocks)
    BY <1>1, <1>b, Appended
  <2>2. new[s][n + 1] = b
    BY <1>1, <1>b, Appended
  <2>3. \A i \in DOMAIN tab[s] : i \in DOMAIN new[s] /\ new[s][i] = tab[s][i] /\ i # n + 1
    BY <1>1, <1>b, Appended
  <2>4. \A i \in DOMAIN new[s] : i \in DOMAIN tab[s] \/ i = n + 1
    BY <1>1, <1>b, Appended
  <2>5. \A c : Has(new[s], c) <=> Has(tab[s], c) \/ c = b
    BY <1>1, <1>b, Appended
  <2> QED
    BY <1>b, <1>c, <2>1, <2>2, <2>3, <2>4, <2>5
<1>6. /\ \A c \in Blocks : pn.ref[c] = IF c = b THEN 1 ELSE p.ref[c]
      /\ \A c \in Blocks : pn.evictable[c] = IF c = b THEN None ELSE p.evictable[c]
  BY <1>a, GoodFacts
\* What the index still names is not b.
<1>7. \A h \in Hashes : pn.cached[h] # None => pn.cached[h] = p.cached[h] /\ pn.cached[h] # b
  BY <1>1, <1>3, <1>4, NoneAssumption
<1>8. \A r \in Seqs : \A i \in DOMAIN new[r] :
        \/ i \in DOMAIN tab[r] /\ new[r][i] = tab[r][i] /\ new[r][i] # b
        \/ r = s /\ i = n + 1 /\ new[r][i] = b /\ ~ IsFull(tok[r], i)
  BY <1>3, <1>5
<1>9. Counted(pn, new)
  <2> SUFFICES ASSUME NEW c \in Blocks
               PROVE  /\ pn.ref[c] = Cardinality(Holders(new, c))
                      /\ c \in pn.active <=> pn.ref[c] > 0
                      /\ c \in pn.free <=> pn.ref[c] = 0 /\ pn.evictable[c] = None
                      /\ pn.evictable[c] # None => pn.ref[c] = 0
    BY DEF Counted
  <2>1. /\ p.ref[c] = Cardinality(Holders(tab, c))
        /\ c \in p.active <=> p.ref[c] > 0
        /\ c \in p.free <=> p.ref[c] = 0 /\ p.evictable[c] = None
        /\ p.evictable[c] # None => p.ref[c] = 0
    BY DEF Good, Counted
  <2>2. CASE c = b
    <3>1. Has(new[s], c) /\ ~ Has(tab[s], c)
      BY <1>3, <1>5, <2>2
    <3>2. Cardinality(Holders(new, c)) = Cardinality(Holders(tab, c)) + 1
      <4>1. \A r \in Seqs : r # s => new[r] = tab[r]
        BY <1>5
      <4>2. ~ Has(tab[s], c) /\ Has(new[s], c) =>
              Cardinality(Holders(new, c)) = Cardinality(Holders(tab, c)) + 1
        BY ZenonT(60), <4>1, CountExcept
      <4> QED
        BY <4>2, <3>1
    <3> QED
      BY <1>2, <1>4, <1>6, <2>1, <2>2, <3>2
  <2>3. CASE c # b
    <3>1. Cardinality(Holders(new, c)) = Cardinality(Holders(tab, c))
      BY <1>5, <2>3, CountExcept
    <3> QED
      BY <1>4, <1>6, <2>1, <2>3, <3>1
  <2> QED
    BY <2>2, <2>3
<1>10. EvictableIndexed(pn)
  <2> SUFFICES ASSUME NEW c \in Blocks, pn.evictable[c] # None PROVE pn.cached[pn.evictable[c]] = c
    BY DEF EvictableIndexed
  <2>1. c # b /\ pn.evictable[c] = p.evictable[c] /\ p.evictable[c] \in Hashes
    BY <1>6, GoodFacts
  <2>2. p.cached[p.evictable[c]] = c
    BY <2>1 DEF Good, EvictableIndexed
  <2>3. p.evictable[b] # None => p.cached[p.evictable[b]] = b
    BY DEF Good, EvictableIndexed
  <2> QED
    BY <1>4, <2>1, <2>2, <2>3
<1>11. IndexBacked(pn, tok, new)
  <2> SUFFICES ASSUME NEW h \in Hashes, pn.cached[h] # None, pn.evictable[pn.cached[h]] # h
               PROVE  \E r \in Seqs : \E i \in DOMAIN new[r] :
                        IsFull(tok[r], i) /\ new[r][i] = pn.cached[h] /\ HashAt(tok[r], i) = h
    BY DEF IndexBacked
  <2>1. pn.cached[h] = p.cached[h] /\ p.cached[h] \in Blocks /\ p.cached[h] # b /\ p.cached[h] # None
    BY <1>7, GoodFacts
  <2>2. p.evictable[p.cached[h]] # h
    BY <1>6, <2>1
  <2>3. PICK r \in Seqs : \E i \in DOMAIN tab[r] :
               IsFull(tok[r], i) /\ tab[r][i] = p.cached[h] /\ HashAt(tok[r], i) = h
    BY <2>1, <2>2 DEF Good, IndexBacked
  <2>4. PICK i \in DOMAIN tab[r] : IsFull(tok[r], i) /\ tab[r][i] = p.cached[h] /\ HashAt(tok[r], i) = h
    BY <2>3
  <2>5. i \in DOMAIN new[r] /\ new[r][i] = tab[r][i]
    BY <1>5
  <2> QED
    BY <2>1, <2>4, <2>5
<1>12. FullIndexed(pn, tok, new)
  <2> SUFFICES ASSUME NEW r \in Seqs, NEW i \in DOMAIN new[r], IsFull(tok[r], i)
               PROVE  pn.cached[HashAt(tok[r], i)] = new[r][i]
    BY DEF FullIndexed
  <2>1. i \in DOMAIN tab[r] /\ new[r][i] = tab[r][i] /\ tab[r][i] # b
    BY <1>8
  <2>2. p.cached[HashAt(tok[r], i)] = tab[r][i] /\ HashAt(tok[r], i) \in Hashes
    BY <2>1, GoodFacts, HashFacts DEF Good, FullIndexed
  <2>3. p.evictable[b] # None => p.cached[p.evictable[b]] = b
    BY DEF Good, EvictableIndexed
  <2> QED
    BY <1>4, <2>1, <2>2, <2>3
<1>13. SamePlace(tok, new)
  BY <1>8 DEF Good, SamePlace
<1>14. Shaped(pn, tok, new)
  BY <1>4, <1>5 DEF Good, Shaped
<1> QED
  BY <1>6, <1>9, <1>10, <1>11, <1>12, <1>13, <1>14 DEF Good, new, pn

\* The table of s gets the block the index names for its next tokens.
LEMMA PushHit ==
  ASSUME NEW p, NEW tok, NEW tab, Good(p, tok, tab), NEW s \in Seqs, NEW h \in Hashes,
         IsFull(tok[s], Len(tab[s]) + 1), h = HashAt(tok[s], Len(tab[s]) + 1), p.cached[h] # None
  PROVE  Good(IncrRefcountCached(p, h), tok, [tab EXCEPT ![s] = Append(tab[s], p.cached[h])])
<1> DEFINE n == Len(tab[s])
           b == p.cached[h]
           new == [tab EXCEPT ![s] = Append(tab[s], b)]
           pn == IncrRefcountCached(p, h)
<1>1. tab \in [Seqs -> Seq(Blocks)] /\ p \in Pools /\ b \in Blocks /\ p.ref[b] \in Nat /\ tok[s] \in SeqsUpTo(MaxLen)
  BY GoodFacts DEF Good, Shaped
<1>2. /\ pn \in Pools /\ pn.ref = [p.ref EXCEPT ![b] = p.ref[b] + 1]
      /\ pn.free = p.free /\ pn.cached = p.cached
      /\ pn.active = (IF p.ref[b] = 0 THEN p.active \cup {b} ELSE p.active)
      /\ pn.evictable = (IF p.ref[b] = 0 THEN [p.evictable EXCEPT ![b] = None] ELSE p.evictable)
  BY <1>1, IncrFacts
<1>3. new[s] = Append(tab[s], b) /\ \A r \in Seqs : r # s => new[r] = tab[r]
  BY <1>1
<1>4. new[s] \in Seq(Blocks) => new \in [Seqs -> Seq(Blocks)]
  BY <1>1
<1> HIDE DEF new, pn
<1>5. new[s] \in Seq(Blocks) /\ new[s][n + 1] = b /\ n + 1 \in DOMAIN new[s] /\ n + 1 \in Nat \ {0}
  BY <1>1, <1>3, Appended
<1>6. \A i \in DOMAIN tab[s] : i \in DOMAIN new[s] /\ new[s][i] = tab[s][i] /\ i # n + 1
  BY <1>1, <1>3, Appended
<1>7. \A i \in DOMAIN new[s] : i \in DOMAIN tab[s] \/ i = n + 1
  BY <1>1, <1>3, Appended
<1>8. \A c : Has(new[s], c) <=> Has(tab[s], c) \/ c = b
  BY ZenonT(60), <1>1, <1>3, Appended
\* Wherever b is, it is the block of these tokens; so s does not hold it yet.
<1>9. ASSUME NEW r \in Seqs, NEW i \in DOMAIN tab[r], tab[r][i] = b
      PROVE  i = n + 1 /\ IsFull(tok[r], i) /\ HashAt(tok[r], i) = h
  <2>1. IsFull(tok[r], i) /\ HashAt(tok[r], i) = h /\ i \in Nat \ {0} /\ tok[r] \in SeqsUpTo(MaxLen)
    BY <1>9, HeldFacts, GoodFacts
  <2>2. Len(h) = i * BlockSize /\ Len(h) = (n + 1) * BlockSize
    BY <1>1, <1>5, <2>1, HashFacts
  <2>3. i = n + 1
    BY <1>5, <2>1, <2>2, Products
  <2> QED
    BY <2>1, <2>3
<1>10. ~ Has(tab[s], b)
  BY <1>6, <1>9 DEF Has
<1>11. /\ \A c \in Blocks : pn.ref[c] = IF c = b THEN p.ref[b] + 1 ELSE p.ref[c]
       /\ \A c \in Blocks : pn.evictable[c] = IF c = b THEN None ELSE p.evictable[c]
  <2>1. p.ref[b] # 0 => p.evictable[b] = None
    BY <1>1 DEF Good, Counted
  <2>2. p.ref \in [Blocks -> Nat] /\ p.evictable \in [Blocks -> Hashes \cup {None}]
    BY <1>1 DEF Pools
  <2>3. \A c \in Blocks : pn.ref[c] = IF c = b THEN p.ref[b] + 1 ELSE p.ref[c]
    BY <1>1, <1>2, <2>2
  <2>4. \A c \in Blocks : pn.evictable[c] = IF c = b THEN None ELSE p.evictable[c]
    <3>1. CASE p.ref[b] = 0
      BY <1>1, <1>2, <2>2, <3>1
    <3>2. CASE p.ref[b] # 0
      BY <1>2, <2>1, <3>2
    <3> QED
      BY <3>1, <3>2
  <2> QED
    BY <2>3, <2>4
<1>12. \A r \in Seqs : \A i \in DOMAIN new[r] :
         \/ i \in DOMAIN tab[r] /\ new[r][i] = tab[r][i]
         \/ r = s /\ i = n + 1 /\ new[r][i] = b /\ IsFull(tok[r], i) /\ HashAt(tok[r], i) = h
  BY <1>3, <1>5, <1>6, <1>7
<1>13. Counted(pn, new)
  <2> SUFFICES ASSUME NEW c \in Blocks
               PROVE  /\ pn.ref[c] = Cardinality(Holders(new, c))
                      /\ c \in pn.active <=> pn.ref[c] > 0
                      /\ c \in pn.free <=> pn.ref[c] = 0 /\ pn.evictable[c] = None
                      /\ pn.evictable[c] # None => pn.ref[c] = 0
    BY DEF Counted
  <2>1. /\ p.ref[c] = Cardinality(Holders(tab, c))
        /\ c \in p.active <=> p.ref[c] > 0
        /\ c \in p.free <=> p.ref[c] = 0 /\ p.evictable[c] = None
        /\ p.evictable[c] # None => p.ref[c] = 0
    BY DEF Good, Counted
  <2>2. \A r \in Seqs : r # s => new[r] = tab[r]
    BY <1>3
  <2>3. CASE c = b
    <3>1. Has(new[s], c) /\ ~ Has(tab[s], c)
      BY <1>8, <1>10, <2>3
    <3>2. ~ Has(tab[s], c) /\ Has(new[s], c) =>
            Cardinality(Holders(new, c)) = Cardinality(Holders(tab, c)) + 1
      BY <2>2, CountExcept
    <3>3. Cardinality(Holders(new, c)) = p.ref[b] + 1
      BY <2>1, <2>3, <3>1, <3>2
    <3>4. b \notin p.free
      <4>1. p.ref[b] = 0 => p.evictable[b] = h
        BY <1>1, UnheldFacts
      <4> QED
        BY <2>1, <2>3, <4>1, NoneAssumption
    <3>5. pn.ref[c] = p.ref[b] + 1 /\ pn.evictable[c] = None
      BY <1>11, <2>3
    <3>6. p.ref[b] + 1 > 0 /\ p.ref[b] + 1 # 0
      BY <1>1
    <3>7. c \in pn.active
      <4>1. p.ref[b] # 0 => b \in p.active
        BY <1>1, <2>1, <2>3
      <4> QED
        BY <1>2, <2>3, <4>1
    <3> QED
      BY <1>2, <2>3, <3>3, <3>4, <3>5, <3>6, <3>7
  <2>4. CASE c # b
    <3>1. (Has(tab[s], c) <=> Has(new[s], c)) => Cardinality(Holders(new, c)) = Cardinality(Holders(tab, c))
      BY ZenonT(60), <2>2, CountExcept
    <3>2. Cardinality(Holders(new, c)) = Cardinality(Holders(tab, c))
      BY <1>8, <2>4, <3>1
    <3> QED
      <4>1. pn.ref[c] = p.ref[c] /\ pn.evictable[c] = p.evictable[c]
        BY <1>11, <2>4
      <4>2. (c \in pn.active <=> c \in p.active) /\ (c \in pn.free <=> c \in p.free)
        BY <1>2, <2>4
      <4> QED
        BY <2>1, <3>2, <4>1, <4>2
  <2> QED
    BY <2>3, <2>4
<1>14. EvictableIndexed(pn)
  <2> SUFFICES ASSUME NEW c \in Blocks, pn.evictable[c] # None PROVE pn.cached[pn.evictable[c]] = c
    BY DEF EvictableIndexed
  <2>1. pn.evictable[c] = p.evictable[c] /\ pn.cached = p.cached
    BY <1>2, <1>11
  <2> QED
    BY <2>1 DEF Good, EvictableIndexed
<1>15. IndexBacked(pn, tok, new)
  <2> SUFFICES ASSUME NEW g \in Hashes, p.cached[g] # None, pn.evictable[p.cached[g]] # g
               PROVE  \E r \in Seqs : \E i \in DOMAIN new[r] :
                        IsFull(tok[r], i) /\ new[r][i] = p.cached[g] /\ HashAt(tok[r], i) = g
    BY <1>2 DEF IndexBacked
  <2>1. CASE p.evictable[p.cached[g]] # g
    <3>1. PICK r \in Seqs : \E i \in DOMAIN tab[r] :
                 IsFull(tok[r], i) /\ tab[r][i] = p.cached[g] /\ HashAt(tok[r], i) = g
      BY <2>1 DEF Good, IndexBacked
    <3>2. PICK i \in DOMAIN tab[r] : IsFull(tok[r], i) /\ tab[r][i] = p.cached[g] /\ HashAt(tok[r], i) = g
      BY <3>1
    <3>3. i \in DOMAIN new[r] /\ new[r][i] = tab[r][i]
      BY <1>3, <1>6
    <3> QED
      BY <3>2, <3>3
  <2>2. CASE p.evictable[p.cached[g]] = g
    <3>1. p.cached[g] = b
      BY <1>11, <2>2, GoodFacts
    <3>2. g = h
      <4>1. p.ref[b] = 0
        BY <1>1, <2>2, <3>1, NoneAssumption DEF Good, Counted
      <4>2. p.evictable[b] = h
        BY <1>1, <4>1, UnheldFacts
      <4> QED
        BY <2>2, <3>1, <4>2
    <3> QED
      BY <1>5, <3>1, <3>2
  <2> QED
    BY <2>1, <2>2
<1>16. FullIndexed(pn, tok, new)
  <2> SUFFICES ASSUME NEW r \in Seqs, NEW i \in DOMAIN new[r], IsFull(tok[r], i)
               PROVE  p.cached[HashAt(tok[r], i)] = new[r][i]
    BY <1>2 DEF FullIndexed
  <2>1. CASE i \in DOMAIN tab[r] /\ new[r][i] = tab[r][i]
    BY <2>1 DEF Good, FullIndexed
  <2>2. CASE r = s /\ i = n + 1 /\ new[r][i] = b /\ HashAt(tok[r], i) = h
    BY <2>2
  <2> QED
    BY <1>12, <2>1, <2>2
<1>17. SamePlace(tok, new)
  <2> SUFFICES ASSUME NEW r \in Seqs, NEW q \in Seqs, NEW i \in DOMAIN new[r], NEW j \in DOMAIN new[q],
                      new[r][i] = new[q][j]
               PROVE  /\ i = j
                      /\ IsFull(tok[r], i) <=> IsFull(tok[q], j)
                      /\ IsFull(tok[r], i) => HashAt(tok[r], i) = HashAt(tok[q], j)
    BY DEF SamePlace
  <2>1. ASSUME new[r][i] = b
        PROVE  i = n + 1 /\ IsFull(tok[r], i) /\ HashAt(tok[r], i) = h
    BY <1>9, <1>12, <2>1
  <2>2. ASSUME new[q][j] = b
        PROVE  j = n + 1 /\ IsFull(tok[q], j) /\ HashAt(tok[q], j) = h
    BY <1>9, <1>12, <2>2
  <2>3. CASE new[r][i] = b
    BY <2>1, <2>2, <2>3
  <2>4. CASE new[r][i] # b
    <3>1. i \in DOMAIN tab[r] /\ new[r][i] = tab[r][i]
      BY <1>12, <2>4
    <3>2. j \in DOMAIN tab[q] /\ new[q][j] = tab[q][j]
      BY <1>12, <2>4
    <3>3. tab[r][i] = tab[q][j]
      BY <3>1, <3>2
    <3> QED
      BY <3>1, <3>2, <3>3 DEF Good, SamePlace
  <2> QED
    BY <2>3, <2>4
<1>18. Shaped(pn, tok, new)
  BY <1>2, <1>4, <1>5 DEF Good, Shaped
<1> QED
  BY <1>13, <1>14, <1>15, <1>16, <1>17, <1>18 DEF Good, new, pn

\* The last block of s is full now, and nothing is cached under its hash.
LEMMA Register ==
  ASSUME NEW p, NEW tok, NEW tab, Good(p, tok, tab), NEW s \in Seqs, NEW t \in SeqsUpTo(MaxLen),
         Len(tab[s]) > 0, ~ IsFull(tok[s], Len(tab[s])), p.ref[tab[s][Len(tab[s])]] = 1,
         Len(t) = Len(tab[s]) * BlockSize, t \in Hashes, p.cached[t] = None,
         \A i \in 1 .. Len(tab[s]) - 1 : IsFull(tok[s], i) /\ HashAt(tok[s], i) = HashAt(t, i)
  PROVE  Good(PromoteToImmutable(p, tab[s][Len(tab[s])], t), [tok EXCEPT ![s] = t], tab)
<1> DEFINE n == Len(tab[s])
           b == tab[s][n]
           pn == PromoteToImmutable(p, b, t)
           new == [tok EXCEPT ![s] = t]
<1>1. /\ n \in Nat \ {0} /\ n \in DOMAIN tab[s] /\ DOMAIN tab[s] = 1 .. n /\ b \in Blocks /\ p \in Pools
      /\ tok \in [Seqs -> SeqsUpTo(MaxLen)]
  BY GoodFacts DEF Good, Shaped
<1>2. /\ pn \in Pools /\ pn.cached = [p.cached EXCEPT ![t] = b]
      /\ pn.ref = p.ref /\ pn.free = p.free /\ pn.active = p.active /\ pn.evictable = p.evictable
  BY <1>1, RegisterFacts
<1>3. new \in [Seqs -> SeqsUpTo(MaxLen)] /\ new[s] = t /\ \A r \in Seqs : r # s => new[r] = tok[r]
  BY <1>1
<1> HIDE DEF pn, new
<1>4. \A h \in Hashes : pn.cached[h] = IF h = t THEN b ELSE p.cached[h]
  BY <1>2, GoodFacts
<1>5. IsFull(t, n) /\ HashAt(t, n) = t /\ \A i \in 1 .. n - 1 : IsFull(t, i)
  <2>1. t \in Seq(Tokens) /\ n * BlockSize \in Nat
    BY SeqsUpToFacts, AllocatorAssumption, <1>1, Products
  <2>2. IsFull(t, n)
    BY <1>1, <2>1 DEF IsFull
  <2>3. HashAt(t, n) = t
    <3>1. /\ HashAt(t, n) \in Seq(Tokens) /\ Len(HashAt(t, n)) = Len(t)
          /\ \A j \in 1 .. Len(t) : HashAt(t, n)[j] = t[j]
      BY <1>1, <2>2, HashFacts
    <3> QED
      BY <2>1, <3>1, SeqEqual
  <2>4. ASSUME NEW i \in 1 .. n - 1 PROVE IsFull(t, i)
    <3>1. i \in Nat /\ i < n
      BY <1>1
    <3>2. i * BlockSize + BlockSize <= n * BlockSize /\ i * BlockSize \in Nat
      BY <1>1, <3>1, Products
    <3> QED
      BY <3>2, <2>1, AllocatorAssumption DEF IsFull
  <2> QED
    BY <2>2, <2>3, <2>4
\* Nobody else holds b.
<1>6. ASSUME NEW r \in Seqs, NEW i \in DOMAIN tab[r], tab[r][i] = b PROVE r = s /\ i = n
  <2>1. i = n
    BY <1>1, <1>6 DEF Good, SamePlace
  <2> DEFINE H == Holders(tab, b)
  <2>2. r \in H /\ s \in H /\ IsFiniteSet(H)
    BY <1>1, <1>6, FS_Subset, AllocatorAssumption DEF Holders
  <2>3. Cardinality(H) = 1
    BY <1>1 DEF Good, Counted
  <2> HIDE DEF H
  <2>4. PICK x : H = {x}
    BY <2>2, <2>3, FS_Singleton
  <2> QED
    BY <2>1, <2>2, <2>4
<1>7. \A h \in Hashes : p.cached[h] # b
  BY <1>1, HeldFacts
<1>8. ASSUME NEW r \in Seqs, NEW i \in DOMAIN tab[r]
      PROVE  \/ r = s /\ i = n /\ IsFull(new[r], i) /\ HashAt(new[r], i) = t /\ tab[r][i] = b
             \/ /\ tab[r][i] # b
                /\ IsFull(new[r], i) <=> IsFull(tok[r], i)
                /\ IsFull(new[r], i) => HashAt(new[r], i) = HashAt(tok[r], i)
  <2>1. CASE r # s
    BY <1>3, <1>6, <2>1
  <2>2. CASE r = s /\ i = n
    BY <1>3, <1>5, <2>2
  <2>3. CASE r = s /\ i # n
    <3>1. i \in 1 .. n - 1
      BY <1>1, <2>3
    <3>2. tab[r][i] # b
      BY <1>6, <2>3
    <3> QED
      BY <1>3, <1>5, <2>3, <3>1, <3>2
  <2> QED
    BY <2>1, <2>2, <2>3
<1>9. Counted(pn, tab)
  BY <1>2 DEF Good, Counted
<1>10. EvictableIndexed(pn)
  <2> SUFFICES ASSUME NEW c \in Blocks, p.evictable[c] # None PROVE pn.cached[p.evictable[c]] = c
    BY <1>2 DEF EvictableIndexed
  <2>1. p.cached[p.evictable[c]] = c /\ c # None /\ p.evictable[c] \in Hashes
    BY AllocatorAssumption, GoodFacts DEF Good, EvictableIndexed
  <2> QED
    BY <1>4, <2>1
<1>11. IndexBacked(pn, new, tab)
  <2> SUFFICES ASSUME NEW h \in Hashes, pn.cached[h] # None, p.evictable[pn.cached[h]] # h
               PROVE  \E r \in Seqs : \E i \in DOMAIN tab[r] :
                        IsFull(new[r], i) /\ tab[r][i] = pn.cached[h] /\ HashAt(new[r], i) = h
    BY <1>2 DEF IndexBacked
  <2>1. CASE h = t
    BY <1>1, <1>3, <1>4, <1>5, <2>1
  <2>2. CASE h # t
    <3>1. pn.cached[h] = p.cached[h]
      BY <1>4, <2>2
    <3>2. PICK r \in Seqs : \E i \in DOMAIN tab[r] :
                 IsFull(tok[r], i) /\ tab[r][i] = p.cached[h] /\ HashAt(tok[r], i) = h
      BY <3>1 DEF Good, IndexBacked
    <3>3. PICK i \in DOMAIN tab[r] : IsFull(tok[r], i) /\ tab[r][i] = p.cached[h] /\ HashAt(tok[r], i) = h
      BY <3>2
    <3>4. IsFull(new[r], i) /\ HashAt(new[r], i) = h
      BY <1>7, <1>8, <3>3
    <3> QED
      BY <3>1, <3>3, <3>4
  <2> QED
    BY <2>1, <2>2
<1>12. FullIndexed(pn, new, tab)
  <2> SUFFICES ASSUME NEW r \in Seqs, NEW i \in DOMAIN tab[r], IsFull(new[r], i)
               PROVE  pn.cached[HashAt(new[r], i)] = tab[r][i]
    BY DEF FullIndexed
  <2>1. CASE r = s /\ i = n /\ HashAt(new[r], i) = t /\ tab[r][i] = b
    BY <1>4, <2>1
  <2>2. CASE IsFull(tok[r], i) /\ HashAt(new[r], i) = HashAt(tok[r], i)
    <3>1. p.cached[HashAt(tok[r], i)] = tab[r][i]
      BY <2>2 DEF Good, FullIndexed
    <3>2. HashAt(tok[r], i) \in Hashes /\ tab[r][i] # None
      BY <2>2, GoodFacts, HashFacts, AllocatorAssumption
    <3> QED
      BY <1>4, <2>2, <3>1, <3>2
  <2> QED
    BY <1>8, <2>1, <2>2
<1>13. SamePlace(new, tab)
  <2> SUFFICES ASSUME NEW r \in Seqs, NEW q \in Seqs, NEW i \in DOMAIN tab[r], NEW j \in DOMAIN tab[q],
                      tab[r][i] = tab[q][j]
               PROVE  /\ i = j
                      /\ IsFull(new[r], i) <=> IsFull(new[q], j)
                      /\ IsFull(new[r], i) => HashAt(new[r], i) = HashAt(new[q], j)
    BY DEF SamePlace
  <2>1. CASE tab[r][i] = b
    <3>1. r = s /\ q = s /\ i = n /\ j = n
      BY <1>6, <2>1
    <3> QED
      BY <3>1
  <2>2. CASE tab[r][i] # b
    <3>1. /\ i = j
          /\ IsFull(tok[r], i) <=> IsFull(tok[q], j)
          /\ IsFull(tok[r], i) => HashAt(tok[r], i) = HashAt(tok[q], j)
      BY DEF Good, SamePlace
    <3>2. /\ IsFull(new[r], i) <=> IsFull(tok[r], i)
          /\ IsFull(new[r], i) => HashAt(new[r], i) = HashAt(tok[r], i)
      BY <1>8, <2>2
    <3>3. /\ IsFull(new[q], j) <=> IsFull(tok[q], j)
          /\ IsFull(new[q], j) => HashAt(new[q], j) = HashAt(tok[q], j)
      BY <1>8, <2>2
    <3> QED
      BY <3>1, <3>2, <3>3
  <2> QED
    BY <2>1, <2>2
<1>14. Shaped(pn, new, tab)
  BY <1>2, <1>3 DEF Good, Shaped
<1> QED
  BY <1>9, <1>10, <1>11, <1>12, <1>13, <1>14 DEF Good, new, pn


\* Token sequences that agree up to the end of a block give it the same hash.
LEMMA SameHash ==
  ASSUME NEW t \in SeqsUpTo(MaxLen), NEW u \in SeqsUpTo(MaxLen), NEW n \in Nat,
         n <= Len(t), n <= Len(u), \A j \in 1 .. n : t[j] = u[j],
         NEW i \in Nat \ {0}, i * BlockSize <= n
  PROVE  IsFull(t, i) /\ IsFull(u, i) /\ HashAt(t, i) = HashAt(u, i)
<1>1. t \in Seq(Tokens) /\ u \in Seq(Tokens) /\ Len(t) \in Nat /\ Len(u) \in Nat /\ i * BlockSize \in Nat
  BY SeqsUpToFacts, AllocatorAssumption, LenProperties, Products
<1>2. IsFull(t, i) /\ IsFull(u, i)
  BY <1>1 DEF IsFull
<1>3. /\ HashAt(t, i) \in Seq(Tokens) /\ Len(HashAt(t, i)) = i * BlockSize
      /\ \A j \in 1 .. i * BlockSize : HashAt(t, i)[j] = t[j]
  BY <1>2, HashFacts
<1>4. /\ HashAt(u, i) \in Seq(Tokens) /\ Len(HashAt(u, i)) = i * BlockSize
      /\ \A j \in 1 .. i * BlockSize : HashAt(u, i)[j] = u[j]
  BY <1>2, HashFacts
<1>5. \A j \in 1 .. i * BlockSize : HashAt(t, i)[j] = HashAt(u, i)[j]
  BY <1>1, <1>3, <1>4
<1>6. HashAt(t, i) = HashAt(u, i)
  BY <1>3, <1>4, <1>5, SeqEqual
<1> QED
  BY <1>2, <1>6

\* The whole of a token sequence that fills its last block is that block's hash.
LEMMA WholeHash ==
  ASSUME NEW t \in SeqsUpTo(MaxLen), NEW n \in Nat \ {0}, Len(t) = n * BlockSize
  PROVE  t \in Hashes /\ IsFull(t, n) /\ HashAt(t, n) = t
<1>1. t \in Seq(Tokens) /\ Len(t) \in Nat /\ n * BlockSize > 0
  BY SeqsUpToFacts, AllocatorAssumption, LenProperties, Products
<1>2. IsFull(t, n)
  BY <1>1 DEF IsFull
<1>3. /\ HashAt(t, n) \in Hashes /\ HashAt(t, n) \in Seq(Tokens) /\ Len(HashAt(t, n)) = Len(t)
      /\ \A j \in 1 .. Len(t) : HashAt(t, n)[j] = t[j]
  BY <1>2, HashFacts
<1>4. HashAt(t, n) = t
  BY <1>1, <1>3, SeqEqual
<1> QED
  BY <1>2, <1>3, <1>4

\* A token joins the last block of the table of s.
LEMMA AppendMove ==
  ASSUME NEW p, NEW tok, NEW tab, Good(p, tok, tab), NEW s \in Seqs, NEW t \in SeqsUpTo(MaxLen),
         Len(t) = Len(tok[s]) + 1, \A j \in 1 .. Len(tok[s]) : t[j] = tok[s][j],
         Len(tab[s]) = NumBlocks(Len(t)), p.ref[tab[s][Len(tab[s])]] = 1,
         NEW cur, cur = tab[s][Len(tab[s])]
  PROVE  /\ IsFull(t, Len(tab[s])) =>
              Good(PromoteToImmutable(p, cur, t), [tok EXCEPT ![s] = t],
                   [tab EXCEPT ![s] = Append(Prefix(tab[s], Len(tab[s]) - 1), PromotedId(p, cur, t))])
         /\ ~ IsFull(t, Len(tab[s])) =>
              Good(p, [tok EXCEPT ![s] = t],
                   [tab EXCEPT ![s] = Append(Prefix(tab[s], Len(tab[s]) - 1), cur)])
<1> DEFINE n == Len(tab[s])
           m == Len(tok[s])
           pre == Prefix(tab[s], n - 1)
<1>1. /\ tab \in [Seqs -> Seq(Blocks)] /\ tok \in [Seqs -> SeqsUpTo(MaxLen)] /\ tab[s] \in Seq(Blocks)
      /\ n \in Nat /\ m \in Nat /\ DOMAIN tab[s] = 1 .. n
  BY GoodFacts
<1>2. /\ Len(t) <= n * BlockSize /\ n * BlockSize < Len(t) + BlockSize /\ n > 0
  <2>1. Len(t) \in Nat /\ Len(t) > 0
    BY <1>1
  <2>2. Len(t) <= n * BlockSize /\ n * BlockSize < Len(t) + BlockSize
    BY <2>1, NumBlocksFacts
  <2>3. NumBlocks(Len(t)) > 0
    BY <2>1, NumBlocksFacts
  <2> QED
    BY <2>2, <2>3
<1>3. n \in Nat \ {0} /\ n * BlockSize \in Nat /\ (n - 1) * BlockSize = n * BlockSize - BlockSize
  <2>1. n \in Nat /\ n # 0
    BY <1>1, <1>2
  <2> HIDE DEF n
  <2> QED
    BY <2>1, Products
<1>4. ~ IsFull(tok[s], n)
  BY <1>1, <1>2, <1>3 DEF IsFull
<1>5. ASSUME NEW i \in 1 .. n - 1
      PROVE  IsFull(tok[s], i) /\ IsFull(t, i) /\ HashAt(tok[s], i) = HashAt(t, i)
  <2>1. i \in Nat \ {0} /\ n - 1 \in Nat /\ i <= n - 1
    BY <1>3
  <2>2. i * BlockSize <= (n - 1) * BlockSize
    <3>1. CASE i = n - 1
      BY <3>1, <2>1, Products
    <3>2. CASE i # n - 1
      <4>1. i * BlockSize \in Nat /\ i < n - 1
        BY <3>2, <2>1, Products
      <4>2. i * BlockSize + BlockSize <= (n - 1) * BlockSize
        BY <2>1, <4>1, Products
      <4> QED
        BY <4>1, <4>2, <1>3, AllocatorAssumption
    <3> QED
      BY <3>1, <3>2
  <2>3. i * BlockSize <= m
    <3>1. \A a, d, x, y \in Nat : x <= a - d /\ a < y + 1 + d => x <= y
      OBVIOUS
    <3>2. i * BlockSize \in Nat /\ i * BlockSize <= n * BlockSize - BlockSize /\ n * BlockSize < m + 1 + BlockSize
      BY <1>2, <1>3, <2>1, <2>2, Products
    <3>3. BlockSize \in Nat
      BY AllocatorAssumption
    <3> QED
      BY <3>1, <3>2, <3>3, <1>1, <1>3
  <2>4. tok[s] \in SeqsUpTo(MaxLen) /\ m <= Len(t)
    BY <1>1
  <2>5. m \in Nat /\ m <= Len(tok[s]) /\ \A j \in 1 .. m : tok[s][j] = t[j]
    BY <1>1
  <2> HIDE DEF m
  <2> QED
    BY <2>1, <2>3, <2>4, <2>5, SameHash
<1>6. Append(pre, cur) = tab[s]
  <2>1. n - 1 \in 0 .. n /\ n - 1 \in Nat /\ n - 1 + 1 = n
    BY <1>3
  <2>2. pre \in Seq(Blocks) /\ Len(pre) = n - 1 /\ \A i \in 1 .. n - 1 : pre[i] = tab[s][i]
    BY <1>1, <2>1, PrefixFacts
  <2>3. cur \in Blocks
    BY <1>1, <1>3, ElementOfSeq
  <2>4. /\ Append(pre, cur) \in Seq(Blocks) /\ Len(Append(pre, cur)) = n
        /\ \A i \in 1 .. n - 1 : Append(pre, cur)[i] = pre[i]
        /\ Append(pre, cur)[n] = cur
    BY <2>1, <2>2, <2>3, AppendProperties
  <2>5. \A i \in 1 .. n : Append(pre, cur)[i] = tab[s][i]
    BY <1>3, <2>2, <2>4
  <2> QED
    BY <1>1, <2>4, <2>5, SeqEqual
<1>7. [tab EXCEPT ![s] = tab[s]] = tab
  BY <1>1
<1>8. CASE ~ IsFull(t, n)
  <2>1. ASSUME NEW i \in DOMAIN tab[s]
        PROVE  /\ IsFull(t, i) <=> IsFull(tok[s], i)
               /\ IsFull(t, i) => HashAt(t, i) = HashAt(tok[s], i)
    <3>1. i \in 1 .. n - 1 \/ i = n
      BY <1>1
    <3> QED
      BY <3>1, <1>4, <1>5, <1>8
  <2>2. Good(p, [tok EXCEPT ![s] = t], tab)
    BY <2>1, Retoken
  <2> QED
    BY <2>2, <1>6, <1>7, <1>8
<1>9. CASE IsFull(t, n)
  <2>1. Len(t) = n * BlockSize
    BY <1>1, <1>2, <1>3, <1>9 DEF IsFull
  <2>2. t \in Hashes /\ HashAt(t, n) = t
    BY <1>3, <2>1, WholeHash
  <2>3. CASE p.cached[t] = None
    <3>1. Good(PromoteToImmutable(p, tab[s][n], t), [tok EXCEPT ![s] = t], tab)
      BY <1>2, <1>4, <1>5, <2>1, <2>2, <2>3, Register
    <3>2. PromotedId(p, cur, t) = cur
      BY <2>3 DEF PromotedId
    <3> QED
      BY <1>6, <1>7, <1>9, <3>1, <3>2
  <2>4. CASE p.cached[t] # None
    <3> DEFINE pd == DecrRefcountHashless(p, cur)
               tabd == [tab EXCEPT ![s] = pre]
               tokt == [tok EXCEPT ![s] = t]
    <3>1. Good(pd, tok, tabd)
      BY <1>2, <1>4, DropTail
    <3>2. cur \in Blocks /\ p \in Pools
      BY <1>1, <1>3, ElementOfSeq DEF Good, Shaped
    <3>3. pd.cached = p.cached
      <4>1. p.ref[cur] # 0
        OBVIOUS
      <4> QED
        BY <3>2, <4>1, DecrFacts
    <3>4. tabd[s] = pre /\ tokt[s] = t
      BY <1>1
    <3>5. n - 1 \in 0 .. n /\ n - 1 + 1 = n
      BY <1>3
    <3>6. Len(pre) = n - 1 /\ DOMAIN pre = 1 .. n - 1
      BY <1>1, <3>5, PrefixFacts
    <3>7. Good(pd, tokt, tabd)
      <4>1. \A i \in DOMAIN tabd[s] : /\ IsFull(t, i) <=> IsFull(tok[s], i)
                                      /\ IsFull(t, i) => HashAt(t, i) = HashAt(tok[s], i)
        BY <1>5, <3>4, <3>6
      <4> HIDE DEF pd, tabd
      <4> QED
        BY <3>1, <4>1, Retoken
    <3>8. Good(IncrRefcountCached(pd, t), tokt, [tabd EXCEPT ![s] = Append(tabd[s], pd.cached[t])])
      <4>1. IsFull(tokt[s], Len(tabd[s]) + 1) /\ t = HashAt(tokt[s], Len(tabd[s]) + 1) /\ pd.cached[t] # None
        BY <1>9, <2>2, <2>4, <3>3, <3>4, <3>5, <3>6
      <4> HIDE DEF pd, tabd, tokt
      <4> QED
        BY <2>2, <3>7, <4>1, PushHit
    <3>9. [tabd EXCEPT ![s] = Append(tabd[s], pd.cached[t])] = [tab EXCEPT ![s] = Append(pre, p.cached[t])]
      BY <3>3, <3>4
    <3>10. PromoteToImmutable(p, cur, t) = IncrRefcountCached(pd, t) /\ PromotedId(p, cur, t) = p.cached[t]
      BY <2>4 DEF PromoteToImmutable, PromotedId
    <3> QED
      BY <1>9, <3>8, <3>9, <3>10
  <2> QED
    BY <2>3, <2>4
<1> QED
  BY <1>8, <1>9


\* A full block the index does not have: a block is allocated, filled and registered.
LEMMA PushMiss ==
  ASSUME NEW p, NEW tok, NEW tab, Good(p, tok, tab), NEW s \in Seqs, NEW b \in Blocks,
         Allocatable(p, b), IsFull(tok[s], Len(tab[s]) + 1),
         NEW h, h = HashAt(tok[s], Len(tab[s]) + 1), p.cached[h] = None
  PROVE  Good(PromoteToImmutable(AllocateBlockId(p, b), b, h), tok,
              [tab EXCEPT ![s] = Append(tab[s], b)])
<1> DEFINE n == Len(tab[s])
           t0 == Prefix(tok[s], n * BlockSize)
           tok0 == [tok EXCEPT ![s] = t0]
           tokh == [tok EXCEPT ![s] = h]
           p1 == AllocateBlockId(p, b)
           tab1 == [tab EXCEPT ![s] = Append(tab[s], b)]
<1>1. /\ tab \in [Seqs -> Seq(Blocks)] /\ tok \in [Seqs -> SeqsUpTo(MaxLen)] /\ tab[s] \in Seq(Blocks)
      /\ n \in Nat /\ DOMAIN tab[s] = 1 .. n /\ tok[s] \in SeqsUpTo(MaxLen) /\ tok[s] \in Seq(Tokens)
      /\ Len(tok[s]) \in Nat /\ Len(tok[s]) <= MaxLen
  BY GoodFacts, AllocatorAssumption
<1>2. /\ n * BlockSize \in Nat /\ (n + 1) * BlockSize = n * BlockSize + BlockSize /\ BlockSize > 0
      /\ (n + 1) * BlockSize <= Len(tok[s]) /\ BlockSize \in Nat
  <2>1. n * BlockSize \in Nat /\ (n + 1) * BlockSize = n * BlockSize + BlockSize
    BY <1>1, Products
  <2> QED
    BY <2>1, AllocatorAssumption DEF IsFull
<1>3. n * BlockSize \in 0 .. Len(tok[s]) /\ (n + 1) * BlockSize \in Nat
  BY <1>1, <1>2
<1>4. /\ t0 \in Seq(Tokens) /\ Len(t0) = n * BlockSize
      /\ \A j \in 1 .. n * BlockSize : t0[j] = tok[s][j]
  BY <1>1, <1>3, PrefixFacts
<1>5. t0 \in SeqsUpTo(MaxLen)
  BY <1>1, <1>3, <1>4, SeqsUpToFacts, AllocatorAssumption
<1>6. /\ h \in Hashes /\ Len(h) = (n + 1) * BlockSize
      /\ \A j \in 1 .. (n + 1) * BlockSize : h[j] = tok[s][j]
  <2>1. n + 1 \in Nat \ {0}
    BY <1>1
  <2> QED
    BY <1>1, <2>1, HashFacts
<1>7. h \in SeqsUpTo(MaxLen)
  BY <1>6 DEF Hashes
<1>8. ASSUME NEW i \in 1 .. n
      PROVE  i \in Nat \ {0} /\ i * BlockSize <= n * BlockSize /\ i * BlockSize <= (n + 1) * BlockSize
  <2>1. i \in Nat \ {0} /\ i * BlockSize \in Nat
    BY <1>1, Products
  <2>2. i * BlockSize <= n * BlockSize
    <3>1. CASE i = n
      BY <3>1, <2>1
    <3>2. CASE i # n
      <4>0. n \in Nat
        BY <1>1
      <4>1. i < n
        BY <3>2, <4>0
      <4>2. i * BlockSize + BlockSize <= n * BlockSize
        BY <1>1, <2>1, <4>1, Products
      <4> QED
        BY <2>1, <4>2, <1>2
    <3> QED
      BY <3>1, <3>2
  <2> QED
    BY <2>1, <2>2, <1>2
<1>9. ASSUME NEW i \in 1 .. n
      PROVE  /\ IsFull(t0, i) /\ IsFull(tok[s], i) /\ IsFull(h, i)
             /\ HashAt(t0, i) = HashAt(tok[s], i) /\ HashAt(h, i) = HashAt(tok[s], i)
  <2>1. n * BlockSize <= Len(tok[s]) /\ n * BlockSize <= Len(t0)
    BY <1>3, <1>4
  <2>2. IsFull(t0, i) /\ IsFull(tok[s], i) /\ HashAt(t0, i) = HashAt(tok[s], i)
    BY ZenonT(60), <1>1, <1>2, <1>4, <1>5, <1>8, <2>1, SameHash
  <2>3. (n + 1) * BlockSize <= Len(tok[s]) /\ (n + 1) * BlockSize <= Len(h)
    BY <1>2, <1>3, <1>6
  <2>4. IsFull(h, i) /\ HashAt(h, i) = HashAt(tok[s], i)
    <3> DEFINE m == (n + 1) * BlockSize
    <3>1. /\ m \in Nat /\ m <= Len(h) /\ m <= Len(tok[s]) /\ i * BlockSize <= m /\ i \in Nat \ {0}
          /\ \A j \in 1 .. m : h[j] = tok[s][j]
      BY <1>3, <1>6, <1>8, <2>3
    <3> HIDE DEF m
    <3> QED
      BY <1>1, <1>7, <3>1, SameHash
  <2> QED
    BY <2>2, <2>4
<1>10. n + 1 \in Nat \ {0} /\ IsFull(h, n + 1) /\ HashAt(h, n + 1) = HashAt(tok[s], n + 1)
  <2>1. n + 1 \in Nat \ {0}
    BY <1>1
  <2> QED
    BY <1>6, <1>7, <2>1, WholeHash
<1>11. ~ IsFull(t0, n + 1)
  BY <1>2, <1>4 DEF IsFull
<1>12. Good(p, tok0, tab)
  <2>1. \A i \in DOMAIN tab[s] : /\ IsFull(t0, i) <=> IsFull(tok[s], i)
                                 /\ IsFull(t0, i) => HashAt(t0, i) = HashAt(tok[s], i)
    BY <1>1, <1>9
  <2> HIDE DEF t0
  <2> QED
    BY <1>5, <2>1, Retoken
<1>13. tok0[s] = t0 /\ tokh[s] = h /\ tab1[s] = Append(tab[s], b)
  BY <1>1
<1>14. Good(p1, tok0, tab1) /\ p1.ref[b] = 1
  <2>1. ~ IsFull(tok0[s], Len(tab[s]) + 1)
    BY <1>11, <1>13
  <2> HIDE DEF tok0
  <2> QED
    BY <1>12, <2>1, PushTail
<1>15. p1.cached[h] = None
  <2>1. p.ref[b] = 0
    BY DEF Good, Counted, Allocatable, Evictable
  <2>2. p1.cached = [g \in Hashes |-> IF p.evictable[b] # None /\ g = p.evictable[b] THEN None ELSE p.cached[g]]
    BY <2>1, AllocateFacts DEF Good, Shaped
  <2> QED
    BY <1>6, <2>2
<1>16. /\ Len(tab1[s]) = n + 1 /\ DOMAIN tab1[s] = 1 .. n + 1 /\ tab1[s][n + 1] = b /\ Len(tab1[s]) > 0
  <2>1. Len(tab1[s]) = n + 1 /\ tab1[s][n + 1] = b /\ tab1[s] \in Seq(Blocks)
    BY <1>1, <1>13, AppendProperties
  <2> QED
    BY <2>1, <1>1, LenProperties
<1>17. Good(PromoteToImmutable(p1, b, h), [tok0 EXCEPT ![s] = h], tab1)
  <2>1. \A i \in 1 .. Len(tab1[s]) - 1 : IsFull(tok0[s], i) /\ HashAt(tok0[s], i) = HashAt(h, i)
    BY <1>1, <1>9, <1>13, <1>16
  <2>2. /\ ~ IsFull(tok0[s], Len(tab1[s])) /\ p1.ref[tab1[s][Len(tab1[s])]] = 1
        /\ Len(h) = Len(tab1[s]) * BlockSize
    BY <1>6, <1>11, <1>13, <1>14, <1>16
  <2> HIDE DEF tok0, tab1, p1
  <2>3. Good(PromoteToImmutable(p1, tab1[s][Len(tab1[s])], h), [tok0 EXCEPT ![s] = h], tab1)
    BY <1>6, <1>7, <1>14, <1>15, <1>16, <2>1, <2>2, Register
  <2> QED
    BY <2>3, <1>16
<1>18. [tok0 EXCEPT ![s] = h] = tokh
  OBVIOUS
<1>19. Good(PromoteToImmutable(p1, b, h), [tokh EXCEPT ![s] = tok[s]], tab1)
  <2>1. ASSUME NEW i \in DOMAIN tab1[s]
        PROVE  /\ IsFull(tok[s], i) <=> IsFull(tokh[s], i)
               /\ IsFull(tok[s], i) => HashAt(tok[s], i) = HashAt(tokh[s], i)
    <3>1. i \in 1 .. n \/ i = n + 1
      BY <1>1, <1>16
    <3> QED
      BY <3>1, <1>9, <1>10, <1>13
  <2> HIDE DEF tokh, tab1, p1
  <2> QED
    BY <1>1, <1>17, <1>18, <2>1, Retoken
<1>20. [tokh EXCEPT ![s] = tok[s]] = tok
  BY <1>1
<1> QED
  BY <1>19, <1>20


\* Fork: c, which had no table, gets the table and the tokens of s.
LEMMA ForkMove ==
  ASSUME NEW p, NEW tok, NEW tab, Good(p, tok, tab), NEW s \in Seqs, NEW c \in Seqs,
         tab[c] = << >>,
         NEW held, held = {tab[s][i] : i \in DOMAIN tab[s]}
  PROVE  Good([p EXCEPT !.ref = [b \in Blocks |-> IF b \in held THEN @[b] + 1 ELSE @[b]]],
              [tok EXCEPT ![c] = tok[s]], [tab EXCEPT ![c] = tab[s]])
<1> DEFINE ref == [b \in Blocks |-> IF b \in held THEN p.ref[b] + 1 ELSE p.ref[b]]
           pn == [p EXCEPT !.ref = ref]
           ntok == [tok EXCEPT ![c] = tok[s]]
           new == [tab EXCEPT ![c] = tab[s]]
           src == [r \in Seqs |-> IF r = c THEN s ELSE r]
<1>1. /\ tab \in [Seqs -> Seq(Blocks)] /\ tok \in [Seqs -> SeqsUpTo(MaxLen)] /\ p \in Pools
      /\ p.ref \in [Blocks -> Nat] /\ DOMAIN tab[c] = {}
  <2>1. tab \in [Seqs -> Seq(Blocks)] /\ tok \in [Seqs -> SeqsUpTo(MaxLen)] /\ p \in Pools /\ p.ref \in [Blocks -> Nat]
    BY GoodFacts DEF Good, Shaped
  <2>2. DOMAIN tab[c] = {}
    OBVIOUS
  <2> QED
    BY <2>1, <2>2
<1>2. ref \in [Blocks -> Nat]
  BY <1>1
<1>3. /\ pn \in Pools /\ pn.ref = ref /\ pn.free = p.free /\ pn.active = p.active
      /\ pn.cached = p.cached /\ pn.evictable = p.evictable
  <2> HIDE DEF ref
  <2> QED
    BY <1>1, <1>2 DEF Pools
<1>4. [p EXCEPT !.ref = [b \in Blocks |-> IF b \in held THEN @[b] + 1 ELSE @[b]]] = pn
  OBVIOUS
<1>5. Shaped(pn, ntok, new)
  BY <1>1, <1>3 DEF Shaped
<1>6. \A r \in Seqs : src[r] \in Seqs /\ new[r] = tab[src[r]] /\ ntok[r] = tok[src[r]]
  BY <1>1
<1>7. \A r \in Seqs : r # c => src[r] = r
  OBVIOUS
<1> HIDE DEF pn, ntok, new, src
<1>8. Counted(pn, new)
  <2> SUFFICES ASSUME NEW b \in Blocks
               PROVE  /\ pn.ref[b] = Cardinality(Holders(new, b))
                      /\ b \in pn.active <=> pn.ref[b] > 0
                      /\ b \in pn.free <=> pn.ref[b] = 0 /\ pn.evictable[b] = None
                      /\ pn.evictable[b] # None => pn.ref[b] = 0
    BY DEF Counted
  <2>1. /\ p.ref[b] = Cardinality(Holders(tab, b))
        /\ b \in p.active <=> p.ref[b] > 0
        /\ b \in p.free <=> p.ref[b] = 0 /\ p.evictable[b] = None
        /\ p.evictable[b] # None => p.ref[b] = 0
    BY DEF Good, Counted
  <2>2. b \in held <=> Has(tab[s], b)
    BY DEF Has
  <2>3. ~ Has(tab[c], b) /\ new[c] = tab[s]
    BY <1>1 DEF Has, new
  <2>4. \A r \in Seqs : r # c => new[r] = tab[r]
    BY <1>6, <1>7
  <2>5. /\ (Has(tab[c], b) <=> Has(new[c], b)) => Cardinality(Holders(new, b)) = Cardinality(Holders(tab, b))
        /\ ~ Has(tab[c], b) /\ Has(new[c], b) => Cardinality(Holders(new, b)) = Cardinality(Holders(tab, b)) + 1
    BY <2>4, CountExcept
  <2>6. p.ref[b] \in Nat /\ pn.ref[b] = IF b \in held THEN p.ref[b] + 1 ELSE p.ref[b]
    BY <1>1, <1>3
  <2>7. CASE b \in held
    <3>1. p.ref[b] > 0
      <4>1. PICK i \in DOMAIN tab[s] : tab[s][i] = b
        BY <2>7
      <4>2. p.ref[tab[s][i]] > 0
        BY HeldFacts
      <4> QED
        BY <4>1, <4>2
    <3>2. Cardinality(Holders(new, b)) = Cardinality(Holders(tab, b)) + 1
      BY <2>2, <2>3, <2>5, <2>7
    <3> QED
      BY <1>3, <2>1, <2>6, <2>7, <3>1, <3>2
  <2>8. CASE b \notin held
    <3>1. Cardinality(Holders(new, b)) = Cardinality(Holders(tab, b))
      BY <2>2, <2>3, <2>5, <2>8
    <3> QED
      BY <1>3, <2>1, <2>6, <2>8, <3>1
  <2> QED
    BY <2>7, <2>8
<1>9. EvictableIndexed(pn)
  BY <1>3 DEF Good, EvictableIndexed
<1>10. IndexBacked(pn, ntok, new)
  <2> SUFFICES ASSUME NEW h \in Hashes, p.cached[h] # None, p.evictable[p.cached[h]] # h
               PROVE  \E r \in Seqs : \E i \in DOMAIN new[r] :
                        IsFull(ntok[r], i) /\ new[r][i] = p.cached[h] /\ HashAt(ntok[r], i) = h
    BY <1>3 DEF IndexBacked
  <2>1. PICK r \in Seqs : \E i \in DOMAIN tab[r] :
               IsFull(tok[r], i) /\ tab[r][i] = p.cached[h] /\ HashAt(tok[r], i) = h
    BY DEF Good, IndexBacked
  <2>2. r # c
    BY <1>1, <2>1
  <2>3. new[r] = tab[r] /\ ntok[r] = tok[r]
    BY <1>6, <1>7, <2>2
  <2> QED
    BY <2>1, <2>3
<1>11. FullIndexed(pn, ntok, new)
  <2> SUFFICES ASSUME NEW r \in Seqs, NEW i \in DOMAIN new[r], IsFull(ntok[r], i)
               PROVE  pn.cached[HashAt(ntok[r], i)] = new[r][i]
    BY DEF FullIndexed
  <2>1. src[r] \in Seqs /\ new[r] = tab[src[r]] /\ ntok[r] = tok[src[r]]
    BY <1>6
  <2> QED
    BY <1>3, <2>1 DEF Good, FullIndexed
<1>12. SamePlace(ntok, new)
  <2> SUFFICES ASSUME NEW r \in Seqs, NEW q \in Seqs, NEW i \in DOMAIN new[r], NEW j \in DOMAIN new[q],
                      new[r][i] = new[q][j]
               PROVE  /\ i = j
                      /\ IsFull(ntok[r], i) <=> IsFull(ntok[q], j)
                      /\ IsFull(ntok[r], i) => HashAt(ntok[r], i) = HashAt(ntok[q], j)
    BY DEF SamePlace
  <2>1. src[r] \in Seqs /\ new[r] = tab[src[r]] /\ ntok[r] = tok[src[r]]
    BY <1>6
  <2>2. src[q] \in Seqs /\ new[q] = tab[src[q]] /\ ntok[q] = tok[src[q]]
    BY <1>6
  <2> QED
    BY <2>1, <2>2 DEF Good, SamePlace
<1>13. Good(pn, ntok, new)
  BY <1>5, <1>8, <1>9, <1>10, <1>11, <1>12 DEF Good
<1> QED
  BY <1>4, <1>13 DEF pn, ntok, new


\* BlockTable.free of s.
LEMMA FreeMove ==
  ASSUME Good(pool, tokens, table), NEW s \in Seqs
  PROVE  Good(FreeTable(pool, s), [tokens EXCEPT ![s] = << >>], [table EXCEPT ![s] = << >>])
<1> DEFINE p == pool
           held == {table[s][i] : i \in DOMAIN table[s]}
           last == {b \in held : p.ref[b] = 1}
           ref == [b \in Blocks |-> IF b \in held THEN p.ref[b] - 1 ELSE p.ref[b]]
           evi == [b \in Blocks |-> IF b \in last THEN ReleasedHash(s, b) ELSE p.evictable[b]]
           free == p.free \cup {b \in last : ReleasedHash(s, b) = None}
           pn == FreeTable(pool, s)
           ntok == [tokens EXCEPT ![s] = << >>]
           new == [table EXCEPT ![s] = << >>]
<1>1. /\ table \in [Seqs -> Seq(Blocks)] /\ tokens \in [Seqs -> SeqsUpTo(MaxLen)] /\ p \in Pools
      /\ p.ref \in [Blocks -> Nat] /\ p.evictable \in [Blocks -> Hashes \cup {None}]
      /\ p.free \subseteq Blocks /\ p.active \subseteq Blocks /\ p.computed \subseteq Blocks
  BY GoodFacts DEF Good, Shaped
<1>2. ASSUME NEW i \in DOMAIN table[s]
      PROVE  /\ table[s][i] \in Blocks /\ i \in Nat \ {0} /\ tokens[s] \in SeqsUpTo(MaxLen)
             /\ ReleasedHash(s, table[s][i]) = IF IsFull(tokens[s], i) THEN HashAt(tokens[s], i) ELSE None
             /\ ReleasedHash(s, table[s][i]) \in Hashes \cup {None}
  <2> DEFINE j == CHOOSE k \in DOMAIN table[s] : table[s][k] = table[s][i]
  <2>1. j \in DOMAIN table[s] /\ table[s][j] = table[s][i]
    OBVIOUS
  <2>2. j = i
    BY <2>1 DEF Good, SamePlace
  <2>3. ReleasedHash(s, table[s][i]) = IF IsFull(tokens[s], j) THEN HashAt(tokens[s], j) ELSE None
    BY DEF ReleasedHash
  <2>4. table[s][i] \in Blocks /\ i \in Nat \ {0} /\ tokens[s] \in SeqsUpTo(MaxLen)
    BY <1>1, GoodFacts
  <2>5. IsFull(tokens[s], i) => HashAt(tokens[s], i) \in Hashes
    BY <2>4, HashFacts
  <2> HIDE DEF j
  <2> QED
    BY <2>2, <2>3, <2>4, <2>5
<1>3. ASSUME NEW b \in held
      PROVE  \E i \in DOMAIN table[s] : table[s][i] = b
  OBVIOUS
<1>4. ASSUME NEW b \in held
      PROVE  /\ b \in Blocks /\ p.ref[b] > 0 /\ p.evictable[b] = None /\ b \notin p.free
             /\ ReleasedHash(s, b) \in Hashes \cup {None}
  <2>1. PICK i \in DOMAIN table[s] : table[s][i] = b
    BY <1>3
  <2>2. p.ref[table[s][i]] > 0 /\ p.evictable[table[s][i]] = None /\ table[s][i] \notin p.free
    BY HeldFacts
  <2> QED
    BY <1>2, <2>1, <2>2
<1>5. /\ ref \in [Blocks -> Nat] /\ evi \in [Blocks -> Hashes \cup {None}]
      /\ free \subseteq Blocks /\ p.active \ last \subseteq Blocks /\ p.computed \ last \subseteq Blocks
  <2>1. ASSUME NEW b \in Blocks
        PROVE  (IF b \in held THEN p.ref[b] - 1 ELSE p.ref[b]) \in Nat
    <3>1. p.ref[b] \in Nat
      BY <1>1
    <3> QED
      BY <3>1, <1>4
  <2>2. ASSUME NEW b \in Blocks
        PROVE  (IF b \in last THEN ReleasedHash(s, b) ELSE p.evictable[b]) \in Hashes \cup {None}
    BY <1>1, <1>4
  <2> QED
    BY <1>1, <1>4, <2>1, <2>2
<1>6. pn = [p EXCEPT !.ref = ref, !.evictable = evi, !.free = free,
                     !.active = p.active \ last, !.computed = p.computed \ last]
  BY DEF FreeTable
<1>7. /\ pn \in Pools /\ pn.ref = ref /\ pn.free = free /\ pn.active = p.active \ last
      /\ pn.cached = p.cached /\ pn.evictable = evi
  <2> HIDE DEF ref, evi, free, last, pn
  <2> QED
    BY <1>1, <1>5, <1>6 DEF Pools
<1>8. Shaped(pn, ntok, new)
  <2>1. << >> \in SeqsUpTo(MaxLen) /\ << >> \in Seq(Blocks)
    <3>1. << >> \in Seq(Tokens) /\ Len(<< >>) <= MaxLen /\ << >> \in Seq(Blocks)
      BY AllocatorAssumption
    <3> QED
      BY <3>1, SeqsUpToFacts, AllocatorAssumption
  <2> HIDE DEF pn
  <2> QED
    BY <1>1, <1>7, <2>1 DEF Shaped
<1>9. /\ DOMAIN new[s] = {} /\ new[s] = << >>
      /\ \A r \in Seqs : r # s => new[r] = table[r] /\ ntok[r] = tokens[r]
  BY <1>1
<1>10. \A r \in Seqs : DOMAIN new[r] # {} => r # s
  BY <1>9
<1> HIDE DEF pn, ntok, new
<1>11. Counted(pn, new)
  <2> SUFFICES ASSUME NEW b \in Blocks
               PROVE  /\ pn.ref[b] = Cardinality(Holders(new, b))
                      /\ b \in pn.active <=> pn.ref[b] > 0
                      /\ b \in pn.free <=> pn.ref[b] = 0 /\ pn.evictable[b] = None
                      /\ pn.evictable[b] # None => pn.ref[b] = 0
    BY DEF Counted
  <2>1. /\ p.ref[b] = Cardinality(Holders(table, b))
        /\ b \in p.active <=> p.ref[b] > 0
        /\ b \in p.free <=> p.ref[b] = 0 /\ p.evictable[b] = None
        /\ p.evictable[b] # None => p.ref[b] = 0
    BY DEF Good, Counted
  <2>2. b \in held <=> Has(table[s], b)
    BY DEF Has
  <2>3. ~ Has(new[s], b)
    BY <1>9 DEF Has
  <2>4. \A r \in Seqs : r # s => new[r] = table[r]
    BY <1>9
  <2>5. /\ (Has(table[s], b) <=> Has(new[s], b)) => Cardinality(Holders(new, b)) = Cardinality(Holders(table, b))
        /\ Has(table[s], b) /\ ~ Has(new[s], b) => Cardinality(Holders(new, b)) = Cardinality(Holders(table, b)) - 1
    <3> HIDE DEF held, last, ref, evi, free, p
    <3>1. (Has(table[s], b) <=> Has(new[s], b)) => Cardinality(Holders(new, b)) = Cardinality(Holders(table, b))
      <4>1. ~ Has(table[s], b) => Holders(new, b) = Holders(table, b)
        BY <2>3, <2>4 DEF Holders, Has
      <4> QED
        BY <2>3, <4>1
    <3>2. Has(table[s], b) /\ ~ Has(new[s], b) => Cardinality(Holders(new, b)) = Cardinality(Holders(table, b)) - 1
      BY ZenonT(60), <2>4, CountExcept
    <3> QED
      BY <3>1, <3>2
  <2>6. /\ p.ref[b] \in Nat /\ pn.ref[b] = IF b \in held THEN p.ref[b] - 1 ELSE p.ref[b]
        /\ pn.evictable[b] = IF b \in last THEN ReleasedHash(s, b) ELSE p.evictable[b]
    BY <1>1, <1>7
  <2>7. CASE b \in held
    <3>1. p.ref[b] > 0 /\ p.evictable[b] = None /\ b \notin p.free
      BY <1>4, <2>7
    <3>2. Cardinality(Holders(new, b)) = Cardinality(Holders(table, b)) - 1
      BY <2>2, <2>3, <2>5, <2>7
    <3>3. pn.ref[b] = p.ref[b] - 1 /\ pn.ref[b] = Cardinality(Holders(new, b))
      BY <2>1, <2>6, <2>7, <3>2
    <3>4. CASE p.ref[b] = 1
      <4>1. b \in last /\ b \notin pn.active /\ pn.ref[b] = 0 /\ pn.evictable[b] = ReleasedHash(s, b)
        BY <1>7, <2>6, <2>7, <3>3, <3>4
      <4>2. b \in pn.free <=> ReleasedHash(s, b) = None
        BY <1>7, <3>1, <4>1
      <4> QED
        BY <3>3, <4>1, <4>2
    <3>5. CASE p.ref[b] # 1
      <4>1. b \notin last /\ pn.ref[b] > 0 /\ b \in pn.active /\ b \notin pn.free /\ pn.evictable[b] = None
        BY <1>7, <2>1, <2>6, <3>1, <3>3, <3>5
      <4> QED
        BY <2>6, <3>3, <4>1
    <3> QED
      BY <3>4, <3>5
  <2>8. CASE b \notin held
    <3>1. Cardinality(Holders(new, b)) = Cardinality(Holders(table, b))
      BY <2>2, <2>3, <2>5, <2>8
    <3>2. pn.ref[b] = p.ref[b] /\ pn.evictable[b] = p.evictable[b] /\ (b \in pn.active <=> b \in p.active)
          /\ (b \in pn.free <=> b \in p.free)
      BY <1>7, <2>6, <2>8
    <3> QED
      BY <2>1, <3>1, <3>2
  <2> QED
    BY <2>7, <2>8
<1>12. EvictableIndexed(pn)
  <2> SUFFICES ASSUME NEW b \in Blocks, evi[b] # None
               PROVE  p.cached[evi[b]] = b
    BY <1>7 DEF EvictableIndexed
  <2>1. CASE b \in last
    <3>1. PICK i \in DOMAIN table[s] : table[s][i] = b
      BY <1>3, <2>1
    <3>2. evi[b] = ReleasedHash(s, table[s][i])
      BY <2>1, <3>1
    <3>3. IsFull(tokens[s], i) /\ evi[b] = HashAt(tokens[s], i)
      BY <1>2, <3>2
    <3> QED
      BY <3>1, <3>3 DEF Good, FullIndexed
  <2>2. CASE b \notin last
    BY <2>2 DEF Good, EvictableIndexed
  <2> QED
    BY <2>1, <2>2
<1>13. IndexBacked(pn, ntok, new)
  <2> SUFFICES ASSUME NEW h \in Hashes, p.cached[h] # None, evi[p.cached[h]] # h
               PROVE  \E r \in Seqs : \E i \in DOMAIN new[r] :
                        IsFull(ntok[r], i) /\ new[r][i] = p.cached[h] /\ HashAt(ntok[r], i) = h
    BY <1>7 DEF IndexBacked
  <2> DEFINE b == p.cached[h]
  <2>0. b \in Blocks /\ h # None
    BY GoodFacts, NoneAssumption
  <2>1. p.evictable[b] # h
    <3>1. CASE b \in last
      BY <1>4, <2>0, <3>1
    <3>2. CASE b \notin last
      BY <2>0, <3>2
    <3> QED
      BY <3>1, <3>2
  <2>2. PICK r \in Seqs : \E i \in DOMAIN table[r] :
               IsFull(tokens[r], i) /\ table[r][i] = b /\ HashAt(tokens[r], i) = h
    BY <2>1 DEF Good, IndexBacked
  <2>3. PICK i \in DOMAIN table[r] : IsFull(tokens[r], i) /\ table[r][i] = b /\ HashAt(tokens[r], i) = h
    BY <2>2
  <2>4. CASE r # s
    BY <2>3, <2>4, <1>9
  <2>5. CASE r = s
    <3>1. b \in held
      BY <2>3, <2>5
    <3>2. p.ref[b] # 1
      <4>1. SUFFICES ASSUME p.ref[b] = 1 PROVE FALSE
        OBVIOUS
      <4>2. b \in last
        BY <3>1, <4>1
      <4>3. evi[b] = ReleasedHash(s, table[s][i])
        BY <2>0, <2>3, <2>5, <4>2
      <4>4. evi[b] = h
        BY <1>2, <2>3, <2>5, <4>3
      <4> QED
        BY <4>4
    <3>3. PICK q \in Holders(table, b) : q # s
      <4>1. s \in Holders(table, b)
        BY <2>3, <2>5 DEF Holders
      <4>2. Cardinality(Holders(table, b)) # 1
        BY <2>0, <3>2 DEF Good, Counted
      <4>3. Holders(table, b) # {s}
        BY <4>2, FS_Singleton
      <4> QED
        BY <4>1, <4>3
    <3>4. q \in Seqs /\ \E j \in DOMAIN table[q] : table[q][j] = b
      BY DEF Holders
    <3>5. PICK j \in DOMAIN table[q] : table[q][j] = b
      BY <3>4
    <3>6. IsFull(tokens[q], j) /\ HashAt(tokens[q], j) = h
      BY <2>3, <2>5, <3>4, <3>5 DEF Good, SamePlace
    <3> QED
      BY <1>9, <3>3, <3>4, <3>5, <3>6
  <2> QED
    BY <2>4, <2>5
<1>14. FullIndexed(pn, ntok, new)
  <2> SUFFICES ASSUME NEW r \in Seqs, NEW i \in DOMAIN new[r], IsFull(ntok[r], i)
               PROVE  pn.cached[HashAt(ntok[r], i)] = new[r][i]
    BY DEF FullIndexed
  <2>1. new[r] = table[r] /\ ntok[r] = tokens[r]
    BY <1>9, <1>10
  <2> QED
    BY <1>7, <2>1 DEF Good, FullIndexed
<1>15. SamePlace(ntok, new)
  <2> SUFFICES ASSUME NEW r \in Seqs, NEW q \in Seqs, NEW i \in DOMAIN new[r], NEW j \in DOMAIN new[q],
                      new[r][i] = new[q][j]
               PROVE  /\ i = j
                      /\ IsFull(ntok[r], i) <=> IsFull(ntok[q], j)
                      /\ IsFull(ntok[r], i) => HashAt(ntok[r], i) = HashAt(ntok[q], j)
    BY DEF SamePlace
  <2>1. new[r] = table[r] /\ ntok[r] = tokens[r]
    BY <1>9, <1>10
  <2>2. new[q] = table[q] /\ ntok[q] = tokens[q]
    BY <1>9, <1>10
  <2> QED
    BY <2>1, <2>2 DEF Good, SamePlace
<1>16. Good(pn, ntok, new)
  BY <1>8, <1>11, <1>12, <1>13, <1>14, <1>15 DEF Good
<1> QED
  BY <1>16 DEF pn, ntok, new


-----------------------------------------------------------------------------
(* The inductive invariant *)

Memory == [Blocks -> [1 .. BlockSize -> SeqsUpTo(MaxLen)]]

\* The table of s has the blocks its tokens need, unless allocate() is still in its loop,
\* and the step computes no more than its tokens.
Sized(s) ==
  /\ Len(table[s]) <= NumBlocks(Len(tokens[s]))
  /\ s # allocating => Len(table[s]) = NumBlocks(Len(tokens[s]))
  /\ numComputed[s] + chunk[s] <= Len(tokens[s])

IInv ==
  /\ chunked \in BOOLEAN
  /\ Good(pool, tokens, table)
  /\ numComputed \in [Seqs -> Nat] /\ chunk \in [Seqs -> Nat]
  /\ allocating \in Seqs \cup {None}
  /\ cows \subseteq Blocks \X Blocks
  /\ kv \in Memory
  /\ \A s \in Seqs : Sized(s)


LEMMA IInvFacts ==
  ASSUME IInv
  PROVE  /\ Good(pool, tokens, table) /\ pool \in Pools
         /\ tokens \in [Seqs -> SeqsUpTo(MaxLen)] /\ table \in [Seqs -> Seq(Blocks)]
         /\ numComputed \in [Seqs -> Nat] /\ chunk \in [Seqs -> Nat]
         /\ \A s \in Seqs :
              /\ tokens[s] \in Seq(Tokens) /\ tokens[s] \in SeqsUpTo(MaxLen)
              /\ Len(tokens[s]) \in Nat /\ Len(tokens[s]) <= MaxLen
              /\ table[s] \in Seq(Blocks) /\ Len(table[s]) \in Nat /\ DOMAIN table[s] = 1 .. Len(table[s])
              /\ NumBlocks(Len(tokens[s])) \in Nat
<1>1. Good(pool, tokens, table) /\ numComputed \in [Seqs -> Nat] /\ chunk \in [Seqs -> Nat]
  BY DEF IInv
<1>2. pool \in Pools /\ tokens \in [Seqs -> SeqsUpTo(MaxLen)] /\ table \in [Seqs -> Seq(Blocks)]
  BY <1>1 DEF Good, Shaped
<1>3. ASSUME NEW s \in Seqs
      PROVE  /\ tokens[s] \in Seq(Tokens) /\ tokens[s] \in SeqsUpTo(MaxLen)
             /\ Len(tokens[s]) \in Nat /\ Len(tokens[s]) <= MaxLen
             /\ table[s] \in Seq(Blocks) /\ Len(table[s]) \in Nat /\ DOMAIN table[s] = 1 .. Len(table[s])
             /\ NumBlocks(Len(tokens[s])) \in Nat
  <2>1. /\ tokens[s] \in Seq(Tokens) /\ Len(tokens[s]) \in 0 .. MaxLen
        /\ table[s] \in Seq(Blocks) /\ Len(table[s]) \in Nat /\ DOMAIN table[s] = 1 .. Len(table[s])
    BY <1>1, GoodFacts
  <2>2. Len(tokens[s]) \in Nat /\ Len(tokens[s]) <= MaxLen
    BY <2>1, AllocatorAssumption
  <2>3. NumBlocks(Len(tokens[s])) \in Nat
    BY <2>2, NumBlocksFacts
  <2> QED
    BY <1>2, <2>1, <2>2, <2>3
<1> QED
  BY <1>1, <1>2, <1>3

\* A sequence that is not allocating and has no tokens has no table.
LEMMA NoTable ==
  ASSUME IInv, NEW s \in Seqs, tokens[s] = << >>
  PROVE  /\ table[s] = << >> /\ numComputed[s] = 0 /\ chunk[s] = 0
<1>1. Len(tokens[s]) = 0 /\ numComputed[s] \in Nat /\ chunk[s] \in Nat /\ Len(table[s]) \in Nat /\ table[s] \in Seq(Blocks)
  BY IInvFacts
<1>2. NumBlocks(0) = 0
  <2>1. 0 <= 0 * BlockSize /\ 0 * BlockSize < 0 + BlockSize
    BY AllocatorAssumption
  <2> QED
    BY <2>1, NumBlocksFacts
<1>3. Len(table[s]) <= NumBlocks(Len(tokens[s])) /\ numComputed[s] + chunk[s] <= Len(tokens[s])
  BY DEF IInv, Sized
<1>4. Len(table[s]) = 0
  BY <1>1, <1>2, <1>3
<1> QED
  BY <1>1, <1>3, <1>4, EmptySeq


LEMMA InitIInv == Init => IInv
<1> SUFFICES ASSUME Init PROVE IInv
  OBVIOUS
<1> DEFINE p == [free      |-> Blocks,
                 ref       |-> [b \in Blocks |-> 0],
                 cached    |-> [h \in Hashes |-> None],
                 evictable |-> [b \in Blocks |-> None],
                 active    |-> {},
                 computed  |-> {},
                 touched   |-> {}]
<1>1. << >> \in SeqsUpTo(MaxLen) /\ << >> \in Seq(Blocks)
  <2>1. << >> \in Seq(Tokens) /\ Len(<< >>) <= MaxLen /\ << >> \in Seq(Blocks)
    BY AllocatorAssumption
  <2> QED
    BY <2>1, SeqsUpToFacts, AllocatorAssumption
<1>2. /\ pool = p /\ tokens = [s \in Seqs |-> << >>] /\ table = [s \in Seqs |-> << >>]
      /\ \A s \in Seqs : table[s] = << >> /\ tokens[s] = << >> /\ DOMAIN table[s] = {}
  BY DEF Init
<1>3. pool \in Pools
  BY <1>2 DEF Pools
<1>4. Shaped(pool, tokens, table)
  BY <1>1, <1>2, <1>3 DEF Shaped
<1>5. \A b \in Blocks : /\ pool.ref[b] = 0 /\ b \notin pool.active /\ b \in pool.free
                        /\ pool.evictable[b] = None
  BY <1>2
<1>6. \A b \in Blocks : Cardinality(Holders(table, b)) = 0
  <2> SUFFICES ASSUME NEW b \in Blocks PROVE Holders(table, b) = {}
    BY FS_EmptySet
  <2> QED
    BY <1>2 DEF Holders
<1>7. Counted(pool, table)
  BY <1>5, <1>6 DEF Counted
<1>8. EvictableIndexed(pool)
  BY <1>5 DEF EvictableIndexed
<1>9. IndexBacked(pool, tokens, table) /\ FullIndexed(pool, tokens, table) /\ SamePlace(tokens, table)
  <2>1. \A h \in Hashes : pool.cached[h] = None
    BY <1>2
  <2> QED
    BY <1>2, <2>1 DEF IndexBacked, FullIndexed, SamePlace
<1>10. Good(pool, tokens, table)
  BY <1>4, <1>7, <1>8, <1>9 DEF Good
<1>11. kv \in Memory
  BY <1>1 DEF Init, Memory
<1>12. NumBlocks(0) = 0
  <2>1. 0 <= 0 * BlockSize /\ 0 * BlockSize < 0 + BlockSize
    BY AllocatorAssumption
  <2> QED
    BY <2>1, NumBlocksFacts
<1>13. \A s \in Seqs : Sized(s)
  BY <1>2, <1>12 DEF Init, Sized
<1> QED
  BY <1>10, <1>11, <1>13 DEF IInv, Init

LEMMA BeginAllocateStep ==
  ASSUME IInv, NEW s \in Seqs, NEW prompt \in Prompts, BeginAllocate(s, prompt)
  PROVE  IInv'
<1>1. /\ allocating = None /\ allocating' = s /\ tokens' = [tokens EXCEPT ![s] = prompt]
      /\ UNCHANGED <<chunked, pool, table, numComputed, chunk, cows, kv>>
      /\ tokens[s] = << >>
  BY DEF BeginAllocate
<1>2. table[s] = << >> /\ numComputed[s] = 0 /\ chunk[s] = 0 /\ DOMAIN table[s] = {} /\ Len(table[s]) = 0
  BY <1>1, NoTable
<1>3. prompt \in SeqsUpTo(MaxLen) /\ Len(prompt) \in Nat
  <2>1. prompt \in Seq(Tokens) /\ Len(prompt) \in 1 .. MaxLen /\ MaxLen \in Nat
    BY AllocatorAssumption
  <2> QED
    BY <2>1, SeqsUpToFacts
<1>4. Good(pool', tokens', table')
  <2>1. Good(pool, tokens, table)
    BY DEF IInv
  <2>2. Good(pool, [tokens EXCEPT ![s] = prompt], table)
    BY <1>2, <1>3, <2>1, Retoken
  <2> QED
    BY <1>1, <2>2
<1>5. ASSUME NEW r \in Seqs
      PROVE  Sized(r)'
  <2>1. Sized(r) /\ tokens \in [Seqs -> SeqsUpTo(MaxLen)]
    BY IInvFacts DEF IInv
  <2>2. CASE r = s
    <3>1. tokens'[r] = prompt /\ NumBlocks(Len(prompt)) \in Nat
      BY <1>1, <1>3, <2>1, <2>2, NumBlocksFacts
    <3> QED
      BY <1>1, <1>2, <1>3, <2>2, <3>1 DEF Sized
  <2>3. CASE r # s
    <3>1. tokens'[r] = tokens[r] /\ r # allocating
      BY <1>1, <2>1, <2>3, AllocatorAssumption
    <3> QED
      BY <1>1, <2>1, <3>1 DEF Sized
  <2> QED
    BY <2>2, <2>3
<1> QED
  BY <1>1, <1>4, <1>5 DEF IInv

\* allocate() has put one more block into the table of s.
LEMMA BlockAllocated ==
  ASSUME IInv, NEW s \in Seqs, NEW b \in Blocks, allocating = s, MoreBlocks(s),
         table' = [table EXCEPT ![s] = Append(@, b)], Good(pool', tokens, table'),
         UNCHANGED <<chunked, tokens, numComputed, chunk, allocating, cows, kv>>
  PROVE  IInv'
<1>1. ASSUME NEW r \in Seqs
      PROVE  Sized(r)'
  <2>1. Sized(r) /\ table \in [Seqs -> Seq(Blocks)]
    BY IInvFacts DEF IInv
  <2>2. CASE r = s
    <3>1. table'[r] = Append(table[s], b)
      BY <2>1, <2>2
    <3>2. Len(table'[r]) = Len(table[s]) + 1
      BY <2>1, <3>1, AppendProperties
    <3> QED
      BY <2>1, <2>2, <3>2 DEF Sized, MoreBlocks, NextBlock
  <2>3. CASE r # s
    <3>1. table'[r] = table[r]
      BY <2>1, <2>3
    <3> QED
      BY <2>1, <3>1 DEF Sized
  <2> QED
    BY <2>2, <2>3
<1> QED
  BY <1>1 DEF IInv

LEMMA AllocateHitStep ==
  ASSUME IInv, NEW s \in Seqs, AllocateHit(s)
  PROVE  IInv'
<1> DEFINE h == HashAt(tokens[s], NextBlock(s))
<1>1. /\ allocating = s /\ MoreBlocks(s) /\ IsFull(tokens[s], NextBlock(s)) /\ pool.cached[h] # None
      /\ pool' = IncrRefcountCached(pool, h) /\ table' = [table EXCEPT ![s] = Append(@, pool.cached[h])]
      /\ UNCHANGED <<chunked, tokens, numComputed, chunk, allocating, cows, kv>>
  BY DEF AllocateHit
<1>2. NextBlock(s) \in Nat \ {0} /\ tokens[s] \in SeqsUpTo(MaxLen) /\ Good(pool, tokens, table)
  BY IInvFacts DEF NextBlock
<1>3. h \in Hashes
  BY <1>1, <1>2, HashFacts
<1>4. pool.cached[h] \in Blocks
  BY <1>1, <1>2, <1>3, GoodFacts
<1>5. Good(IncrRefcountCached(pool, h), tokens, [table EXCEPT ![s] = Append(table[s], pool.cached[h])])
  <2>1. IsFull(tokens[s], Len(table[s]) + 1) /\ h = HashAt(tokens[s], Len(table[s]) + 1)
    BY <1>1 DEF NextBlock
  <2> HIDE DEF h
  <2> QED
    BY <1>1, <1>2, <1>3, <2>1, PushHit
<1>6. Good(pool', tokens, table')
  BY <1>1, <1>5
<1> QED
  BY <1>1, <1>4, <1>6, BlockAllocated

LEMMA AllocateMissStep ==
  ASSUME IInv, NEW s \in Seqs, NEW b \in Blocks, AllocateMiss(s, b)
  PROVE  IInv'
<1> DEFINE h == HashAt(tokens[s], NextBlock(s))
           p == AllocateBlockId(pool, b)
<1>1. /\ allocating = s /\ MoreBlocks(s) /\ IsFull(tokens[s], NextBlock(s)) /\ pool.cached[h] = None
      /\ Allocatable(pool, b)
      /\ pool' = PromoteToImmutable(p, b, h) /\ table' = [table EXCEPT ![s] = Append(@, PromotedId(p, b, h))]
      /\ UNCHANGED <<chunked, tokens, numComputed, chunk, allocating, cows, kv>>
  BY DEF AllocateMiss
<1>2. Good(pool, tokens, table)
  BY DEF IInv
<1>3. /\ Good(PromoteToImmutable(p, b, h), tokens, [table EXCEPT ![s] = Append(table[s], b)])
      /\ PromotedId(p, b, h) = b
  <2>1. IsFull(tokens[s], Len(table[s]) + 1) /\ h = HashAt(tokens[s], Len(table[s]) + 1)
    BY <1>1 DEF NextBlock
  <2>2. pool.cached[h] = None /\ Allocatable(pool, b)
    BY <1>1
  <2> HIDE DEF h
  <2>3. Good(PromoteToImmutable(AllocateBlockId(pool, b), b, h), tokens, [table EXCEPT ![s] = Append(table[s], b)])
    BY <1>2, <2>1, <2>2, PushMiss
  <2>4. PromotedId(AllocateBlockId(pool, b), b, h) = b
    <3>1. pool.ref[b] = 0 /\ pool \in Pools
      BY <1>2, <2>2 DEF Good, Shaped, Counted, Allocatable, Evictable
    <3>2. AllocateBlockId(pool, b).cached =
            [g \in Hashes |-> IF pool.evictable[b] # None /\ g = pool.evictable[b] THEN None ELSE pool.cached[g]]
      BY <3>1, AllocateFacts
    <3>3. h \in Hashes
      <4>1. NextBlock(s) \in Nat \ {0} /\ tokens[s] \in SeqsUpTo(MaxLen)
        BY IInvFacts DEF NextBlock
      <4> QED
        BY <1>1, <4>1, HashFacts DEF h
    <3> QED
      BY <2>2, <3>2, <3>3 DEF PromotedId
  <2> QED
    BY <2>3, <2>4
<1>4. Good(pool', tokens, table') /\ table' = [table EXCEPT ![s] = Append(@, b)]
  BY <1>1, <1>3
<1> QED
  BY <1>1, <1>4, BlockAllocated

LEMMA AllocateTailStep ==
  ASSUME IInv, NEW s \in Seqs, NEW b \in Blocks, AllocateTail(s, b)
  PROVE  IInv'
<1>1. /\ allocating = s /\ MoreBlocks(s) /\ ~ IsFull(tokens[s], NextBlock(s)) /\ Allocatable(pool, b)
      /\ pool' = AllocateBlockId(pool, b) /\ table' = [table EXCEPT ![s] = Append(@, b)]
      /\ UNCHANGED <<chunked, tokens, numComputed, chunk, allocating, cows, kv>>
  BY DEF AllocateTail
<1>2. Good(pool, tokens, table) /\ ~ IsFull(tokens[s], Len(table[s]) + 1)
  BY <1>1 DEF IInv, NextBlock
<1>3. Good(AllocateBlockId(pool, b), tokens, [table EXCEPT ![s] = Append(table[s], b)])
  BY <1>1, <1>2, PushTail
<1>4. Good(pool', tokens, table')
  BY <1>1, <1>3
<1> QED
  BY <1>1, <1>4, BlockAllocated


\* A step that leaves the allocator and the tables as they are and gives s the chunk n.
LEMMA ChunkGiven ==
  ASSUME IInv, NEW s \in Seqs, NEW m \in Nat, NEW n \in Nat, m + n <= Len(tokens[s]),
         Len(table[s]) = NumBlocks(Len(tokens[s])), allocating' = None, allocating \in {None, s},
         numComputed' = [numComputed EXCEPT ![s] = m], chunk' = [chunk EXCEPT ![s] = n],
         UNCHANGED <<chunked, pool, tokens, table, cows, kv>>
  PROVE  IInv'
<1>1. ASSUME NEW r \in Seqs
      PROVE  Sized(r)'
  <2>1. Sized(r) /\ numComputed \in [Seqs -> Nat] /\ chunk \in [Seqs -> Nat] /\ None \notin Seqs
    BY AllocatorAssumption DEF IInv
  <2>2. CASE r = s
    <3>1. numComputed'[r] = m /\ chunk'[r] = n
      BY <2>1, <2>2
    <3> QED
      BY <2>1, <2>2, <3>1 DEF Sized
  <2>3. CASE r # s
    <3>1. numComputed'[r] = numComputed[r] /\ chunk'[r] = chunk[r] /\ r # allocating
      BY <2>1, <2>3
    <3> QED
      BY <2>1, <3>1 DEF Sized
  <2> QED
    BY <2>2, <2>3
<1>2. numComputed' \in [Seqs -> Nat] /\ chunk' \in [Seqs -> Nat]
  BY DEF IInv
<1> QED
  BY <1>1, <1>2 DEF IInv

LEMMA EndAllocateStep ==
  ASSUME IInv, NEW s \in Seqs, NEW k, NEW n, EndAllocate(s, k, n)
  PROVE  /\ IInv' /\ k \in Nat /\ k * BlockSize < Len(tokens[s]) /\ n \in Nat /\ n > 0
         /\ Len(table[s]) = NumBlocks(Len(tokens[s]))
<1>1. /\ allocating = s /\ ~ MoreBlocks(s) /\ k \in 0 .. Len(table[s]) - 1
      /\ n \in ChunkSizes(Len(tokens[s]) - k * BlockSize)
      /\ allocating' = None /\ numComputed' = [numComputed EXCEPT ![s] = k * BlockSize]
      /\ chunk' = [chunk EXCEPT ![s] = n] /\ UNCHANGED <<chunked, pool, tokens, table, cows, kv>>
  BY DEF EndAllocate, ComputedPrefix
<1>2. /\ Len(tokens[s]) \in Nat /\ Len(table[s]) \in Nat /\ NumBlocks(Len(tokens[s])) \in Nat
      /\ Len(table[s]) <= NumBlocks(Len(tokens[s]))
  BY IInvFacts DEF IInv, Sized
<1>3. Len(table[s]) = NumBlocks(Len(tokens[s]))
  BY <1>1, <1>2 DEF MoreBlocks, NextBlock
<1>4. k \in Nat /\ k < Len(table[s])
  BY <1>1, <1>2
<1>5. k * BlockSize \in Nat /\ k * BlockSize < Len(tokens[s])
  <2>1. k * BlockSize \in Nat /\ k * BlockSize + BlockSize <= Len(table[s]) * BlockSize /\ Len(table[s]) * BlockSize \in Nat
    BY <1>2, <1>4, Products
  <2>2. Len(table[s]) * BlockSize < Len(tokens[s]) + BlockSize
    BY <1>2, <1>3, NumBlocksFacts
  <2>3. \A a, d, x, y \in Nat : a + d <= x /\ x < y + d => a < y
    OBVIOUS
  <2>4. BlockSize \in Nat
    BY AllocatorAssumption
  <2> QED
    BY <1>2, <2>1, <2>2, <2>3, <2>4
<1> DEFINE m == k * BlockSize
<1> HIDE DEF m
<1>6. m \in Nat /\ m < Len(tokens[s]) /\ n \in ChunkSizes(Len(tokens[s]) - m)
      /\ numComputed' = [numComputed EXCEPT ![s] = m]
  BY <1>1, <1>5 DEF m
<1>7. n \in Nat /\ n > 0 /\ m + n <= Len(tokens[s])
  BY <1>2, <1>6 DEF ChunkSizes
<1>8. IInv'
  BY <1>1, <1>3, <1>6, <1>7, ChunkGiven
<1> QED
  BY <1>3, <1>4, <1>5, <1>7, <1>8

LEMMA ContinuePrefillStep ==
  ASSUME IInv, NEW s \in Seqs, NEW n, ContinuePrefill(s, n)
  PROVE  IInv' /\ n \in Nat /\ n > 0
<1>1. /\ allocating = None /\ allocating' = None
      /\ n \in ChunkSizes(Len(tokens[s]) - numComputed[s]) /\ numComputed[s] < Len(tokens[s])
      /\ chunk' = [chunk EXCEPT ![s] = n] /\ UNCHANGED <<chunked, pool, tokens, table, numComputed, cows, kv>>
  BY DEF ContinuePrefill
<1>2. /\ Len(tokens[s]) \in Nat /\ numComputed[s] \in Nat
      /\ numComputed \in [Seqs -> Nat] /\ Sized(s)
  BY IInvFacts, AllocatorAssumption DEF IInv
<1>3. Len(table[s]) = NumBlocks(Len(tokens[s]))
  BY <1>1, <1>2, AllocatorAssumption DEF Sized
<1>4. n \in Nat /\ n > 0 /\ numComputed[s] + n <= Len(tokens[s])
  BY <1>1, <1>2 DEF ChunkSizes
<1>5. numComputed' = [numComputed EXCEPT ![s] = numComputed[s]]
  BY <1>1, <1>2
<1>6. IInv'
  BY <1>1, <1>2, <1>3, <1>4, <1>5, ChunkGiven
<1> QED
  BY <1>4, <1>6

\* The token t[Len(t)] joins block cur, which s has to itself.
LEMMA AppendStep ==
  ASSUME IInv, NEW s \in Seqs, NEW token \in Tokens, NEW t, t = Append(tokens[s], token),
         Len(tokens[s]) < MaxLen, allocating = None, numComputed[s] = Len(tokens[s]),
         NEW p, NEW cur \in Blocks, NEW n \in Nat \ {0}, n = NumBlocks(Len(tokens[s]) + 1),
         n - 1 <= Len(table[s]), p.ref[cur] = 1,
         Good(p, tokens, [table EXCEPT ![s] = Append(Prefix(table[s], n - 1), cur)]),
         AppendTo(s, t, p, cur), cows' \subseteq Blocks \X Blocks,
         UNCHANGED <<chunked, numComputed, allocating, kv>>
  PROVE  IInv'
<1> DEFINE pre == Prefix(table[s], n - 1)
           tab == [table EXCEPT ![s] = Append(pre, cur)]
           id == IF IsFull(t, n) THEN PromotedId(p, cur, t) ELSE cur
<1>1. /\ tokens \in [Seqs -> SeqsUpTo(MaxLen)] /\ table \in [Seqs -> Seq(Blocks)] /\ tokens[s] \in Seq(Tokens)
      /\ Len(tokens[s]) \in Nat /\ table[s] \in Seq(Blocks) /\ Len(table[s]) \in Nat
      /\ numComputed \in [Seqs -> Nat] /\ chunk \in [Seqs -> Nat]
  BY IInvFacts
<1>2. /\ t \in Seq(Tokens) /\ Len(t) = Len(tokens[s]) + 1 /\ \A j \in 1 .. Len(tokens[s]) : t[j] = tokens[s][j]
  BY <1>1, AppendProperties
<1>3. t \in SeqsUpTo(MaxLen)
  <2>1. MaxLen \in Nat
    BY AllocatorAssumption
  <2>2. t \in Seq(Tokens) /\ Len(t) <= MaxLen
    BY <1>1, <1>2, <2>1
  <2> QED
    BY <2>1, <2>2, SeqsUpToFacts
<1>4. n = NumBlocks(Len(t)) /\ BlockOf(Len(t)) = n
  <2>1. n = NumBlocks(Len(t)) /\ Len(t) \in Nat /\ Len(t) > 0
    BY <1>1, <1>2
  <2> QED
    BY <2>1, NumBlocksFacts
<1>5. pre \in Seq(Blocks) /\ Len(pre) = n - 1 /\ n - 1 \in Nat /\ n - 1 + 1 = n
  <2>1. n - 1 \in 0 .. Len(table[s]) /\ n - 1 \in Nat /\ n - 1 + 1 = n
    BY <1>1
  <2> QED
    BY <1>1, <2>1, PrefixFacts
<1>6. tab[s] = Append(pre, cur)
  BY <1>1
<1>7. /\ tab[s] \in Seq(Blocks) /\ Len(tab[s]) = n /\ tab[s][n] = cur
      /\ \A i \in 1 .. n - 1 : tab[s][i] = pre[i]
  <2> HIDE DEF tab, pre
  <2>1. tab[s] \in Seq(Blocks) /\ Len(tab[s]) = Len(pre) + 1 /\ tab[s][Len(pre) + 1] = cur
    BY <1>5, <1>6, AppendProperties
  <2>2. \A i \in 1 .. Len(pre) : tab[s][i] = pre[i]
    BY <1>5, <1>6, AppendProperties
  <2> QED
    BY <1>5, <2>1, <2>2
<1>8. Prefix(tab[s], n - 1) = pre
  <2> HIDE DEF tab, pre
  <2>1. n - 1 \in 0 .. Len(tab[s])
    BY <1>5, <1>7
  <2>2. /\ Prefix(tab[s], n - 1) \in Seq(Blocks) /\ Len(Prefix(tab[s], n - 1)) = n - 1
        /\ \A i \in 1 .. n - 1 : Prefix(tab[s], n - 1)[i] = tab[s][i]
    BY <1>7, <2>1, BlockPrefix
  <2>3. \A i \in 1 .. n - 1 : Prefix(tab[s], n - 1)[i] = pre[i]
    BY <1>7, <2>2
  <2> QED
    BY <1>5, <2>2, <2>3, SeqEqual
<1>9. /\ IsFull(t, n) => Good(PromoteToImmutable(p, cur, t), [tokens EXCEPT ![s] = t],
                              [tab EXCEPT ![s] = Append(pre, PromotedId(p, cur, t))])
      /\ ~ IsFull(t, n) => Good(p, [tokens EXCEPT ![s] = t], [tab EXCEPT ![s] = Append(pre, cur)])
  <2>1. /\ Good(p, tokens, tab) /\ Len(tab[s]) = NumBlocks(Len(t)) /\ cur = tab[s][Len(tab[s])]
        /\ p.ref[tab[s][Len(tab[s])]] = 1
    BY <1>4, <1>7
  <2> HIDE DEF tab
  <2>2. IsFull(t, Len(tab[s])) =>
          Good(PromoteToImmutable(p, cur, t), [tokens EXCEPT ![s] = t],
               [tab EXCEPT ![s] = Append(Prefix(tab[s], Len(tab[s]) - 1), PromotedId(p, cur, t))])
    BY ZenonT(60), <1>2, <1>3, <2>1, AppendMove
  <2>3. ~ IsFull(t, Len(tab[s])) =>
          Good(p, [tokens EXCEPT ![s] = t],
               [tab EXCEPT ![s] = Append(Prefix(tab[s], Len(tab[s]) - 1), cur)])
    BY ZenonT(60), <1>2, <1>3, <2>1, AppendMove
  <2> QED
    BY <1>7, <1>8, <2>2, <2>3
<1>10. \A x : [tab EXCEPT ![s] = x] = [table EXCEPT ![s] = x]
  BY <1>1
<1>11. /\ pool' = (IF IsFull(t, n) THEN PromoteToImmutable(p, cur, t) ELSE p)
       /\ table' = [table EXCEPT ![s] = Append(pre, id)]
       /\ tokens' = [tokens EXCEPT ![s] = t] /\ chunk' = [chunk EXCEPT ![s] = 1]
  BY <1>4 DEF AppendTo
<1>12. Good(pool', tokens', table')
  <2>1. CASE IsFull(t, n)
    <3>1. pool' = PromoteToImmutable(p, cur, t) /\ table' = [table EXCEPT ![s] = Append(pre, PromotedId(p, cur, t))]
      BY <1>11, <2>1
    <3>2. Good(PromoteToImmutable(p, cur, t), [tokens EXCEPT ![s] = t],
               [tab EXCEPT ![s] = Append(pre, PromotedId(p, cur, t))])
      BY <1>9, <2>1
    <3> HIDE DEF tab, pre
    <3>3. [tab EXCEPT ![s] = Append(pre, PromotedId(p, cur, t))] = [table EXCEPT ![s] = Append(pre, PromotedId(p, cur, t))]
      BY <1>10
    <3> QED
      BY <1>11, <3>1, <3>2, <3>3
  <2>2. CASE ~ IsFull(t, n)
    <3>1. pool' = p /\ table' = [table EXCEPT ![s] = Append(pre, cur)]
      BY <1>11, <2>2
    <3>2. Good(p, [tokens EXCEPT ![s] = t], [tab EXCEPT ![s] = Append(pre, cur)])
      BY <1>9, <2>2
    <3> HIDE DEF tab, pre
    <3>3. [tab EXCEPT ![s] = Append(pre, cur)] = [table EXCEPT ![s] = Append(pre, cur)]
      BY <1>10
    <3> QED
      BY <1>11, <3>1, <3>2, <3>3
  <2> QED
    BY <2>1, <2>2
<1>13. ASSUME NEW r \in Seqs
       PROVE  Sized(r)'
  <2>1. Sized(r) /\ None \notin Seqs
    BY AllocatorAssumption DEF IInv
  <2>2. CASE r = s
    <3>1. tokens'[r] = t /\ chunk'[r] = 1 /\ numComputed'[r] = Len(tokens[s])
      BY <1>1, <1>11, <2>2
    <3>2. table'[r] \in Seq(Blocks) /\ table'[r] = Append(pre, id)
      <4>1. table' \in [Seqs -> Seq(Blocks)]
        BY <1>12 DEF Good, Shaped
      <4> QED
        BY <1>1, <1>11, <2>2, <4>1
    <3>3. Len(table'[r]) = n
      BY <1>5, <3>2
    <3> QED
      BY <1>1, <1>2, <1>4, <3>1, <3>3 DEF Sized
  <2>3. CASE r # s
    <3>1. tokens'[r] = tokens[r] /\ chunk'[r] = chunk[r] /\ numComputed'[r] = numComputed[r] /\ table'[r] = table[r]
      BY <1>1, <1>11, <2>3
    <3> QED
      BY <2>1, <3>1 DEF Sized
  <2> QED
    BY <2>2, <2>3
<1>14. chunk' \in [Seqs -> Nat]
  BY <1>1, <1>11
<1> QED
  BY <1>12, <1>13, <1>14 DEF IInv


\* A decoding sequence has the blocks its tokens need, and room for one more token.
LEMMA DecodingFacts ==
  ASSUME IInv, NEW s \in Seqs, Decoding(s), NEW L, L = Len(table[s])
  PROVE  /\ Good(pool, tokens, table) /\ allocating = None
         /\ Len(tokens[s]) < MaxLen /\ numComputed[s] = Len(tokens[s])
         /\ L \in Nat \ {0} /\ table[s] \in Seq(Blocks) /\ DOMAIN table[s] = 1 .. L
         /\ LastBlock(s) \in Blocks /\ LastBlock(s) = table[s][L]
         /\ IsFull(tokens[s], L) => ~ IsFull(tokens[s], L + 1) /\ NumBlocks(Len(tokens[s]) + 1) = L + 1
         /\ ~ IsFull(tokens[s], L) => NumBlocks(Len(tokens[s]) + 1) = L
<1>1. /\ Good(pool, tokens, table) /\ allocating = None /\ Len(tokens[s]) < MaxLen /\ numComputed[s] = Len(tokens[s])
      /\ table[s] # << >> /\ None \notin Seqs /\ Sized(s)
  BY AllocatorAssumption DEF IInv, Decoding, Running
<1>2. /\ table[s] \in Seq(Blocks) /\ Len(table[s]) \in Nat /\ DOMAIN table[s] = 1 .. L /\ Len(tokens[s]) \in Nat
  BY IInvFacts
<1>3. L \in Nat \ {0}
  BY <1>1, <1>2, EmptySeq
<1>4. LastBlock(s) \in Blocks /\ LastBlock(s) = table[s][L]
  BY <1>2, <1>3, ElementOfSeq DEF LastBlock
<1>5. L = NumBlocks(Len(tokens[s]))
  BY <1>1 DEF Sized
<1> DEFINE m == Len(tokens[s])
           x == L * BlockSize
<1>6. x \in Nat /\ (L + 1) * BlockSize = x + BlockSize /\ BlockSize \in Nat /\ BlockSize > 0 /\ L + 1 \in Nat
  BY <1>3, Products, AllocatorAssumption
<1>7. m <= x /\ x < m + BlockSize
  BY <1>2, <1>5, NumBlocksFacts
<1>8. m + 1 \in Nat
  BY <1>2
<1>9. CASE IsFull(tokens[s], L)
  <2>1. m = x
    BY <1>2, <1>6, <1>7, <1>9 DEF IsFull
  <2>2. m + 1 <= (L + 1) * BlockSize /\ (L + 1) * BlockSize < m + 1 + BlockSize
    <3> HIDE DEF x, m
    <3> QED
      BY <2>1, <1>6
  <2>3. ~ IsFull(tokens[s], L + 1)
    <3>1. ~ ((L + 1) * BlockSize <= m)
      <4> HIDE DEF x, m
      <4> QED
        BY <2>1, <1>6
    <3> QED
      BY <3>1 DEF IsFull
  <2>4. L + 1 = NumBlocks(m + 1)
    BY <1>6, <1>8, <2>2, NumBlocksFacts
  <2> QED
    BY <1>1, <1>2, <1>3, <1>4, <1>9, <2>3, <2>4
<1>10. CASE ~ IsFull(tokens[s], L)
  <2>1. m + 1 <= x /\ x < m + 1 + BlockSize
    <3>1. ~ (x <= m)
      BY <1>10 DEF IsFull
    <3>2. m \in Nat
      BY <1>2
    <3> HIDE DEF x, m
    <3> QED
      BY <1>6, <1>7, <3>1, <3>2
  <2>2. L = NumBlocks(m + 1)
    BY <1>3, <1>8, <2>1, NumBlocksFacts
  <2> QED
    BY <1>1, <1>2, <1>3, <1>4, <1>10, <2>2
<1> QED
  BY <1>9, <1>10

\* A sequence and its prefixes.
LEMMA WholePrefix ==
  ASSUME NEW S, NEW q \in Seq(S), NEW L, L = Len(q)
  PROVE  /\ Prefix(q, L) = q
         /\ L # 0 => Append(Prefix(q, L - 1), q[L]) = q
<1>1. L \in Nat /\ DOMAIN q = 1 .. L
  BY LenProperties
<1>2. Prefix(q, L) = q
  <2>1. L \in 0 .. Len(q)
    BY <1>1
  <2>2. Prefix(q, L) \in Seq(S) /\ Len(Prefix(q, L)) = L /\ \A i \in 1 .. L : Prefix(q, L)[i] = q[i]
    BY <2>1, PrefixFacts
  <2> QED
    BY <2>2, SeqEqual
<1>3. ASSUME L # 0
      PROVE  Append(Prefix(q, L - 1), q[L]) = q
  <2> DEFINE pre == Prefix(q, L - 1)
  <2>1. L - 1 \in 0 .. Len(q) /\ L - 1 \in Nat /\ L - 1 + 1 = L
    BY <1>1, <1>3
  <2>2. pre \in Seq(S) /\ Len(pre) = L - 1 /\ \A i \in 1 .. L - 1 : pre[i] = q[i]
    BY <2>1, PrefixFacts
  <2>3. q[L] \in S
    BY <1>1, <1>3, ElementOfSeq
  <2> HIDE DEF pre
  <2>4. Append(pre, q[L]) \in Seq(S) /\ Len(Append(pre, q[L])) = Len(pre) + 1 /\ Append(pre, q[L])[Len(pre) + 1] = q[L]
    BY <2>2, <2>3, AppendProperties
  <2>5. \A i \in 1 .. Len(pre) : Append(pre, q[L])[i] = pre[i]
    BY <2>2, <2>3, AppendProperties
  <2>6. \A i \in 1 .. L : Append(pre, q[L])[i] = q[i]
    <3> SUFFICES ASSUME NEW i \in 1 .. L PROVE Append(pre, q[L])[i] = q[i]
      OBVIOUS
    <3>1. i = L \/ i \in 1 .. L - 1
      BY <1>1
    <3> QED
      BY <2>1, <2>2, <2>4, <2>5, <3>1
  <2>7. Append(pre, q[L]) = q
    BY <2>1, <2>2, <2>4, <2>6, SeqEqual
  <2> QED
    BY <2>7 DEF pre
<1> QED
  BY <1>2, <1>3

LEMMA AppendNewBlockStep ==
  ASSUME IInv, NEW s \in Seqs, NEW token \in Tokens, NEW b \in Blocks, AppendNewBlock(s, token, b)
  PROVE  IInv'
<1> DEFINE L == Len(table[s])
           p == AllocateBlockId(pool, b)
<1>1. /\ Decoding(s) /\ IsFull(tokens[s], L) /\ Allocatable(pool, b)
      /\ AppendTo(s, Append(tokens[s], token), p, b)
      /\ UNCHANGED <<chunked, numComputed, allocating, cows, kv>>
  BY DEF AppendNewBlock
<1>2. /\ Good(pool, tokens, table) /\ allocating = None
      /\ Len(tokens[s]) < MaxLen /\ numComputed[s] = Len(tokens[s])
      /\ L \in Nat \ {0} /\ table[s] \in Seq(Blocks)
  BY <1>1, DecodingFacts
<1>3. ~ IsFull(tokens[s], L + 1) /\ NumBlocks(Len(tokens[s]) + 1) = L + 1
  BY <1>1, DecodingFacts
<1>4. Good(p, tokens, [table EXCEPT ![s] = Append(table[s], b)]) /\ p.ref[b] = 1
  BY <1>1, <1>2, <1>3, PushTail
<1>5. /\ L + 1 \in Nat \ {0} /\ L + 1 - 1 = L /\ L + 1 - 1 <= Len(table[s])
  BY <1>2
<1>6. Prefix(table[s], L + 1 - 1) = table[s]
  BY <1>2, <1>5, WholePrefix
<1>7. cows' \subseteq Blocks \X Blocks
  BY <1>1 DEF IInv
<1>8. Good(p, tokens, [table EXCEPT ![s] = Append(Prefix(table[s], L + 1 - 1), b)])
  BY <1>4, <1>6
<1> DEFINE n == L + 1
<1>9. n \in Nat \ {0} /\ n = NumBlocks(Len(tokens[s]) + 1) /\ n - 1 <= Len(table[s])
      /\ Good(p, tokens, [table EXCEPT ![s] = Append(Prefix(table[s], n - 1), b)])
  BY <1>3, <1>5, <1>8
<1> HIDE DEF n, p, L
<1> QED
  BY <1>1, <1>2, <1>4, <1>7, <1>9, AppendStep

LEMMA AppendInPlaceStep ==
  ASSUME IInv, NEW s \in Seqs, NEW token \in Tokens, AppendInPlace(s, token)
  PROVE  IInv'
<1> DEFINE L == Len(table[s])
           b == LastBlock(s)
<1>1. /\ Decoding(s) /\ ~ IsFull(tokens[s], L) /\ pool.ref[b] <= 1
      /\ AppendTo(s, Append(tokens[s], token), pool, b)
      /\ UNCHANGED <<chunked, numComputed, allocating, cows, kv>>
  BY DEF AppendInPlace
<1>2. /\ Good(pool, tokens, table) /\ allocating = None
      /\ Len(tokens[s]) < MaxLen /\ numComputed[s] = Len(tokens[s])
      /\ L \in Nat \ {0} /\ table[s] \in Seq(Blocks) /\ DOMAIN table[s] = 1 .. L
      /\ b \in Blocks /\ b = table[s][L]
  BY <1>1, DecodingFacts
<1>3. NumBlocks(Len(tokens[s]) + 1) = L
  BY <1>1, DecodingFacts
<1>4. pool.ref[b] = 1
  <2>1. L \in DOMAIN table[s] /\ pool.ref[b] \in Nat
    BY <1>2, GoodFacts
  <2>2. pool.ref[table[s][L]] > 0
    BY <1>2, <2>1, HeldFacts
  <2> QED
    BY <1>1, <1>2, <2>1, <2>2
<1>5. Append(Prefix(table[s], L - 1), b) = table[s]
  <2>1. L # 0 => Append(Prefix(table[s], L - 1), table[s][L]) = table[s]
    BY <1>2, WholePrefix
  <2> QED
    BY <1>2, <2>1
<1>6. [table EXCEPT ![s] = table[s]] = table
  BY IInvFacts
<1>7. cows' \subseteq Blocks \X Blocks
  BY <1>1 DEF IInv
<1>8. Good(pool, tokens, [table EXCEPT ![s] = Append(Prefix(table[s], L - 1), b)]) /\ L - 1 <= Len(table[s])
  BY SMTT(30), <1>2, <1>5, <1>6
<1> HIDE DEF L, b
<1> QED
  BY <1>1, <1>2, <1>3, <1>4, <1>7, <1>8, AppendStep

LEMMA AppendCopyOnWriteStep ==
  ASSUME IInv, NEW s \in Seqs, NEW token \in Tokens, NEW b \in Blocks, AppendCopyOnWrite(s, token, b)
  PROVE  IInv'
<1> DEFINE L == Len(table[s])
           released == DecrRefcountHashless(pool, LastBlock(s))
           p == AllocateBlockId(released, b)
           pre == Prefix(table[s], L - 1)
           tab == [table EXCEPT ![s] = pre]
<1>1. /\ Decoding(s) /\ ~ IsFull(tokens[s], L) /\ Allocatable(released, b)
      /\ AppendTo(s, Append(tokens[s], token), p, b)
      /\ cows' = cows \cup {<<LastBlock(s), b>>}
      /\ UNCHANGED <<chunked, numComputed, allocating, kv>>
  BY DEF AppendCopyOnWrite
<1>2. /\ Good(pool, tokens, table) /\ allocating = None
      /\ Len(tokens[s]) < MaxLen /\ numComputed[s] = Len(tokens[s])
      /\ L \in Nat \ {0} /\ table[s] \in Seq(Blocks)
      /\ LastBlock(s) \in Blocks /\ LastBlock(s) = table[s][L]
  BY <1>1, DecodingFacts
<1>3. NumBlocks(Len(tokens[s]) + 1) = L
  BY <1>1, DecodingFacts
<1>4. Good(released, tokens, tab)
  <2>1. Len(table[s]) > 0
    BY <1>2
  <2> QED
    BY <1>1, <1>2, <2>1, DropTail
<1>5. tab[s] = pre /\ L - 1 \in 0 .. L /\ L - 1 + 1 = L
  BY <1>2, IInvFacts
<1>6. Len(tab[s]) + 1 = L
  <2>1. Len(pre) = L - 1
    BY <1>2, <1>5, BlockPrefix
  <2> QED
    BY <1>5, <2>1
<1>7. Good(p, tokens, [tab EXCEPT ![s] = Append(tab[s], b)]) /\ p.ref[b] = 1
  <2>1. ~ IsFull(tokens[s], Len(tab[s]) + 1)
    BY <1>1, <1>6
  <2> HIDE DEF tab, released
  <2> QED
    BY <1>1, <1>4, <2>1, PushTail
<1>8. Good(p, tokens, [table EXCEPT ![s] = Append(pre, b)])
  <2>1. [tab EXCEPT ![s] = Append(tab[s], b)] = [table EXCEPT ![s] = Append(pre, b)]
    BY <1>5
  <2> QED
    BY <1>7, <2>1
<1>9. cows' \subseteq Blocks \X Blocks
  BY <1>1, <1>2 DEF IInv
<1>10. Good(p, tokens, [table EXCEPT ![s] = Append(Prefix(table[s], L - 1), b)]) /\ L - 1 <= Len(table[s])
  BY <1>2, <1>8
<1> HIDE DEF L, p, tab, released, pre
<1> QED
  BY <1>1, <1>2, <1>3, <1>7, <1>9, <1>10, AppendStep


LEMMA ForkStep ==
  ASSUME IInv, NEW parent \in Seqs, NEW child \in Seqs, Fork(parent, child)
  PROVE  IInv'
<1> DEFINE held == {table[parent][i] : i \in DOMAIN table[parent]}
<1>1. /\ allocating = None /\ numComputed[parent] = Len(tokens[parent]) /\ tokens[child] = << >>
      /\ pool' = [pool EXCEPT !.ref = [b \in Blocks |-> IF b \in held THEN @[b] + 1 ELSE @[b]]]
      /\ tokens' = [tokens EXCEPT ![child] = tokens[parent]]
      /\ table' = [table EXCEPT ![child] = table[parent]]
      /\ numComputed' = [numComputed EXCEPT ![child] = numComputed[parent]]
      /\ UNCHANGED <<chunked, chunk, allocating, cows, kv>>
  BY DEF Fork
<1>2. table[child] = << >> /\ chunk[child] = 0
  BY <1>1, NoTable
<1>3. Good(pool', tokens', table')
  <2>1. Good(pool, tokens, table)
    BY DEF IInv
  <2>2. Good([pool EXCEPT !.ref = [b \in Blocks |-> IF b \in held THEN @[b] + 1 ELSE @[b]]],
             [tokens EXCEPT ![child] = tokens[parent]], [table EXCEPT ![child] = table[parent]])
    BY ZenonT(60), <1>2, <2>1, ForkMove
  <2> QED
    BY <1>1, <2>2
<1>4. /\ tokens \in [Seqs -> SeqsUpTo(MaxLen)] /\ table \in [Seqs -> Seq(Blocks)]
      /\ numComputed \in [Seqs -> Nat] /\ chunk \in [Seqs -> Nat] /\ Len(tokens[parent]) \in Nat
  BY IInvFacts
<1>5. ASSUME NEW r \in Seqs
      PROVE  Sized(r)'
  <2>1. Sized(r) /\ Sized(parent) /\ None \notin Seqs
    BY AllocatorAssumption DEF IInv
  <2>2. CASE r = child
    <3>1. /\ tokens'[r] = tokens[parent] /\ table'[r] = table[parent] /\ numComputed'[r] = Len(tokens[parent])
          /\ chunk'[r] = 0 /\ parent # allocating /\ allocating' = None
      BY <1>1, <1>2, <1>4, <2>1, <2>2
    <3> QED
      BY <1>4, <2>1, <3>1 DEF Sized
  <2>3. CASE r # child
    <3>1. tokens'[r] = tokens[r] /\ chunk'[r] = chunk[r] /\ numComputed'[r] = numComputed[r] /\ table'[r] = table[r]
      BY <1>1, <1>4, <2>3
    <3> QED
      BY <1>1, <2>1, <3>1 DEF Sized
  <2> QED
    BY <2>2, <2>3
<1>6. numComputed' \in [Seqs -> Nat]
  BY <1>1, <1>4
<1> QED
  BY <1>1, <1>3, <1>5, <1>6 DEF IInv

LEMMA FreeStep ==
  ASSUME IInv, NEW s \in Seqs, Free(s)
  PROVE  IInv'
<1>1. /\ allocating = None /\ chunk[s] = 0 /\ pool' = FreeTable(pool, s)
      /\ tokens' = [tokens EXCEPT ![s] = << >>]
      /\ table' = [table EXCEPT ![s] = << >>]
      /\ numComputed' = [numComputed EXCEPT ![s] = 0]
      /\ UNCHANGED <<chunked, chunk, allocating, cows, kv>>
  BY DEF Free
<1>2. Good(pool', tokens', table')
  <2>1. Good(pool, tokens, table)
    BY DEF IInv
  <2>2. Good(FreeTable(pool, s), [tokens EXCEPT ![s] = << >>], [table EXCEPT ![s] = << >>])
    BY <2>1, FreeMove
  <2> QED
    BY <1>1, <2>2
<1>3. /\ tokens \in [Seqs -> SeqsUpTo(MaxLen)] /\ table \in [Seqs -> Seq(Blocks)]
      /\ numComputed \in [Seqs -> Nat] /\ chunk \in [Seqs -> Nat]
  BY IInvFacts
<1>4. NumBlocks(0) = 0
  <2>1. 0 <= 0 * BlockSize /\ 0 * BlockSize < 0 + BlockSize
    BY AllocatorAssumption
  <2> QED
    BY <2>1, NumBlocksFacts
<1>5. ASSUME NEW r \in Seqs
      PROVE  Sized(r)'
  <2>1. Sized(r)
    BY DEF IInv
  <2>2. CASE r = s
    <3>1. /\ tokens'[r] = << >> /\ table'[r] = << >> /\ numComputed'[r] = 0 /\ chunk'[r] = 0
      BY <1>1, <1>3, <2>2
    <3> QED
      BY <1>4, <3>1 DEF Sized
  <2>3. CASE r # s
    <3>1. tokens'[r] = tokens[r] /\ chunk'[r] = chunk[r] /\ numComputed'[r] = numComputed[r] /\ table'[r] = table[r]
      BY <1>1, <1>3, <2>3
    <3> QED
      BY <1>1, <2>1, <3>1 DEF Sized
  <2> QED
    BY <2>2, <2>3
<1>6. numComputed' \in [Seqs -> Nat]
  BY <1>1, <1>3
<1> QED
  BY <1>1, <1>2, <1>5, <1>6 DEF IInv

\* The copies and the batch write token prefixes.
LEMMA MemoryFacts ==
  ASSUME IInv, NEW f \in CopySources, NEW w \in WriteChoices
  PROVE  AfterForward(AfterCopies(f), w) \in Memory
<1>1. kv \in Memory
  BY DEF IInv
<1>2. ASSUME NEW x \in Writes
      PROVE  x.content \in SeqsUpTo(MaxLen)
  <2>1. PICK s \in Scheduled : x \in {Write(s, pos) : pos \in numComputed[s] + 1 .. numComputed[s] + chunk[s]}
    BY DEF Writes
  <2>2. PICK pos \in numComputed[s] + 1 .. numComputed[s] + chunk[s] : x = Write(s, pos)
    BY <2>1
  <2>3. /\ s \in Seqs /\ numComputed[s] \in Nat /\ chunk[s] \in Nat /\ Len(tokens[s]) \in Nat /\ Len(tokens[s]) <= MaxLen
        /\ tokens[s] \in Seq(Tokens) /\ numComputed[s] + chunk[s] <= Len(tokens[s])
    BY IInvFacts DEF Scheduled, IInv, Sized
  <2>4. pos \in 0 .. Len(tokens[s])
    BY <2>3
  <2>5. Prefix(tokens[s], pos) \in Seq(Tokens) /\ Len(Prefix(tokens[s], pos)) = pos
    BY <2>3, <2>4, PrefixFacts
  <2>6. pos <= MaxLen /\ MaxLen \in Nat
    BY <2>3, <2>4, AllocatorAssumption
  <2>7. Prefix(tokens[s], pos) \in SeqsUpTo(MaxLen)
    BY <2>5, <2>6, SeqsUpToFacts
  <2> QED
    BY <2>2, <2>7 DEF Write
<1>3. \A c : \A t \in Written(c) : t \in SeqsUpTo(MaxLen)
  BY <1>2 DEF Written
<1>4. AfterCopies(f) \in Memory
  <2>1. ASSUME NEW b \in Blocks
        PROVE  (IF b \in DOMAIN f THEN kv[f[b]] ELSE kv[b]) \in [1 .. BlockSize -> SeqsUpTo(MaxLen)]
    BY <1>1 DEF CopySources, Memory
  <2> QED
    BY <2>1 DEF AfterCopies, Memory
<1> DEFINE mem == AfterCopies(f)
<1> HIDE DEF mem
<1>5. ASSUME NEW b \in Blocks, NEW i \in 1 .. BlockSize
      PROVE  (CASE <<b, i>> \in Contested   -> w[<<b, i>>]
                [] Written(<<b, i>>) = {}   -> mem[b][i]
                [] OTHER                    -> CHOOSE t \in Written(<<b, i>>) : TRUE) \in SeqsUpTo(MaxLen)
  <2> DEFINE c == <<b, i>>
  <2>1. CASE c \in Contested
    <3>1. w[c] \in Written(c)
      BY <2>1 DEF WriteChoices
    <3>2. Written(c) # {}
      BY <3>1
    <3> QED
      BY <1>3, <2>1, <3>1, <3>2
  <2>2. CASE c \notin Contested /\ Written(c) = {}
    <3>1. mem[b][i] \in SeqsUpTo(MaxLen)
      BY <1>4 DEF Memory, mem
    <3> QED
      BY <2>2, <3>1
  <2>3. CASE c \notin Contested /\ Written(c) # {}
    <3>1. (CHOOSE t \in Written(c) : TRUE) \in Written(c)
      BY <2>3
    <3> QED
      BY <1>3, <2>3, <3>1
  <2> QED
    BY <2>1, <2>2, <2>3
<1>6. AfterForward(mem, w) \in Memory
  BY <1>5 DEF AfterForward, Memory
<1> QED
  BY <1>6 DEF mem

LEMMA ExecuteStep ==
  ASSUME IInv, Execute
  PROVE  IInv'
<1>1. /\ pool' = MarkBlocksAsComputed(pool)
      /\ numComputed' = [s \in Seqs |-> numComputed[s] + chunk[s]]
      /\ chunk' = [s \in Seqs |-> 0] /\ cows' = {} /\ UNCHANGED <<chunked, tokens, table, allocating>>
  BY DEF Execute
<1>2. kv' \in Memory
  <2>1. PICK f \in CopySources, w \in WriteChoices : kv' = AfterForward(AfterCopies(f), w)
    BY DEF Execute
  <2> QED
    BY <2>1, MemoryFacts
<1>3. /\ Good(pool, tokens, table) /\ pool \in Pools /\ numComputed \in [Seqs -> Nat] /\ chunk \in [Seqs -> Nat]
      /\ \A s \in Seqs : Len(tokens[s]) \in Nat
  BY IInvFacts
<1>4. /\ pool' \in Pools /\ pool'.ref = pool.ref /\ pool'.free = pool.free /\ pool'.active = pool.active
      /\ pool'.cached = pool.cached /\ pool'.evictable = pool.evictable
  <2>1. pool' = [pool EXCEPT !.computed = pool.computed \cup pool.touched, !.touched = {}]
    BY <1>1 DEF MarkBlocksAsComputed
  <2> QED
    BY <1>3, <2>1 DEF Pools
<1>5. Good(pool', tokens', table')
  BY <1>1, <1>3, <1>4 DEF Good, Shaped, Counted, EvictableIndexed, IndexBacked, FullIndexed
<1>6. ASSUME NEW s \in Seqs
      PROVE  Sized(s)'
  <2>1. Sized(s) /\ numComputed'[s] = numComputed[s] + chunk[s] /\ chunk'[s] = 0
        /\ numComputed[s] \in Nat /\ chunk[s] \in Nat
    BY <1>1, <1>3 DEF IInv
  <2> QED
    BY <1>1, <2>1 DEF Sized
<1>7. numComputed' \in [Seqs -> Nat] /\ chunk' \in [Seqs -> Nat]
  BY <1>1, <1>3
<1> QED
  BY <1>1, <1>2, <1>5, <1>6, <1>7 DEF IInv

LEMMA NextIInv == IInv /\ [Next]_vars => IInv'
<1> SUFFICES ASSUME IInv, [Next]_vars PROVE IInv'
  OBVIOUS
<1>1. ASSUME NEW s \in Seqs, NEW prompt \in Prompts, BeginAllocate(s, prompt) PROVE IInv'
  BY <1>1, BeginAllocateStep
<1>2. ASSUME NEW s \in Seqs, AllocateHit(s) PROVE IInv'
  BY <1>2, AllocateHitStep
<1>3. ASSUME NEW s \in Seqs, NEW b \in Blocks, AllocateMiss(s, b) PROVE IInv'
  BY <1>3, AllocateMissStep
<1>4. ASSUME NEW s \in Seqs, NEW b \in Blocks, AllocateTail(s, b) PROVE IInv'
  BY <1>4, AllocateTailStep
<1>5. ASSUME NEW s \in Seqs, NEW k \in 0 .. MaxLen, NEW n \in 1 .. MaxLen, EndAllocate(s, k, n) PROVE IInv'
  BY <1>5, EndAllocateStep
<1>6. ASSUME NEW s \in Seqs, NEW n \in 1 .. MaxLen, ContinuePrefill(s, n) PROVE IInv'
  BY <1>6, ContinuePrefillStep
<1>7. ASSUME NEW s \in Seqs, NEW t \in Tokens, NEW b \in Blocks, AppendNewBlock(s, t, b) PROVE IInv'
  BY <1>7, AppendNewBlockStep
<1>8. ASSUME NEW s \in Seqs, NEW t \in Tokens, AppendInPlace(s, t) PROVE IInv'
  BY <1>8, AppendInPlaceStep
<1>9. ASSUME NEW s \in Seqs, NEW t \in Tokens, NEW b \in Blocks, AppendCopyOnWrite(s, t, b) PROVE IInv'
  BY <1>9, AppendCopyOnWriteStep
<1>10. ASSUME NEW s \in Seqs, NEW c \in Seqs, Fork(s, c) PROVE IInv'
  BY <1>10, ForkStep
<1>11. ASSUME NEW s \in Seqs, Free(s) PROVE IInv'
  BY <1>11, FreeStep
<1>12. CASE Execute
  BY <1>12, ExecuteStep
<1>13. CASE UNCHANGED vars
  BY <1>13 DEF vars, IInv, Sized
<1> QED
  BY <1>1, <1>2, <1>3, <1>4, <1>5, <1>6, <1>7, <1>8, <1>9, <1>10, <1>11, <1>12, <1>13 DEF Next

LEMMA IInvHolds == Spec => []IInv
BY InitIInv, NextIInv, PTL DEF Spec

-----------------------------------------------------------------------------
(* What the invariant says *)

LEMMA IInvTypes ==
  ASSUME IInv
  PROVE  TypeOK
<1>1. /\ Good(pool, tokens, table) /\ pool \in Pools
      /\ tokens \in [Seqs -> SeqsUpTo(MaxLen)] /\ table \in [Seqs -> Seq(Blocks)]
      /\ numComputed \in [Seqs -> Nat] /\ chunk \in [Seqs -> Nat]
  BY IInvFacts
<1>2. pool.ref \in [Blocks -> 0 .. Cardinality(Seqs)]
  <2> SUFFICES ASSUME NEW b \in Blocks PROVE pool.ref[b] \in 0 .. Cardinality(Seqs)
    BY <1>1, PoolFields
  <2>1. pool.ref[b] = Cardinality(Holders(table, b)) /\ pool.ref[b] \in Nat
    BY <1>1, PoolFields DEF Good, Counted
  <2>2. Holders(table, b) \subseteq Seqs /\ IsFiniteSet(Seqs)
    BY AllocatorAssumption DEF Holders
  <2>3. Cardinality(Holders(table, b)) <= Cardinality(Seqs) /\ Cardinality(Seqs) \in Nat
    BY <2>2, FS_Subset, FS_CardinalityType
  <2> QED
    BY <2>1, <2>3
<1>3. pool \in Pool
  BY <1>1, <1>2 DEF Pools, Pool
<1>4. ASSUME NEW s \in Seqs
      PROVE  numComputed[s] \in 0 .. MaxLen /\ chunk[s] \in 0 .. MaxLen
  <2>1. /\ numComputed[s] \in Nat /\ chunk[s] \in Nat /\ numComputed[s] + chunk[s] <= Len(tokens[s])
        /\ Len(tokens[s]) \in Nat /\ Len(tokens[s]) <= MaxLen /\ MaxLen \in Nat
    BY <1>1, IInvFacts, AllocatorAssumption DEF IInv, Sized
  <2> QED
    BY <2>1
<1>5. numComputed \in [Seqs -> 0 .. MaxLen] /\ chunk \in [Seqs -> 0 .. MaxLen]
  BY <1>1, <1>4
<1> QED
  BY <1>1, <1>3, <1>5 DEF IInv, TypeOK, Memory

\* Whatever sequences are allocated, extended, forked and freed, and whatever blocks are
\* evicted for them, PrefixCachingBlockAllocator loses no block and frees none twice: a block
\* is free, evictable or held, its reference count is the number of block tables that
\* hold it, and its tracker is active exactly while it is held.
THEOREM BlocksStayAccounted == Spec => []BlocksAccounted
<1>1. IInv => BlocksAccounted
  <2> SUFFICES ASSUME IInv PROVE BlocksAccounted
    OBVIOUS
  <2>1. TypeOK
    BY IInvTypes
  <2>2. Counted(pool, table)
    BY DEF IInv, Good
  <2>3. \A b \in Blocks : References(b) = Holders(table, b)
    BY DEF References, Holders
  <2> QED
    BY <2>1, <2>2, <2>3 DEF BlocksAccounted, Counted
<1> QED
  BY <1>1, IInvHolds, PTL

\* The content index _cached_blocks, the evictor and the block tables agree: a lookup by hash
\* never returns a block with other tokens, and a full block of a table is always the one
\* the index has, so promote_to_immutable_block leaves no content in two blocks.
THEOREM IndexStaysConsistent == Spec => []IndexFollowsBlocks
<1>1. IInv => IndexFollowsBlocks
  <2> SUFFICES ASSUME IInv PROVE IndexFollowsBlocks
    OBVIOUS
  <2>1. EvictableIndexed(pool) /\ IndexBacked(pool, tokens, table) /\ FullIndexed(pool, tokens, table)
    BY DEF IInv, Good
  <2>2. \A b \in Evictable(pool) : pool.cached[pool.evictable[b]] = b
    BY <2>1 DEF EvictableIndexed, Evictable
  <2> QED
    BY <2>1, <2>2 DEF IndexFollowsBlocks, IndexBacked, FullIndexed
<1> QED
  BY <1>1, IInvHolds, PTL

-----------------------------------------------------------------------------
(* What the memory will hold after the step *)

\* The step copies to no block twice.
OneCopyPerTarget == \A c, d \in cows : c[2] = d[2] => c = d

\* The batch writes slot i of block b.
Put(b, i) ==
  \E s \in Seqs : \E pos \in numComputed[s] + 1 .. numComputed[s] + chunk[s] :
    table[s][BlockOf(pos)] = b /\ SlotOf(pos) = i

\* The copies of the step leave t in slot i of block b.
Stays(b, i, t) ==
  /\ \A a \in Blocks : <<a, b>> \in cows => kv[a][i] = t
  /\ (\A a \in Blocks : <<a, b>> \notin cows) => kv[b][i] = t

Kept(b, i, t) == Put(b, i) \/ Stays(b, i, t)

\* The step has given s its blocks, or is doing so.
Placed(s) == chunk[s] > 0 \/ s = allocating

\* Block b will be written when allocate() is done.
Pending(b) == b \in pool.touched /\ allocating # None /\ Has(table[allocating], b)

SeqKept(s) ==
  \A pos \in 1 .. numComputed[s] :
    Kept(table[s][BlockOf(pos)], SlotOf(pos), Prefix(tokens[s], pos))

HashKept(b, h) == \A i \in 1 .. BlockSize : Kept(b, i, Prefix(h, Len(h) - BlockSize + i))

CachedKept ==
  \A h \in Hashes :
    pool.cached[h] # None /\ ~Pending(pool.cached[h]) => HashKept(pool.cached[h], h)

Indexed(p, b) == \E h \in Hashes : p.cached[h] = b

\* Touched and computed blocks are in the index, and a block of the index that is
\* in use is one or the other.
Marks(p) ==
  /\ p.touched \subseteq p.active
  /\ \A b \in p.touched : b \notin p.computed /\ Indexed(p, b)
  /\ \A b \in p.computed : Indexed(p, b)
  /\ \A h \in Hashes : p.cached[h] \in p.active => p.cached[h] \in p.computed \cup p.touched

\* ComputedBlocksStored of the pool p.
Stored(p) ==
  \A h \in Hashes :
    p.cached[h] # None /\ BlockIsComputed(p, p.cached[h]) => Holds(p.cached[h], h)

TouchedPlaced == \A b \in pool.touched : \E s \in Seqs : Placed(s) /\ Has(table[s], b)

\* Without chunked prefill a step computes all the tokens that are left.
WholeChunks ==
  \A s \in Seqs :
    /\ s # allocating => numComputed[s] + chunk[s] = Len(tokens[s])
    /\ s = allocating => numComputed[s] = 0 /\ chunk[s] = 0

\* A block that is written and not full is held by one sequence.
TailsOwn ==
  \A s, r \in Seqs : \A i \in DOMAIN table[s] :
    Placed(s) /\ ~IsFull(tokens[s], i) /\ r # s => ~Has(table[r], table[s][i])

TargetsPlaced ==
  /\ cows # {} => \E s \in Seqs : chunk[s] > 0
  /\ \A c \in cows : \A s \in Seqs : \A i \in DOMAIN table[s] :
       table[s][i] = c[2] /\ ~IsFull(tokens[s], i) => Placed(s)

WInv ==
  /\ \A s \in Seqs : SeqKept(s)
  /\ CachedKept
  /\ Marks(pool) /\ Stored(pool) /\ TouchedPlaced
  /\ WholeChunks
  /\ TailsOwn
  /\ TargetsPlaced

-----------------------------------------------------------------------------
(* Positions *)

LEMMA PositionFacts ==
  ASSUME NEW pos \in Nat \ {0}
  PROVE  /\ BlockOf(pos) \in Nat \ {0} /\ SlotOf(pos) \in 1 .. BlockSize
         /\ pos = (BlockOf(pos) - 1) * BlockSize + SlotOf(pos)
         /\ pos <= BlockOf(pos) * BlockSize /\ (BlockOf(pos) - 1) * BlockSize < pos
<1> DEFINE q == (pos - 1) \div BlockSize
           r == (pos - 1) % BlockSize
<1>1. BlockSize \in Nat /\ BlockSize > 0 /\ pos - 1 \in Nat
  BY AllocatorAssumption
<1>2. q \in Nat /\ r \in 0 .. BlockSize - 1 /\ pos - 1 = q * BlockSize + r
  BY <1>1
<1>3. BlockOf(pos) = q + 1 /\ SlotOf(pos) = r + 1
  BY DEF BlockOf, SlotOf
<1> HIDE DEF q, r
<1>4. q * BlockSize \in Nat /\ (q + 1) * BlockSize = q * BlockSize + BlockSize /\ (q + 1) - 1 = q
  BY <1>2, Products
<1> QED
  BY <1>1, <1>2, <1>3, <1>4

LEMMA PositionOf ==
  ASSUME NEW j \in Nat \ {0}, NEW i \in 1 .. BlockSize, NEW pos, pos = (j - 1) * BlockSize + i
  PROVE  pos \in Nat \ {0} /\ BlockOf(pos) = j /\ SlotOf(pos) = i
<1>1. BlockSize \in Nat /\ BlockSize > 0 /\ j - 1 \in Nat /\ (j - 1) * BlockSize \in Nat
  BY Products, AllocatorAssumption
<1>2. pos \in Nat \ {0}
  BY <1>1
<1>3. /\ BlockOf(pos) \in Nat \ {0} /\ SlotOf(pos) \in 1 .. BlockSize
      /\ pos = (BlockOf(pos) - 1) * BlockSize + SlotOf(pos)
  BY <1>2, PositionFacts
<1> DEFINE k == BlockOf(pos) - 1
           l == SlotOf(pos)
           x == k * BlockSize
           y == (j - 1) * BlockSize
<1>4. k \in Nat /\ x \in Nat /\ y \in Nat /\ y + i = x + l /\ l \in 1 .. BlockSize
  BY <1>1, <1>3, Products
<1>5. ~(k < j - 1) /\ ~(j - 1 < k)
  <2>1. k < j - 1 => x + BlockSize <= y
    BY <1>1, <1>4, Products
  <2>2. j - 1 < k => y + BlockSize <= x
    BY <1>1, <1>4, Products
  <2> HIDE DEF x, y, k, l
  <2> QED
    BY <1>1, <1>4, <2>1, <2>2
<1>6. k = j - 1
  <2> HIDE DEF k
  <2> QED
    BY <1>1, <1>4, <1>5
<1>7. BlockOf(pos) = j
  <2>1. BlockOf(pos) \in Nat
    BY <1>3
  <2> QED
    BY ONLY <1>6, <2>1, j \in Nat
<1>8. SlotOf(pos) = i
  <2>1. x = y
    BY <1>6
  <2> HIDE DEF x, y
  <2>2. l = i
    BY <1>4, <2>1
  <2> QED
    BY <2>2
<1> QED
  BY <1>2, <1>7, <1>8

LEMMA PrefixOfPrefix ==
  ASSUME NEW S, NEW t \in Seq(S), NEW m \in 0 .. Len(t), NEW n \in 0 .. m
  PROVE  Prefix(Prefix(t, m), n) = Prefix(t, n)
<1>1. Len(t) \in Nat /\ m \in Nat /\ n \in Nat /\ n <= m /\ n \in 0 .. Len(t)
  BY LenProperties
<1>2. /\ Prefix(t, m) \in Seq(S) /\ Len(Prefix(t, m)) = m
      /\ \A i \in 1 .. m : Prefix(t, m)[i] = t[i]
  BY PrefixFacts
<1>3. /\ Prefix(t, n) \in Seq(S) /\ Len(Prefix(t, n)) = n
      /\ \A i \in 1 .. n : Prefix(t, n)[i] = t[i]
  BY <1>1, PrefixFacts
<1>4. n \in 0 .. Len(Prefix(t, m))
  BY <1>1, <1>2
<1>5. /\ Prefix(Prefix(t, m), n) \in Seq(S) /\ Len(Prefix(Prefix(t, m), n)) = n
      /\ \A i \in 1 .. n : Prefix(Prefix(t, m), n)[i] = Prefix(t, m)[i]
  BY <1>2, <1>4, PrefixFacts
<1>6. \A i \in 1 .. n : Prefix(Prefix(t, m), n)[i] = Prefix(t, n)[i]
  BY <1>1, <1>2, <1>3, <1>5
<1> QED
  BY <1>3, <1>5, <1>6, SeqEqual

LEMMA PrefixOfAppended ==
  ASSUME NEW S, NEW t \in Seq(S), NEW x \in S, NEW n \in 0 .. Len(t)
  PROVE  Prefix(Append(t, x), n) = Prefix(t, n)
<1>1. Len(t) \in Nat /\ Append(t, x) \in Seq(S) /\ Len(Append(t, x)) = Len(t) + 1
  BY LenProperties, AppendProperties
<1>2. \A i \in 1 .. Len(t) : Append(t, x)[i] = t[i]
  BY AppendProperties
<1>3. n \in 0 .. Len(Append(t, x))
  BY <1>1
<1>4. /\ Prefix(Append(t, x), n) \in Seq(S) /\ Len(Prefix(Append(t, x), n)) = n
      /\ \A i \in 1 .. n : Prefix(Append(t, x), n)[i] = Append(t, x)[i]
  BY <1>1, <1>3, PrefixFacts
<1>5. /\ Prefix(t, n) \in Seq(S) /\ Len(Prefix(t, n)) = n
      /\ \A i \in 1 .. n : Prefix(t, n)[i] = t[i]
  BY PrefixFacts
<1>6. \A i \in 1 .. n : Prefix(Append(t, x), n)[i] = Prefix(t, n)[i]
  BY <1>1, <1>2, <1>4, <1>5
<1> QED
  BY <1>4, <1>5, <1>6, SeqEqual

\* The table of a sequence that is not being allocated has a block for each token.
LEMMA InTable ==
  ASSUME IInv, NEW s \in Seqs, Len(table[s]) = NumBlocks(Len(tokens[s])),
         NEW pos \in 1 .. Len(tokens[s])
  PROVE  /\ BlockOf(pos) \in DOMAIN table[s] /\ BlockOf(pos) \in Nat \ {0}
         /\ SlotOf(pos) \in 1 .. BlockSize /\ table[s][BlockOf(pos)] \in Blocks
         /\ pos \in Nat \ {0}
<1> DEFINE m == Len(tokens[s])
           L == Len(table[s])
           j == BlockOf(pos)
<1>1. m \in Nat /\ L \in Nat /\ DOMAIN table[s] = 1 .. L /\ table[s] \in Seq(Blocks)
  BY IInvFacts
<1>2. m <= L * BlockSize
  BY <1>1, NumBlocksFacts
<1>3. pos \in Nat \ {0} /\ pos <= m
  BY <1>1
<1>4. j \in Nat \ {0} /\ SlotOf(pos) \in 1 .. BlockSize /\ (j - 1) * BlockSize < pos
  BY <1>3, PositionFacts
<1>5. j - 1 < L
  <2>1. j - 1 \in Nat /\ (j - 1) * BlockSize \in Nat /\ L * BlockSize \in Nat /\ BlockSize \in Nat
    BY <1>1, <1>4, Products, AllocatorAssumption
  <2>2. L < j - 1 => L * BlockSize + BlockSize <= (j - 1) * BlockSize
    BY <1>1, <2>1, Products
  <2>3. (j - 1) * BlockSize < L * BlockSize
    <3> HIDE DEF m, L, j
    <3> QED
      BY <1>1, <1>2, <1>3, <1>4, <2>1
  <2>4. L # j - 1
    BY <2>1, <2>3
  <2> HIDE DEF L, j
  <2> QED
    BY <1>1, <2>1, <2>2, <2>3, <2>4
<1>6. j \in DOMAIN table[s]
  <2> HIDE DEF L, j
  <2> QED
    BY <1>1, <1>4, <1>5
<1>7. table[s][j] \in Blocks
  BY <1>1, <1>6, ElementOfSeq
<1> QED
  BY <1>3, <1>4, <1>6, <1>7

-----------------------------------------------------------------------------
(* The marks of the pool *)

LEMMA IncrMarks ==
  ASSUME NEW p, NEW tok, NEW tab, Good(p, tok, tab), Marks(p), Stored(p),
         NEW h \in Hashes, p.cached[h] # None, NEW q, q = IncrRefcountCached(p, h)
  PROVE  Marks(q) /\ Stored(q) /\ q.touched = p.touched /\ q.cached = p.cached
<1> DEFINE b == p.cached[h]
<1>1. p \in Pools /\ b \in Blocks /\ p.ref[b] \in Nat
  BY GoodFacts DEF Good, Shaped
<1>2. CASE p.ref[b] > 0
  <2>1. q = [p EXCEPT !.ref[b] = @ + 1]
    BY <1>2 DEF IncrRefcountCached
  <2>2. /\ q.cached = p.cached /\ q.evictable = p.evictable /\ q.active = p.active
        /\ q.computed = p.computed /\ q.touched = p.touched
    BY <1>1, <2>1 DEF Pools
  <2>3. Marks(q)
    BY <2>2 DEF Marks, Indexed
  <2>4. Stored(q)
    BY <2>2 DEF Stored, BlockIsComputed, Evictable
  <2> QED BY <2>2, <2>3, <2>4
<1>3. CASE p.ref[b] = 0
  <2>1. /\ q.cached = p.cached /\ q.evictable = [p.evictable EXCEPT ![b] = None]
        /\ q.active = p.active \cup {b} /\ q.computed = p.computed \cup {b}
        /\ q.touched = p.touched
    BY <1>1, <1>3 DEF IncrRefcountCached, Pools
  <2>2. b \notin p.active /\ p.evictable[b] = h
    BY <1>1, <1>3, UnheldFacts DEF Good, Counted
  <2>3. h # None /\ p.evictable \in [Blocks -> Hashes \cup {None}]
    BY <1>1, NoneAssumption, PoolFields
  <2>4. BlockIsComputed(p, b)
    BY <1>1, <2>2, <2>3 DEF BlockIsComputed, Evictable
  <2>5. Marks(q)
    BY <2>1, <2>2 DEF Marks, Indexed
  <2>6. ASSUME NEW g \in Hashes, q.cached[g] # None, BlockIsComputed(q, q.cached[g])
        PROVE  Holds(q.cached[g], g)
    <3>1. p.cached[g] \in Blocks
      BY <2>1, <2>6, GoodFacts
    <3>2. CASE p.cached[g] = b
      BY <2>1, <2>4, <2>6, <3>2 DEF Stored
    <3>3. CASE p.cached[g] # b
      <4>1. BlockIsComputed(p, p.cached[g])
        BY <2>1, <2>3, <2>6, <3>1, <3>3 DEF BlockIsComputed, Evictable
      <4> QED BY <2>1, <2>6, <4>1 DEF Stored
    <3> QED BY <3>2, <3>3
  <2> QED BY <2>1, <2>5, <2>6 DEF Stored
<1> QED BY <1>1, <1>2, <1>3

\* A block that no table holds is taken.
LEMMA AllocateMarks ==
  ASSUME NEW p, NEW tok, NEW tab, Good(p, tok, tab), Marks(p), Stored(p),
         NEW b \in Blocks, p.ref[b] = 0, NEW q, q = AllocateBlockId(p, b)
  PROVE  /\ Marks(q) /\ Stored(q) /\ q.touched = p.touched /\ ~Indexed(q, b) /\ b \in q.active
         /\ \A h \in Hashes : q.cached[h] # None => q.cached[h] = p.cached[h]
<1>1. p \in Pools /\ b # None
  BY AllocatorAssumption DEF Good, Shaped
<1>2. /\ q.evictable = [p.evictable EXCEPT ![b] = None] /\ q.active = p.active \cup {b}
      /\ q.cached = [h \in Hashes |-> IF p.evictable[b] # None /\ h = p.evictable[b]
                                      THEN None ELSE p.cached[h]]
  BY <1>1, AllocateFacts
<1>3. q.computed = p.computed \ {b} /\ q.touched = p.touched
  BY <1>1 DEF AllocateBlockId, Pools
<1>4. b \notin p.active /\ \A h \in Hashes : p.cached[h] = b => p.evictable[b] = h
  BY <1>1, UnheldFacts DEF Good, Counted
<1>5. \A h \in Hashes : q.cached[h] # None => q.cached[h] = p.cached[h]
  BY <1>2
<1>6. ~Indexed(q, b)
  <2> SUFFICES ASSUME NEW h \in Hashes, q.cached[h] = b PROVE FALSE
    BY DEF Indexed
  <2>1. p.cached[h] = b /\ p.evictable[b] = h
    BY <1>1, <1>4, <1>5
  <2> QED BY <1>1, <1>2, <2>1, NoneAssumption
<1>8. ASSUME NEW x, x # b, Indexed(p, x) PROVE Indexed(q, x)
  <2>1. PICK h \in Hashes : p.cached[h] = x
    BY <1>8 DEF Indexed
  <2>2. ~(p.evictable[b] # None /\ h = p.evictable[b])
    BY <1>8, <2>1 DEF Good, EvictableIndexed
  <2> QED BY <1>2, <2>1, <2>2 DEF Indexed
<1>9. Marks(q)
  <2>1. q.touched \subseteq q.active
    BY <1>2, <1>3 DEF Marks
  <2>2. \A x \in q.touched : x \notin q.computed /\ Indexed(q, x)
    BY <1>3, <1>4, <1>8 DEF Marks
  <2>3. \A x \in q.computed : Indexed(q, x)
    BY <1>3, <1>8 DEF Marks
  <2>4. ASSUME NEW h \in Hashes, q.cached[h] \in q.active
        PROVE  q.cached[h] \in q.computed \cup q.touched
    <3>0. None \notin q.active
      BY <1>1, <1>2, PoolFields, AllocatorAssumption
    <3>1. q.cached[h] = p.cached[h] /\ q.cached[h] # b
      BY <2>4, <3>0, <1>5, <1>6 DEF Indexed
    <3> QED BY <2>4, <3>1, <1>2, <1>3 DEF Marks
  <2> QED BY <2>1, <2>2, <2>3, <2>4 DEF Marks
<1>10. ASSUME NEW g \in Hashes, q.cached[g] # None, BlockIsComputed(q, q.cached[g])
       PROVE  Holds(q.cached[g], g)
  <2>1. q.cached[g] = p.cached[g] /\ q.cached[g] # b /\ q.cached[g] \in Blocks
    BY <1>10, <1>5, <1>6, GoodFacts DEF Indexed
  <2>2. BlockIsComputed(p, p.cached[g])
    BY <1>1, <1>2, <1>3, <1>10, <2>1, PoolFields DEF BlockIsComputed, Evictable
  <2> QED BY <1>10, <2>1, <2>2 DEF Stored
<1> QED BY <1>2, <1>3, <1>5, <1>6, <1>9, <1>10 DEF Stored

\* One reference to a block that is not in the index is given up.
LEMMA DecrMarks ==
  ASSUME NEW p, NEW tok, NEW tab, Good(p, tok, tab), Marks(p), Stored(p),
         NEW b \in Blocks, p.ref[b] # 0, ~Indexed(p, b), NEW q, q = DecrRefcountHashless(p, b)
  PROVE  /\ Marks(q) /\ Stored(q) /\ q.touched = p.touched /\ q.cached = p.cached
         /\ ~Indexed(q, b)
<1>1. p \in Pools /\ p.ref[b] \in Nat
  BY PoolFields DEF Good, Shaped
<1>2. /\ q.cached = p.cached /\ q.evictable = p.evictable
      /\ q.active = (IF p.ref[b] = 1 THEN p.active \ {b} ELSE p.active)
  BY <1>1, DecrFacts
<1>3. /\ q.computed = (IF p.ref[b] = 1 THEN p.computed \ {b} ELSE p.computed)
      /\ q.touched = p.touched
  BY <1>1 DEF DecrRefcountHashless, Pools
<1>4. b \notin p.touched /\ b \notin p.computed
  BY DEF Marks
<1>5. Marks(q)
  BY <1>2, <1>3, <1>4 DEF Marks, Indexed
<1>6. ASSUME NEW g \in Hashes, q.cached[g] # None, BlockIsComputed(q, q.cached[g])
      PROVE  Holds(q.cached[g], g)
  <2>1. p.cached[g] # b
    BY DEF Indexed
  <2>2. BlockIsComputed(p, p.cached[g])
    BY <1>2, <1>3, <1>6, <2>1 DEF BlockIsComputed, Evictable
  <2> QED BY <1>2, <1>6, <2>2 DEF Stored
<1> QED BY <1>2, <1>3, <1>5, <1>6 DEF Stored, Indexed

\* A block in use enters the index.
LEMMA RegisterMarks ==
  ASSUME NEW p \in Pools, Marks(p), Stored(p),
         NEW b \in Blocks, b \in p.active, ~Indexed(p, b),
         NEW h \in Hashes, p.cached[h] = None, NEW q, q = PromoteToImmutable(p, b, h)
  PROVE  /\ Marks(q) /\ Stored(q) /\ q.touched = p.touched \cup {b}
         /\ q.cached = [p.cached EXCEPT ![h] = b]
<1>1. p \in Pools /\ b # None
  BY AllocatorAssumption
<1>2. /\ q.cached = [p.cached EXCEPT ![h] = b] /\ q.active = p.active /\ q.evictable = p.evictable
  BY <1>1, RegisterFacts
<1>3. q.computed = p.computed /\ q.touched = p.touched \cup {b}
  BY <1>1 DEF PromoteToImmutable, Pools
<1>4. b \notin p.computed
  BY DEF Marks
<1>5. /\ q.cached[h] = b /\ \A g \in Hashes : g # h => q.cached[g] = p.cached[g]
  BY <1>1, <1>2, PoolFields
<1>6. \A x : Indexed(p, x) /\ x # None => Indexed(q, x)
  BY <1>5 DEF Indexed
<1>7. Marks(q)
  <2>1. None \notin p.active /\ None \notin p.computed /\ None \notin p.touched
    BY <1>1, PoolFields, AllocatorAssumption
  <2>2. Indexed(q, b)
    BY <1>5 DEF Indexed
  <2>3. \A x \in q.touched : x \notin q.computed /\ Indexed(q, x)
    BY <1>3, <1>4, <1>6, <2>1, <2>2 DEF Marks
  <2>4. \A x \in q.computed : Indexed(q, x)
    BY <1>3, <1>6, <2>1 DEF Marks
  <2>5. \A g \in Hashes : q.cached[g] \in q.active => q.cached[g] \in q.computed \cup q.touched
    BY <1>2, <1>3, <1>5 DEF Marks
  <2>6. q.touched \subseteq q.active
    BY <1>2, <1>3 DEF Marks
  <2> QED BY <2>3, <2>4, <2>5, <2>6 DEF Marks
<1>8. ASSUME NEW g \in Hashes, q.cached[g] # None, BlockIsComputed(q, q.cached[g])
      PROVE  Holds(q.cached[g], g)
  <2>1. q.cached[g] # b
    BY <1>2, <1>3, <1>4, <1>8 DEF BlockIsComputed
  <2>2. q.cached[g] = p.cached[g]
    BY <1>5, <2>1
  <2>3. BlockIsComputed(p, p.cached[g])
    BY <1>2, <1>3, <1>8, <2>2 DEF BlockIsComputed, Evictable
  <2> QED BY <1>8, <2>2, <2>3 DEF Stored
<1> QED BY <1>2, <1>3, <1>7, <1>8 DEF Stored

-----------------------------------------------------------------------------
(* The end of the step *)

LEMMA WInvFacts ==
  ASSUME WInv
  PROVE  /\ \A s \in Seqs : SeqKept(s)
         /\ CachedKept /\ Marks(pool) /\ Stored(pool) /\ TouchedPlaced /\ WholeChunks
         /\ TailsOwn /\ TargetsPlaced
BY DEF WInv

\* A sequence that is scheduled has all its blocks.
LEMMA ScheduledSized ==
  ASSUME IInv, WholeChunks, NEW r \in Seqs, chunk[r] > 0 \/ numComputed[r] > 0
  PROVE  /\ r # allocating /\ Len(table[r]) = NumBlocks(Len(tokens[r]))
         /\ numComputed[r] + chunk[r] = Len(tokens[r]) /\ numComputed[r] \in Nat /\ chunk[r] \in Nat
<1>1. numComputed[r] \in Nat /\ chunk[r] \in Nat /\ Sized(r)
  BY IInvFacts DEF IInv
<1>2. r # allocating
  BY <1>1 DEF WholeChunks
<1> QED BY <1>1, <1>2 DEF WholeChunks, Sized

\* What the batch writes to a slot in which s has a token is the prefix up to it.
LEMMA PutAgrees ==
  ASSUME IInv, WholeChunks, TailsOwn,
         NEW s \in Seqs, Len(table[s]) = NumBlocks(Len(tokens[s])), NEW pos \in 1 .. Len(tokens[s]),
         NEW r \in Seqs, NEW at \in numComputed[r] + 1 .. numComputed[r] + chunk[r],
         table[r][BlockOf(at)] = table[s][BlockOf(pos)], SlotOf(at) = SlotOf(pos)
  PROVE  Prefix(tokens[r], at) = Prefix(tokens[s], pos)
<1>1. numComputed[r] \in Nat /\ chunk[r] \in Nat
  BY IInvFacts
<1>2. chunk[r] > 0
  BY <1>1
<1>3. Len(table[r]) = NumBlocks(Len(tokens[r])) /\ numComputed[r] + chunk[r] = Len(tokens[r])
  BY <1>2, ScheduledSized
<1>4. at \in 1 .. Len(tokens[r])
  BY <1>1, <1>3
<1>5. BlockOf(at) \in DOMAIN table[r] /\ at \in Nat \ {0}
  BY <1>3, <1>4, InTable
<1>6. BlockOf(pos) \in DOMAIN table[s] /\ pos \in Nat \ {0} /\ BlockOf(pos) \in Nat \ {0}
  BY InTable
<1> DEFINE j == BlockOf(pos)
<1>7. /\ BlockOf(at) = j /\ (IsFull(tokens[s], j) <=> IsFull(tokens[r], j))
      /\ IsFull(tokens[s], j) => HashAt(tokens[s], j) = HashAt(tokens[r], j)
  BY <1>5, <1>6 DEF IInv, Good, SamePlace
<1>8. at = pos
  <2>1. at = (BlockOf(at) - 1) * BlockSize + SlotOf(at)
    BY <1>5, PositionFacts
  <2>2. pos = (BlockOf(pos) - 1) * BlockSize + SlotOf(pos)
    BY <1>6, PositionFacts
  <2> QED BY <1>7, <2>1, <2>2
<1>9. CASE IsFull(tokens[s], j)
  <2>1. j * BlockSize \in 0 .. Len(tokens[s]) /\ j * BlockSize \in 0 .. Len(tokens[r])
    <3>1. tokens[s] \in SeqsUpTo(MaxLen) /\ tokens[r] \in SeqsUpTo(MaxLen)
      BY IInvFacts
    <3> QED BY <1>6, <1>7, <1>9, <3>1, HashFacts
  <2>2. pos \in 0 .. j * BlockSize
    BY <1>6, <2>1, PositionFacts
  <2>3. tokens[s] \in Seq(Tokens) /\ tokens[r] \in Seq(Tokens)
    BY IInvFacts
  <2>4. Prefix(HashAt(tokens[s], j), pos) = Prefix(tokens[s], pos)
    BY <2>1, <2>2, <2>3, PrefixOfPrefix DEF HashAt
  <2>5. Prefix(HashAt(tokens[r], j), pos) = Prefix(tokens[r], pos)
    BY <2>1, <2>2, <2>3, PrefixOfPrefix DEF HashAt
  <2> QED BY <1>7, <1>8, <1>9, <2>4, <2>5
<1>10. CASE ~IsFull(tokens[s], j)
  <2>1. Placed(r)
    BY <1>2 DEF Placed
  <2>2. Has(table[s], table[r][j])
    BY <1>6, <1>7 DEF Has
  <2>3. r = s
    BY <1>5, <1>7, <1>10, <2>1, <2>2 DEF TailsOwn
  <2> QED BY <1>8, <2>3
<1> QED BY <1>9, <1>10

\* What the batch writes to a block of the index is its content.
LEMMA PutMatches ==
  ASSUME IInv, WholeChunks, NEW h \in Hashes, NEW i,
         NEW r \in Seqs, NEW at \in numComputed[r] + 1 .. numComputed[r] + chunk[r],
         table[r][BlockOf(at)] = pool.cached[h], SlotOf(at) = i
  PROVE  Prefix(tokens[r], at) = Prefix(h, Len(h) - BlockSize + i)
<1>1. numComputed[r] \in Nat /\ chunk[r] \in Nat
  BY IInvFacts
<1>2. chunk[r] > 0
  BY <1>1
<1>3. Len(table[r]) = NumBlocks(Len(tokens[r])) /\ numComputed[r] + chunk[r] = Len(tokens[r])
  BY <1>2, ScheduledSized
<1>4. at \in 1 .. Len(tokens[r])
  BY <1>1, <1>3
<1> DEFINE j == BlockOf(at)
<1>5. j \in DOMAIN table[r] /\ at \in Nat \ {0} /\ j \in Nat \ {0}
  BY <1>3, <1>4, InTable
<1>6. IsFull(tokens[r], j) /\ h = HashAt(tokens[r], j)
  BY <1>5, HeldFacts DEF IInv
<1>7. tokens[r] \in SeqsUpTo(MaxLen) /\ tokens[r] \in Seq(Tokens)
  BY IInvFacts
<1>8. Len(h) = j * BlockSize /\ j * BlockSize \in 0 .. Len(tokens[r])
  BY <1>5, <1>6, <1>7, HashFacts
<1>9. at \in 0 .. j * BlockSize
  BY <1>5, <1>8, PositionFacts
<1>10. Prefix(h, at) = Prefix(tokens[r], at)
  BY <1>6, <1>7, <1>8, <1>9, PrefixOfPrefix DEF HashAt
<1>11. at = Len(h) - BlockSize + i
  <2>1. at = (j - 1) * BlockSize + i
    BY <1>5, PositionFacts
  <2>2. (j - 1) * BlockSize = j * BlockSize - BlockSize
    BY <1>5, Products
  <2> QED BY <1>8, <2>1, <2>2
<1> QED BY <1>10, <1>11

\* The end of the step leaves in a slot what is kept there.
LEMMA ForwardCell ==
  ASSUME IInv, NEW f \in CopySources, NEW w \in WriteChoices,
         NEW b \in Blocks, NEW i \in 1 .. BlockSize, NEW t, Kept(b, i, t),
         \A r \in Seqs : \A at \in numComputed[r] + 1 .. numComputed[r] + chunk[r] :
           table[r][BlockOf(at)] = b /\ SlotOf(at) = i => Prefix(tokens[r], at) = t
  PROVE  AfterForward(AfterCopies(f), w)[b][i] = t
<1> DEFINE c == <<b, i>>
           W == Written(c)
<1>1. \A u \in W : u = t
  <2> SUFFICES ASSUME NEW x \in Writes, <<x.block, x.slot>> = c PROVE x.content = t
    BY DEF Written
  <2>1. PICK s \in Scheduled : x \in {Write(s, pos) : pos \in numComputed[s] + 1 .. numComputed[s] + chunk[s]}
    BY DEF Writes
  <2>2. PICK pos \in numComputed[s] + 1 .. numComputed[s] + chunk[s] : x = Write(s, pos)
    BY <2>1
  <2>3. s \in Seqs /\ table[s][BlockOf(pos)] = b /\ SlotOf(pos) = i /\ x.content = Prefix(tokens[s], pos)
    BY <2>1, <2>2 DEF Scheduled, Write
  <2> QED BY <2>2, <2>3
<1>2. ASSUME W = {} PROVE Stays(b, i, t)
  <2> SUFFICES ASSUME NEW s \in Seqs, NEW pos \in numComputed[s] + 1 .. numComputed[s] + chunk[s],
                      table[s][BlockOf(pos)] = b, SlotOf(pos) = i
               PROVE  FALSE
    BY DEF Kept, Put
  <2>1. s \in Scheduled
    BY IInvFacts DEF Scheduled
  <2>2. Write(s, pos) \in Writes
    BY <2>1 DEF Writes
  <2>3. <<Write(s, pos).block, Write(s, pos).slot>> = c
    BY DEF Write
  <2>4. Write(s, pos).content \in W
    BY <2>2, <2>3 DEF Written
  <2> QED BY <1>2, <2>4
<1> HIDE DEF W
<1>3. ASSUME Stays(b, i, t) PROVE AfterCopies(f)[b][i] = t
  <2>1. AfterCopies(f)[b] = IF b \in DOMAIN f THEN kv[f[b]] ELSE kv[b]
    BY DEF AfterCopies
  <2>2. CASE b \in DOMAIN f
    <3>1. f[b] \in Blocks /\ <<f[b], b>> \in cows
      BY <2>2 DEF CopySources
    <3> QED BY <1>3, <2>1, <2>2, <3>1 DEF Stays
  <2>3. CASE b \notin DOMAIN f
    <3>1. \A a \in Blocks : <<a, b>> \notin cows
      <4> SUFFICES ASSUME NEW a \in Blocks, <<a, b>> \in cows PROVE b \in DOMAIN f
        BY <2>3
      <4>1. <<a, b>>[2] = b
        OBVIOUS
      <4> QED BY <4>1 DEF CopySources
    <3> QED BY <1>3, <2>1, <2>3, <3>1 DEF Stays
  <2> QED BY <2>2, <2>3
<1> DEFINE mem == AfterCopies(f)
<1> HIDE DEF mem
<1>4. AfterForward(mem, w)[b][i] =
        CASE c \in Contested -> w[c]
          [] W = {}          -> mem[b][i]
          [] OTHER           -> CHOOSE u \in W : TRUE
  BY DEF AfterForward, W
<1>5. CASE c \in Contested
  <2>1. w[c] \in W /\ W # {}
    BY <1>5 DEF WriteChoices, W
  <2> QED BY <1>1, <1>4, <1>5, <2>1 DEF mem
<1>6. CASE c \notin Contested /\ W = {}
  <2>1. AfterForward(mem, w)[b][i] = mem[b][i]
    BY <1>4, <1>6
  <2> QED BY <1>2, <1>3, <1>6, <2>1 DEF mem
<1>7. CASE c \notin Contested /\ W # {}
  <2>1. (CHOOSE u \in W : TRUE) \in W
    BY <1>7
  <2>2. AfterForward(mem, w)[b][i] = CHOOSE u \in W : TRUE
    BY <1>4, <1>7
  <2> QED BY <1>1, <2>1, <2>2 DEF mem
<1> QED BY <1>5, <1>6, <1>7

LEMMA ExecuteWInv ==
  ASSUME IInv, WInv, Execute
  PROVE  WInv'
<1>1. /\ pool' = MarkBlocksAsComputed(pool) /\ allocating = None /\ allocating' = None
      /\ numComputed' = [s \in Seqs |-> numComputed[s] + chunk[s]]
      /\ chunk' = [s \in Seqs |-> 0] /\ cows' = {} /\ UNCHANGED <<chunked, tokens, table>>
  BY DEF Execute
<1>2. PICK f \in CopySources, w \in WriteChoices : kv' = AfterForward(AfterCopies(f), w)
  BY DEF Execute
<1>3. /\ \A s \in Seqs : SeqKept(s)
      /\ CachedKept /\ Marks(pool) /\ Stored(pool) /\ TouchedPlaced /\ WholeChunks /\ TailsOwn
  BY WInvFacts
<1>4. pool \in Pools /\ IInv' /\ None \notin Seqs
  BY IInvFacts, ExecuteStep, AllocatorAssumption
<1>5. /\ pool'.computed = pool.computed \cup pool.touched /\ pool'.touched = {}
      /\ pool'.cached = pool.cached /\ pool'.active = pool.active /\ pool'.evictable = pool.evictable
  BY <1>1, <1>4 DEF MarkBlocksAsComputed, Pools
<1>6. ASSUME NEW b, NEW i, NEW t, kv'[b][i] = t PROVE Kept(b, i, t)'
  BY <1>1, <1>6 DEF Kept, Stays
<1>7. ASSUME NEW s \in Seqs PROVE SeqKept(s)'
  <2>1. /\ numComputed'[s] = Len(tokens[s]) /\ numComputed[s] \in Nat /\ chunk[s] \in Nat
        /\ numComputed[s] + chunk[s] = Len(tokens[s])
        /\ Len(table[s]) = NumBlocks(Len(tokens[s])) /\ Len(tokens[s]) \in Nat
    BY <1>1, <1>3, <1>4, IInvFacts DEF WholeChunks, IInv, Sized
  <2> SUFFICES ASSUME NEW pos \in 1 .. Len(tokens[s])
               PROVE  Kept(table[s][BlockOf(pos)], SlotOf(pos), Prefix(tokens[s], pos))'
    BY <2>1 DEF SeqKept
  <2>2. table[s][BlockOf(pos)] \in Blocks /\ SlotOf(pos) \in 1 .. BlockSize
    BY <2>1, InTable
  <2>3. Kept(table[s][BlockOf(pos)], SlotOf(pos), Prefix(tokens[s], pos))
    <3>1. CASE pos \in 1 .. numComputed[s]
      BY <1>3, <3>1 DEF SeqKept
    <3>2. CASE pos \in numComputed[s] + 1 .. numComputed[s] + chunk[s]
      BY <3>2 DEF Kept, Put
    <3> QED BY <2>1, <3>1, <3>2
  <2>4. \A r \in Seqs : \A at \in numComputed[r] + 1 .. numComputed[r] + chunk[r] :
          table[r][BlockOf(at)] = table[s][BlockOf(pos)] /\ SlotOf(at) = SlotOf(pos)
            => Prefix(tokens[r], at) = Prefix(tokens[s], pos)
    BY <1>3, <2>1, PutAgrees
  <2>5. kv'[table[s][BlockOf(pos)]][SlotOf(pos)] = Prefix(tokens[s], pos)
    BY <1>2, <2>2, <2>3, <2>4, ForwardCell
  <2> QED BY <1>1, <1>6, <2>5
<1>8. ASSUME NEW h \in Hashes, pool.cached[h] # None, NEW i \in 1 .. BlockSize
      PROVE  kv'[pool.cached[h]][i] = Prefix(h, Len(h) - BlockSize + i)
  <2>1. pool.cached[h] \in Blocks
    BY <1>4, <1>8, PoolFields
  <2>2. ~Pending(pool.cached[h])
    BY <1>1 DEF Pending
  <2>3. Kept(pool.cached[h], i, Prefix(h, Len(h) - BlockSize + i))
    BY <1>3, <1>8, <2>2 DEF CachedKept, HashKept
  <2>4. \A r \in Seqs : \A at \in numComputed[r] + 1 .. numComputed[r] + chunk[r] :
          table[r][BlockOf(at)] = pool.cached[h] /\ SlotOf(at) = i
            => Prefix(tokens[r], at) = Prefix(h, Len(h) - BlockSize + i)
    BY <1>3, PutMatches
  <2> QED BY <1>2, <2>1, <2>3, <2>4, ForwardCell
<1>9. CachedKept'
  BY <1>5, <1>6, <1>8 DEF CachedKept, HashKept
<1>10. Stored(pool)'
  BY <1>5, <1>8 DEF Stored, Holds
<1>11. Marks(pool)'
  BY <1>3, <1>5 DEF Marks, Indexed
<1>12. TouchedPlaced'
  BY <1>5 DEF TouchedPlaced
<1>13. WholeChunks'
  <2> SUFFICES ASSUME NEW s \in Seqs PROVE numComputed'[s] + chunk'[s] = Len(tokens'[s])
    BY <1>1, <1>4 DEF WholeChunks
  <2>1. numComputed[s] + chunk[s] = Len(tokens[s]) /\ numComputed[s] \in Nat /\ chunk[s] \in Nat
    BY <1>1, <1>3, <1>4, IInvFacts DEF WholeChunks
  <2> QED BY <1>1, <2>1
<1>14. \A s \in Seqs : ~Placed(s)'
  BY <1>1, <1>4 DEF Placed
<1>15. TailsOwn' /\ TargetsPlaced'
  BY <1>1, <1>14 DEF TailsOwn, TargetsPlaced
<1> QED BY <1>7, <1>9, <1>10, <1>11, <1>12, <1>13, <1>15 DEF WInv

-----------------------------------------------------------------------------
(* The steps before it *)

\* A sequence that is scheduled stays as it is.
BusyStay ==
  \A r \in Seqs : chunk[r] > 0 =>
    /\ table'[r] = table[r] /\ tokens'[r] = tokens[r]
    /\ numComputed'[r] = numComputed[r] /\ chunk'[r] = chunk[r]

LEMMA KeptStays ==
  ASSUME IInv, BusyStay, kv' = kv, NEW b, NEW i, NEW t,
         \A a \in Blocks : <<a, b>> \in cows' <=> <<a, b>> \in cows, Kept(b, i, t)
  PROVE  Kept(b, i, t)'
<1>1. CASE Put(b, i)
  <2>1. PICK s \in Seqs : \E pos \in numComputed[s] + 1 .. numComputed[s] + chunk[s] :
          table[s][BlockOf(pos)] = b /\ SlotOf(pos) = i
    BY <1>1 DEF Put
  <2>2. chunk[s] > 0
    BY <2>1, IInvFacts
  <2>3. table'[s] = table[s] /\ numComputed'[s] = numComputed[s] /\ chunk'[s] = chunk[s]
    BY <2>2 DEF BusyStay
  <2> QED BY <2>1, <2>3 DEF Kept, Put
<1>2. CASE Stays(b, i, t)
  BY <1>2 DEF Stays, Kept
<1> QED BY <1>1, <1>2 DEF Kept

\* What is kept stays so, if the copies do.
LEMMA AllKeptStays ==
  ASSUME IInv, BusyStay, kv' = kv, cows' = cows, NEW b, NEW i, NEW t, Kept(b, i, t)
  PROVE  Kept(b, i, t)'
BY KeptStays

LEMMA InitWInv == Init => WInv
<1> SUFFICES ASSUME Init PROVE WInv
  OBVIOUS
<1>1. /\ \A s \in Seqs : table[s] = << >> /\ tokens[s] = << >> /\ numComputed[s] = 0 /\ chunk[s] = 0
      /\ allocating = None /\ cows = {} /\ None \notin Seqs
      /\ \A h \in Hashes : pool.cached[h] = None
      /\ pool.active = {} /\ pool.computed = {} /\ pool.touched = {}
  BY AllocatorAssumption DEF Init
<1>2. \A s \in Seqs : SeqKept(s)
  BY <1>1 DEF SeqKept
<1>3. CachedKept /\ Stored(pool) /\ Marks(pool) /\ TouchedPlaced
  BY <1>1 DEF CachedKept, Stored, Marks, TouchedPlaced
<1>4. WholeChunks
  BY <1>1 DEF WholeChunks
<1>5. TailsOwn /\ TargetsPlaced
  BY <1>1 DEF TailsOwn, TargetsPlaced
<1> QED BY <1>2, <1>3, <1>4, <1>5 DEF WInv

LEMMA BeginAllocateWInv ==
  ASSUME IInv, WInv, NEW s \in Seqs, NEW prompt \in Prompts, BeginAllocate(s, prompt)
  PROVE  WInv'
<1>1. /\ allocating = None /\ allocating' = s /\ tokens' = [tokens EXCEPT ![s] = prompt]
      /\ UNCHANGED <<chunked, pool, table, numComputed, chunk, cows, kv>>
      /\ tokens[s] = << >>
  BY DEF BeginAllocate
<1>2. table[s] = << >> /\ numComputed[s] = 0 /\ chunk[s] = 0 /\ DOMAIN table[s] = {}
  BY <1>1, NoTable
<1>3. /\ tokens \in [Seqs -> SeqsUpTo(MaxLen)] /\ None \notin Seqs
      /\ \A r \in Seqs : r # s => tokens'[r] = tokens[r]
  BY <1>1, IInvFacts, AllocatorAssumption
<1>4. /\ \A r \in Seqs : SeqKept(r)
      /\ CachedKept /\ Marks(pool) /\ Stored(pool) /\ TouchedPlaced /\ WholeChunks /\ TailsOwn
      /\ TargetsPlaced
  BY WInvFacts
<1>5. BusyStay
  BY <1>1, <1>2, <1>3 DEF BusyStay
<1>6. ASSUME NEW b, NEW i, NEW t, Kept(b, i, t) PROVE Kept(b, i, t)'
  BY <1>1, <1>5, <1>6, AllKeptStays
<1>7. ASSUME NEW r \in Seqs PROVE SeqKept(r)'
  <2>1. CASE r = s
    BY <1>1, <1>2, <2>1 DEF SeqKept
  <2>2. CASE r # s
    BY <1>1, <1>3, <1>4, <1>6, <2>2 DEF SeqKept
  <2> QED BY <2>1, <2>2
<1>8. CachedKept'
  <2>1. \A b : ~Pending(b)
    BY <1>1 DEF Pending
  <2> QED BY <1>1, <1>4, <1>6, <2>1 DEF CachedKept, HashKept
<1>9. Marks(pool)' /\ Stored(pool)'
  BY <1>1, <1>4 DEF Stored, Holds
<1>10. \A r \in Seqs : Placed(r) => Placed(r)'
  BY <1>1, <1>3 DEF Placed
<1>11. TouchedPlaced'
  BY <1>1, <1>4, <1>10 DEF TouchedPlaced
<1>12. WholeChunks'
  BY <1>1, <1>2, <1>3, <1>4 DEF WholeChunks
<1>13. TailsOwn'
  <2>1. \A r \in Seqs : r # s /\ Placed(r)' => Placed(r)
    BY <1>1 DEF Placed
  <2> QED BY <1>1, <1>2, <1>3, <1>4, <2>1 DEF TailsOwn
<1>14. TargetsPlaced'
  BY <1>1, <1>2, <1>3, <1>4, <1>10 DEF TargetsPlaced
<1> QED BY <1>7, <1>8, <1>9, <1>11, <1>12, <1>13, <1>14 DEF WInv

\* allocate() has put block b into the table of s: one of the index, one that it has just
\* put there, or the partial tail.
Allotted(s, b) ==
  /\ allocating = s
  /\ table' = [table EXCEPT ![s] = Append(@, b)]
  /\ UNCHANGED <<chunked, tokens, numComputed, chunk, allocating, cows, kv>>
  /\ Marks(pool') /\ Stored(pool')
  /\ pool.touched \subseteq pool'.touched /\ pool'.touched \subseteq pool.touched \cup {b}
  /\ \A h \in Hashes : pool'.cached[h] # None =>
       pool'.cached[h] = pool.cached[h] \/ (pool'.cached[h] = b /\ b \in pool'.touched)
  /\ ~IsFull(tokens[s], Len(table[s]) + 1) => \A r \in Seqs : ~Has(table[r], b)

LEMMA AllocatedWInv ==
  ASSUME IInv, WInv, IInv', NEW s \in Seqs, NEW b \in Blocks, Allotted(s, b)
  PROVE  WInv'
<1>0. /\ allocating = s
      /\ table' = [table EXCEPT ![s] = Append(@, b)]
      /\ UNCHANGED <<chunked, tokens, numComputed, chunk, allocating, cows, kv>>
      /\ Marks(pool') /\ Stored(pool')
      /\ pool.touched \subseteq pool'.touched /\ pool'.touched \subseteq pool.touched \cup {b}
      /\ \A h \in Hashes : pool'.cached[h] # None =>
           pool'.cached[h] = pool.cached[h] \/ (pool'.cached[h] = b /\ b \in pool'.touched)
      /\ ~IsFull(tokens[s], Len(table[s]) + 1) => \A r \in Seqs : ~Has(table[r], b)
  BY DEF Allotted
<1> USE <1>0
<1> DEFINE L == Len(table[s])
<1>1. /\ table \in [Seqs -> Seq(Blocks)] /\ table[s] \in Seq(Blocks) /\ L \in Nat
      /\ DOMAIN table[s] = 1 .. L /\ None \notin Seqs
  BY IInvFacts, AllocatorAssumption
<1>2. /\ table'[s] = Append(table[s], b) /\ \A r \in Seqs : r # s => table'[r] = table[r]
  BY <1>1
<1>3. /\ DOMAIN table'[s] = 1 .. L + 1 /\ table'[s][L + 1] = b
      /\ \A i \in 1 .. L : table'[s][i] = table[s][i]
  <2>1. Append(table[s], b) \in Seq(Blocks) /\ Len(Append(table[s], b)) = L + 1
        /\ Append(table[s], b)[L + 1] = b
    BY <1>1, AppendProperties
  <2>2. \A i \in 1 .. L : Append(table[s], b)[i] = table[s][i]
    BY <1>1, AppendProperties
  <2>3. DOMAIN Append(table[s], b) = 1 .. L + 1
    BY <2>1, LenProperties
  <2> QED BY <1>2, <2>1, <2>2, <2>3
<1>4. /\ \A r \in Seqs : SeqKept(r)
      /\ CachedKept /\ TouchedPlaced /\ WholeChunks /\ TailsOwn /\ TargetsPlaced
  BY WInvFacts
<1>5. numComputed[s] = 0 /\ chunk[s] = 0
  BY <1>4 DEF WholeChunks
<1>6. BusyStay
  BY <1>2, <1>5 DEF BusyStay
<1>7. ASSUME NEW x, NEW i, NEW t, Kept(x, i, t) PROVE Kept(x, i, t)'
  BY <1>6, <1>7, AllKeptStays
<1>8. ASSUME NEW r \in Seqs PROVE SeqKept(r)'
  <2>1. CASE r = s
    BY <1>5, <2>1 DEF SeqKept
  <2>2. CASE r # s
    BY <1>2, <1>4, <1>7, <2>2 DEF SeqKept
  <2> QED BY <2>1, <2>2
<1>9. \A r \in Seqs : \A x : Has(table[r], x) => Has(table'[r], x)
  <2> SUFFICES ASSUME NEW r \in Seqs, NEW x, Has(table[r], x) PROVE Has(table'[r], x)
    OBVIOUS
  <2>1. CASE r = s
    BY <1>1, <1>3, <2>1 DEF Has
  <2>2. CASE r # s
    BY <1>2, <2>2
  <2> QED BY <2>1, <2>2
<1>10. Has(table'[s], b)
  <2>1. L + 1 \in DOMAIN table'[s] /\ table'[s][L + 1] = b
    BY ONLY <1>1, <1>3
  <2> QED BY ONLY <2>1 DEF Has
<1>11. CachedKept'
  <2> SUFFICES ASSUME NEW h \in Hashes, pool'.cached[h] # None, ~Pending(pool.cached[h])'
               PROVE  HashKept(pool.cached[h], h)'
    BY DEF CachedKept
  <2>1. ~(pool'.cached[h] = b /\ b \in pool'.touched)
    BY <1>1, <1>10 DEF Pending
  <2>2. pool'.cached[h] = pool.cached[h]
    BY <2>1
  <2>3. ~Pending(pool.cached[h])
    BY <1>1, <1>9, <2>2 DEF Pending
  <2>4. HashKept(pool.cached[h], h)
    BY <1>4, <2>2, <2>3 DEF CachedKept
  <2> QED BY <1>7, <2>2, <2>4 DEF HashKept
<1>12. \A r \in Seqs : Placed(r)' <=> Placed(r)
  BY DEF Placed
<1>13. TouchedPlaced'
  <2> SUFFICES ASSUME NEW x \in pool'.touched PROVE \E r \in Seqs : Placed(r)' /\ Has(table'[r], x)
    BY DEF TouchedPlaced
  <2>1. CASE x = b
    BY <2>1, <1>10 DEF Placed
  <2>2. CASE x \in pool.touched
    BY <2>2, <1>4, <1>9, <1>12 DEF TouchedPlaced
  <2> QED BY <2>1, <2>2
<1>14. Stored(pool)'
  BY DEF Stored, Holds
<1>15. WholeChunks'
  BY <1>4 DEF WholeChunks
<1>16. TailsOwn'
  <2> SUFFICES ASSUME NEW r \in Seqs, NEW q \in Seqs, NEW i \in DOMAIN table'[r],
                      Placed(r), ~IsFull(tokens[r], i), q # r, Has(table'[q], table'[r][i])
               PROVE  FALSE
    BY <1>12 DEF TailsOwn
  <2>1. PICK j \in DOMAIN table'[q] : table'[q][j] = table'[r][i]
    BY DEF Has
  <2>2. i = j /\ ~IsFull(tokens[q], j)
    <3>1. SamePlace(tokens', table')
      BY DEF IInv, Good
    <3> QED BY <2>1, <3>1 DEF SamePlace
  <2>3. CASE r = s
    <3>1. table'[q] = table[q]
      BY <1>2, <2>3
    <3>2. CASE i = L + 1
      BY <1>3, <2>3, <3>1, <3>2
    <3>3. CASE i \in 1 .. L
      BY <1>1, <1>3, <1>4, <2>3, <3>1, <3>3 DEF TailsOwn
    <3> QED BY <1>1, <1>3, <2>3, <3>2, <3>3
  <2>4. CASE r # s /\ q = s
    <3>1. table'[r] = table[r]
      BY <1>2, <2>4
    <3>2. CASE j = L + 1
      <4>1. Has(table[r], b)
        BY <1>3, <2>1, <2>4, <3>1, <3>2 DEF Has
      <4> QED BY <2>2, <2>4, <3>2, <4>1
    <3>3. CASE j \in 1 .. L
      <4>1. Has(table[s], table[r][i])
        BY <1>1, <1>3, <2>1, <2>4, <3>1, <3>3 DEF Has
      <4> QED BY <1>4, <2>4, <3>1, <4>1 DEF TailsOwn
    <3> QED BY <1>1, <1>3, <2>4, <3>2, <3>3
  <2>5. CASE r # s /\ q # s
    BY <1>2, <1>4, <2>5 DEF TailsOwn
  <2> QED BY <2>3, <2>4, <2>5
<1>17. TargetsPlaced'
  <2>1. ASSUME NEW c \in cows, NEW r \in Seqs, NEW i \in DOMAIN table'[r],
               table'[r][i] = c[2], ~IsFull(tokens[r], i)
        PROVE  Placed(r)'
    <3>1. CASE r = s
      BY <3>1 DEF Placed
    <3>2. CASE r # s
      BY <1>2, <1>4, <1>12, <2>1, <3>2 DEF TargetsPlaced
    <3> QED BY <3>1, <3>2
  <2> QED BY <1>4, <2>1 DEF TargetsPlaced
<1> QED BY <1>8, <1>11, <1>13, <1>14, <1>15, <1>16, <1>17 DEF WInv

LEMMA AllocateHitWInv ==
  ASSUME IInv, WInv, NEW s \in Seqs, AllocateHit(s)
  PROVE  WInv'
<1> DEFINE h == HashAt(tokens[s], NextBlock(s))
           b == pool.cached[h]
<1>1. /\ allocating = s /\ IsFull(tokens[s], NextBlock(s)) /\ pool.cached[h] # None
      /\ pool' = IncrRefcountCached(pool, h) /\ table' = [table EXCEPT ![s] = Append(@, pool.cached[h])]
      /\ UNCHANGED <<chunked, tokens, numComputed, chunk, allocating, cows, kv>>
  BY DEF AllocateHit
<1>2. NextBlock(s) \in Nat \ {0} /\ tokens[s] \in SeqsUpTo(MaxLen) /\ Good(pool, tokens, table)
  BY IInvFacts DEF NextBlock
<1>3. h \in Hashes
  BY <1>1, <1>2, HashFacts
<1>4. b \in Blocks
  BY <1>1, <1>2, <1>3, GoodFacts
<1>5. IsFull(tokens[s], Len(table[s]) + 1)
  BY <1>1 DEF NextBlock
<1>6. IInv'
  BY AllocateHitStep
<1>7. Marks(pool) /\ Stored(pool)
  BY WInvFacts
<1> HIDE DEF h
<1>8. Marks(pool') /\ Stored(pool') /\ pool'.touched = pool.touched /\ pool'.cached = pool.cached
  BY <1>1, <1>2, <1>3, <1>7, IncrMarks
<1> HIDE DEF b
<1>9. table' = [table EXCEPT ![s] = Append(@, b)]
  BY <1>1 DEF b
<1>10. Allotted(s, b)
  <2>1. pool.touched \subseteq pool'.touched /\ pool'.touched \subseteq pool.touched \cup {b}
    BY <1>8
  <2>2. \A g \in Hashes : pool'.cached[g] # None =>
          pool'.cached[g] = pool.cached[g] \/ (pool'.cached[g] = b /\ b \in pool'.touched)
    BY <1>8
  <2> QED BY ONLY <1>1, <1>5, <1>8, <1>9, <2>1, <2>2 DEF Allotted
<1> QED BY <1>4, <1>6, <1>10, AllocatedWInv

LEMMA AllocatableFacts ==
  ASSUME IInv, NEW b \in Blocks, Allocatable(pool, b)
  PROVE  pool.ref[b] = 0 /\ \A r \in Seqs : ~Has(table[r], b)
<1>1. pool.ref[b] = 0 /\ Good(pool, tokens, table)
  BY DEF IInv, Good, Counted, Allocatable, Evictable
<1> QED BY <1>1, UnheldFacts DEF Has

LEMMA AllocateMissWInv ==
  ASSUME IInv, WInv, NEW s \in Seqs, NEW b \in Blocks, AllocateMiss(s, b)
  PROVE  WInv'
<1> DEFINE h == HashAt(tokens[s], NextBlock(s))
<1>0. PICK p : p = AllocateBlockId(pool, b)
  OBVIOUS
<1>1. /\ allocating = s /\ IsFull(tokens[s], NextBlock(s)) /\ pool.cached[h] = None
      /\ Allocatable(pool, b)
      /\ pool' = PromoteToImmutable(p, b, h) /\ table' = [table EXCEPT ![s] = Append(@, PromotedId(p, b, h))]
      /\ UNCHANGED <<chunked, tokens, numComputed, chunk, allocating, cows, kv>>
  BY <1>0 DEF AllocateMiss
<1>2. NextBlock(s) \in Nat \ {0} /\ tokens[s] \in SeqsUpTo(MaxLen) /\ Good(pool, tokens, table)
  BY IInvFacts DEF NextBlock
<1>3. h \in Hashes
  BY <1>1, <1>2, HashFacts
<1>4. pool.ref[b] = 0
  BY <1>1, AllocatableFacts
<1>5. IsFull(tokens[s], Len(table[s]) + 1)
  BY <1>1 DEF NextBlock
<1>6. IInv'
  BY AllocateMissStep
<1>7. Marks(pool) /\ Stored(pool)
  BY WInvFacts
<1> HIDE DEF h
<1>8. /\ Marks(p) /\ Stored(p) /\ p.touched = pool.touched /\ ~Indexed(p, b) /\ b \in p.active
      /\ \A g \in Hashes : p.cached[g] # None => p.cached[g] = pool.cached[g]
  BY <1>0, <1>2, <1>4, <1>7, AllocateMarks
<1>9. p.cached[h] = None
  BY <1>1, <1>3, <1>8
<1>10. table' = [table EXCEPT ![s] = Append(@, b)]
  BY <1>1, <1>9 DEF PromotedId
<1>11. Marks(pool') /\ Stored(pool') /\ pool'.touched = p.touched \cup {b}
       /\ \A g \in Hashes : pool'.cached[g] # None => pool'.cached[g] = p.cached[g] \/ pool'.cached[g] = b
  <2>1. p \in Pools
    BY <1>0, <1>2, <1>4, AllocateFacts DEF Good, Shaped
  <2>2. /\ Marks(pool') /\ Stored(pool') /\ pool'.touched = p.touched \cup {b}
        /\ pool'.cached = [p.cached EXCEPT ![h] = b]
    BY <1>1, <1>3, <1>8, <1>9, <2>1, RegisterMarks
  <2> QED BY <1>3, <2>1, <2>2, PoolFields
<1>12. Allotted(s, b)
  BY <1>1, <1>5, <1>8, <1>10, <1>11 DEF Allotted
<1> QED BY <1>6, <1>12, AllocatedWInv

LEMMA AllocateTailWInv ==
  ASSUME IInv, WInv, NEW s \in Seqs, NEW b \in Blocks, AllocateTail(s, b)
  PROVE  WInv'
<1>1. /\ allocating = s /\ Allocatable(pool, b)
      /\ pool' = AllocateBlockId(pool, b) /\ table' = [table EXCEPT ![s] = Append(@, b)]
      /\ UNCHANGED <<chunked, tokens, numComputed, chunk, allocating, cows, kv>>
  BY DEF AllocateTail
<1>2. pool.ref[b] = 0 /\ \A r \in Seqs : ~Has(table[r], b)
  BY <1>1, AllocatableFacts
<1>3. Marks(pool) /\ Stored(pool) /\ Good(pool, tokens, table)
  BY WInvFacts DEF IInv
<1>4. /\ Marks(pool') /\ Stored(pool') /\ pool'.touched = pool.touched
      /\ \A g \in Hashes : pool'.cached[g] # None => pool'.cached[g] = pool.cached[g]
  BY <1>1, <1>2, <1>3, AllocateMarks
<1>5. IInv'
  BY AllocateTailStep
<1>6. Allotted(s, b)
  <2>1. pool.touched \subseteq pool'.touched /\ pool'.touched \subseteq pool.touched \cup {b}
    BY <1>4
  <2>2. \A g \in Hashes : pool'.cached[g] # None =>
          pool'.cached[g] = pool.cached[g] \/ (pool'.cached[g] = b /\ b \in pool'.touched)
    BY <1>4
  <2> QED BY ONLY <1>1, <1>2, <1>4, <2>1, <2>2 DEF Allotted
<1> QED BY <1>5, <1>6, AllocatedWInv

\* The position of a token in the hash of its block.
LEMMA HashSlot ==
  ASSUME NEW t \in SeqsUpTo(MaxLen), NEW pos \in Nat \ {0}, IsFull(t, BlockOf(pos)),
         NEW h, h = HashAt(t, BlockOf(pos))
  PROVE  Len(h) - BlockSize + SlotOf(pos) = pos /\ Prefix(h, pos) = Prefix(t, pos) /\ h \in Hashes
<1> DEFINE j == BlockOf(pos)
<1>1. /\ j \in Nat \ {0} /\ pos = (j - 1) * BlockSize + SlotOf(pos) /\ pos <= j * BlockSize
      /\ SlotOf(pos) \in 1 .. BlockSize
  BY PositionFacts
<1>2. /\ h \in Hashes /\ Len(h) = j * BlockSize /\ j * BlockSize \in 0 .. Len(t)
  BY <1>1, HashFacts
<1>3. t \in Seq(Tokens)
  BY SeqsUpToFacts, AllocatorAssumption
<1>4. (j - 1) * BlockSize = j * BlockSize - BlockSize /\ j * BlockSize \in Nat /\ BlockSize \in Nat
  BY <1>1, Products, AllocatorAssumption
<1>5. Len(h) - BlockSize + SlotOf(pos) = pos
  BY <1>1, <1>2, <1>4
<1>6. pos \in 0 .. j * BlockSize
  BY <1>1, <1>4
<1>7. Prefix(h, pos) = Prefix(t, pos)
  BY <1>2, <1>3, <1>6, PrefixOfPrefix DEF HashAt
<1> QED BY <1>2, <1>5, <1>7

LEMMA EndAllocateWInv ==
  ASSUME IInv, WInv, ~chunked, NEW s \in Seqs, NEW k, NEW n, EndAllocate(s, k, n)
  PROVE  WInv'
<1>1. /\ allocating = s /\ k \in ComputedPrefix(s)
      /\ n \in ChunkSizes(Len(tokens[s]) - k * BlockSize)
      /\ allocating' = None /\ numComputed' = [numComputed EXCEPT ![s] = k * BlockSize]
      /\ chunk' = [chunk EXCEPT ![s] = n] /\ UNCHANGED <<chunked, pool, tokens, table, cows, kv>>
  BY DEF EndAllocate
<1>2. /\ IInv' /\ k \in Nat /\ k * BlockSize < Len(tokens[s]) /\ n \in Nat /\ n > 0
      /\ Len(table[s]) = NumBlocks(Len(tokens[s]))
  BY EndAllocateStep
<1>3. n = Len(tokens[s]) - k * BlockSize
  BY <1>1 DEF ChunkSizes
<1>4. /\ \A r \in Seqs : SeqKept(r)
      /\ CachedKept /\ Marks(pool) /\ Stored(pool) /\ TouchedPlaced /\ WholeChunks /\ TailsOwn
      /\ TargetsPlaced
  BY WInvFacts
<1>5. /\ numComputed \in [Seqs -> Nat] /\ chunk \in [Seqs -> Nat] /\ None \notin Seqs
      /\ Good(pool, tokens, table) /\ tokens[s] \in SeqsUpTo(MaxLen) /\ Len(tokens[s]) \in Nat
      /\ numComputed[s] = 0 /\ chunk[s] = 0 /\ k * BlockSize \in Nat
  BY <1>1, <1>2, <1>4, IInvFacts, AllocatorAssumption, Products DEF WholeChunks
<1>6. /\ numComputed'[s] = k * BlockSize /\ chunk'[s] = n
      /\ \A r \in Seqs : r # s => numComputed'[r] = numComputed[r] /\ chunk'[r] = chunk[r]
  BY <1>1, <1>5
<1>7. BusyStay
  BY <1>1, <1>5, <1>6 DEF BusyStay
<1>8. ASSUME NEW b, NEW i, NEW t, Kept(b, i, t) PROVE Kept(b, i, t)'
  BY <1>1, <1>7, <1>8, AllKeptStays
<1>9. ASSUME NEW pos \in 1 .. k * BlockSize
      PROVE  Kept(table[s][BlockOf(pos)], SlotOf(pos), Prefix(tokens[s], pos))
  <2> DEFINE j == BlockOf(pos)
             b == table[s][j]
             h == HashAt(tokens[s], j)
  <2>1. pos \in Nat \ {0} /\ pos \in 1 .. Len(tokens[s]) /\ pos <= k * BlockSize
    BY <1>2, <1>5
  <2>2. j \in DOMAIN table[s] /\ j \in Nat \ {0} /\ SlotOf(pos) \in 1 .. BlockSize /\ b \in Blocks
    BY <1>2, <2>1, InTable
  <2>3. j \in 1 .. k
    <3>1. (j - 1) * BlockSize < pos
      BY <2>1, PositionFacts
    <3>2. j - 1 \in Nat /\ (j - 1) * BlockSize \in Nat /\ BlockSize \in Nat
      BY <2>2, Products, AllocatorAssumption
    <3>3. k < j - 1 => k * BlockSize + BlockSize <= (j - 1) * BlockSize
      BY <1>2, <3>2, Products
    <3>4. (j - 1) * BlockSize < k * BlockSize
      BY <1>5, <2>1, <3>1, <3>2
    <3>5. k # j - 1
      BY <3>2, <3>4
    <3>6. ~(k < j - 1)
      BY <1>5, <3>2, <3>3, <3>4
    <3> HIDE DEF j
    <3> QED BY <1>2, <2>2, <3>2, <3>5, <3>6
  <2>4. j * BlockSize \in Nat /\ j * BlockSize <= k * BlockSize
    <3>1. j * BlockSize \in Nat /\ BlockSize \in Nat
      BY <2>2, Products, AllocatorAssumption
    <3>2. j < k => j * BlockSize + BlockSize <= k * BlockSize
      BY <1>2, <2>2, Products
    <3>3. CASE j = k
      BY <3>1, <3>3
    <3>4. CASE j # k
      <4>1. j < k
        BY <1>2, <2>3, <3>4
      <4> QED BY <1>5, <3>1, <3>2, <4>1
    <3> QED BY <3>3, <3>4
  <2>5. IsFull(tokens[s], j)
    BY <1>2, <1>5, <2>4 DEF IsFull
  <2>6. Len(h) - BlockSize + SlotOf(pos) = pos /\ Prefix(h, pos) = Prefix(tokens[s], pos) /\ h \in Hashes
    BY <1>5, <2>1, <2>5, HashSlot
  <2>7. pool.cached[h] = b /\ b # None
    BY <1>5, <2>2, <2>5, AllocatorAssumption DEF Good, FullIndexed
  <2>8. b \in pool.active
    <3>1. pool.ref[b] > 0
      BY <1>5, <2>2, HeldFacts
    <3> QED BY <1>5, <2>2, <3>1 DEF Good, Counted
  <2>9. b \in pool.computed
    BY <1>1, <2>3, <2>8 DEF ComputedPrefix, BlockIsComputed
  <2>10. ~Pending(b)
    BY <1>4, <2>9 DEF Marks, Pending
  <2>11. HashKept(b, h)
    BY <1>4, <2>6, <2>7, <2>10 DEF CachedKept
  <2>12. Kept(b, SlotOf(pos), Prefix(h, Len(h) - BlockSize + SlotOf(pos)))
    BY <2>2, <2>11 DEF HashKept
  <2> QED BY <2>6, <2>12
<1>10. ASSUME NEW r \in Seqs PROVE SeqKept(r)'
  <2>1. CASE r = s
    BY <1>1, <1>6, <1>8, <1>9, <2>1 DEF SeqKept
  <2>2. CASE r # s
    BY <1>1, <1>4, <1>6, <1>8, <2>2 DEF SeqKept
  <2> QED BY <2>1, <2>2
<1>11. ASSUME NEW h \in Hashes, pool.cached[h] # None, Pending(pool.cached[h]), NEW l \in 1 .. BlockSize
       PROVE  Put(pool.cached[h], l)'
  <2> DEFINE b == pool.cached[h]
  <2>1. b \in pool.touched /\ Has(table[s], b)
    BY <1>1, <1>11 DEF Pending
  <2>2. PICK i \in DOMAIN table[s] : table[s][i] = b
    BY <2>1 DEF Has
  <2>3. IsFull(tokens[s], i) /\ i \in Nat \ {0}
    BY <1>5, <2>2, HeldFacts, GoodFacts
  <2>4. b \in pool.active /\ b \notin pool.computed
    BY <1>4, <2>1 DEF Marks
  <2>5. i \notin 1 .. k
    BY <1>1, <2>2, <2>4 DEF ComputedPrefix, BlockIsComputed
  <2>6. k <= i - 1 /\ i - 1 \in Nat
    BY <1>2, <2>3, <2>5
  <2> DEFINE x == (i - 1) * BlockSize
             pos == x + l
  <2>7. x \in Nat /\ i * BlockSize = x + BlockSize /\ i * BlockSize \in Nat
    BY <2>3, <2>6, Products, AllocatorAssumption
  <2>8. k * BlockSize <= x
    <3>1. k < i - 1 => k * BlockSize + BlockSize <= (i - 1) * BlockSize
      BY <1>2, <2>6, Products
    <3>2. BlockSize \in Nat
      BY AllocatorAssumption
    <3>3. CASE k = i - 1
      BY <2>7, <3>3
    <3>4. CASE k # i - 1
      <4>1. k < i - 1
        BY <1>2, <2>6, <3>4
      <4> HIDE DEF x
      <4>2. k * BlockSize + BlockSize <= x
        BY <3>1, <4>1 DEF x
      <4> QED BY <1>5, <2>7, <3>2, <4>2
    <3> QED BY <3>3, <3>4
  <2>9. BlockOf(pos) = i /\ SlotOf(pos) = l
    BY <2>3, PositionOf
  <2>10. x + BlockSize <= Len(tokens[s])
    BY <2>3, <2>7 DEF IsFull
  <2>11. pos \in k * BlockSize + 1 .. k * BlockSize + n
    <3>1. BlockSize \in Nat /\ l \in Nat /\ 1 <= l /\ l <= BlockSize
      BY AllocatorAssumption
    <3> HIDE DEF x
    <3>2. k * BlockSize + n = Len(tokens[s])
      BY <1>2, <1>3, <1>5
    <3>3. x + l <= Len(tokens[s]) /\ k * BlockSize + 1 <= x + l /\ x + l \in Nat
      BY <1>5, <2>7, <2>8, <2>10, <3>1
    <3> QED BY <1>2, <1>5, <3>2, <3>3
  <2>12. pos \in numComputed'[s] + 1 .. numComputed'[s] + chunk'[s]
    BY <1>6, <2>11
  <2>13. table'[s][BlockOf(pos)] = pool'.cached[h] /\ SlotOf(pos) = l
    BY <1>1, <2>2, <2>9
  <2> HIDE DEF pos
  <2> QED BY <2>12, <2>13 DEF Put
<1>12. CachedKept'
  <2> SUFFICES ASSUME NEW h \in Hashes, pool.cached[h] # None, NEW i \in 1 .. BlockSize
               PROVE  Kept(pool.cached[h], i, Prefix(h, Len(h) - BlockSize + i))'
    BY <1>1 DEF CachedKept, HashKept
  <2>1. CASE Pending(pool.cached[h])
    BY <1>11, <2>1 DEF Kept
  <2>2. CASE ~Pending(pool.cached[h])
    <3>1. Kept(pool.cached[h], i, Prefix(h, Len(h) - BlockSize + i))
      BY <1>4, <2>2 DEF CachedKept, HashKept
    <3> QED BY <1>1, <1>8, <3>1
  <2> QED BY <2>1, <2>2
<1>13. \A r \in Seqs : Placed(r)' <=> Placed(r)
  BY <1>1, <1>2, <1>5, <1>6 DEF Placed
<1>14. TouchedPlaced' /\ TailsOwn'
  BY <1>1, <1>4, <1>13 DEF TouchedPlaced, TailsOwn
<1>15. TargetsPlaced'
  <2>1. \E r \in Seqs : chunk'[r] > 0
    BY <1>2, <1>6
  <2> QED BY <1>1, <1>4, <1>13, <2>1 DEF TargetsPlaced
<1>16. Marks(pool)' /\ Stored(pool)'
  BY <1>1, <1>4 DEF Stored, Holds
<1>17. WholeChunks'
  <2>1. k * BlockSize + n = Len(tokens[s])
    BY <1>3, <1>5
  <2> QED BY <1>1, <1>4, <1>5, <1>6, <2>1 DEF WholeChunks
<1> QED BY <1>10, <1>12, <1>14, <1>15, <1>16, <1>17 DEF WInv

\* Without chunked prefill there is no prefill to continue.
LEMMA ContinuePrefillWInv ==
  ASSUME IInv, WInv, NEW s \in Seqs, NEW n, ContinuePrefill(s, n)
  PROVE  WInv'
<1>1. allocating = None /\ chunk[s] = 0 /\ numComputed[s] < Len(tokens[s]) /\ None \notin Seqs
  BY AllocatorAssumption DEF ContinuePrefill
<1>2. numComputed[s] \in Nat /\ numComputed[s] + chunk[s] = Len(tokens[s])
  BY <1>1, IInvFacts, WInvFacts DEF WholeChunks
<1> QED BY <1>1, <1>2

LEMMA ForkWInv ==
  ASSUME IInv, WInv, NEW parent \in Seqs, NEW child \in Seqs, Fork(parent, child)
  PROVE  WInv'
<1> DEFINE held == {table[parent][i] : i \in DOMAIN table[parent]}
<1>1. /\ allocating = None /\ Scheduled = {} /\ tokens[child] = << >>
      /\ numComputed[parent] = Len(tokens[parent])
      /\ pool' = [pool EXCEPT !.ref = [b \in Blocks |-> IF b \in held THEN @[b] + 1 ELSE @[b]]]
      /\ tokens' = [tokens EXCEPT ![child] = tokens[parent]]
      /\ table' = [table EXCEPT ![child] = table[parent]]
      /\ numComputed' = [numComputed EXCEPT ![child] = numComputed[parent]]
      /\ UNCHANGED <<chunked, chunk, allocating, cows, kv>>
  BY DEF Fork
<1>2. table[child] = << >> /\ chunk[child] = 0 /\ DOMAIN table[child] = {}
  BY <1>1, NoTable
<1>3. /\ tokens \in [Seqs -> SeqsUpTo(MaxLen)] /\ table \in [Seqs -> Seq(Blocks)] /\ pool \in Pools
      /\ numComputed \in [Seqs -> Nat] /\ chunk \in [Seqs -> Nat] /\ None \notin Seqs
  BY IInvFacts, AllocatorAssumption
<1>4. /\ \A r \in Seqs : SeqKept(r)
      /\ CachedKept /\ Marks(pool) /\ Stored(pool) /\ TouchedPlaced /\ WholeChunks /\ TailsOwn
      /\ TargetsPlaced
  BY WInvFacts
<1>5. /\ pool'.cached = pool.cached /\ pool'.evictable = pool.evictable /\ pool'.active = pool.active
      /\ pool'.computed = pool.computed /\ pool'.touched = pool.touched
  BY <1>1, <1>3 DEF Pools
<1>6. /\ \A r \in Seqs : chunk[r] = 0 /\ ~Placed(r) /\ ~Placed(r)'
      /\ cows = {} /\ cows' = {}
  <2>1. \A r \in Seqs : chunk[r] = 0 /\ r # allocating
    BY <1>1, <1>3 DEF Scheduled
  <2> QED BY <1>1, <1>4, <2>1 DEF Placed, TargetsPlaced
<1>7. BusyStay
  BY <1>6 DEF BusyStay
<1>8. ASSUME NEW b, NEW i, NEW t, Kept(b, i, t) PROVE Kept(b, i, t)'
  BY <1>1, <1>7, <1>8, AllKeptStays
<1>9. /\ tokens'[child] = tokens[parent] /\ table'[child] = table[parent]
      /\ numComputed'[child] = numComputed[parent]
      /\ \A r \in Seqs : r # child =>
           tokens'[r] = tokens[r] /\ table'[r] = table[r] /\ numComputed'[r] = numComputed[r]
  BY <1>1, <1>3
<1>10. ASSUME NEW r \in Seqs PROVE SeqKept(r)'
  <2>1. CASE r = child
    BY <1>4, <1>8, <1>9, <2>1 DEF SeqKept
  <2>2. CASE r # child
    BY <1>4, <1>8, <1>9, <2>2 DEF SeqKept
  <2> QED BY <2>1, <2>2
<1>11. CachedKept'
  <2>1. \A b : ~Pending(b)
    BY <1>1 DEF Pending
  <2> QED BY <1>4, <1>5, <1>8, <2>1 DEF CachedKept, HashKept
<1>12. Marks(pool)'
  BY <1>4, <1>5 DEF Marks, Indexed
<1>13. Stored(pool)'
  BY <1>1, <1>4, <1>5 DEF Stored, Holds, BlockIsComputed, Evictable
<1>14. TouchedPlaced' /\ TailsOwn' /\ TargetsPlaced'
  BY <1>4, <1>5, <1>6 DEF TouchedPlaced, TailsOwn, TargetsPlaced
<1>15. WholeChunks'
  BY <1>1, <1>2, <1>3, <1>4, <1>6, <1>9 DEF WholeChunks
<1> QED BY <1>10, <1>11, <1>12, <1>13, <1>14, <1>15 DEF WInv

LEMMA FreeWInv ==
  ASSUME IInv, WInv, NEW s \in Seqs, Free(s)
  PROVE  WInv'
<1> DEFINE held == {table[s][i] : i \in DOMAIN table[s]}
           last == {b \in held : pool.ref[b] = 1}
<1>1. /\ allocating = None /\ allocating' = None /\ chunk[s] = 0 /\ pool' = FreeTable(pool, s)
      /\ tokens' = [tokens EXCEPT ![s] = << >>]
      /\ table' = [table EXCEPT ![s] = << >>]
      /\ numComputed' = [numComputed EXCEPT ![s] = 0]
      /\ UNCHANGED <<chunked, chunk, cows, kv>>
  BY DEF Free
<1>2. /\ tokens \in [Seqs -> SeqsUpTo(MaxLen)] /\ table \in [Seqs -> Seq(Blocks)] /\ pool \in Pools
      /\ numComputed \in [Seqs -> Nat] /\ chunk \in [Seqs -> Nat] /\ None \notin Seqs
      /\ Good(pool, tokens, table) /\ IInv'
  BY IInvFacts, FreeStep, AllocatorAssumption
<1>3. /\ \A r \in Seqs : SeqKept(r)
      /\ CachedKept /\ Marks(pool) /\ Stored(pool) /\ TouchedPlaced /\ WholeChunks /\ TailsOwn
      /\ TargetsPlaced
  BY WInvFacts
<1>4. /\ pool'.cached = pool.cached /\ pool'.active = pool.active \ last
      /\ pool'.computed = pool.computed \ last /\ pool'.touched = pool.touched
      /\ pool'.evictable = [b \in Blocks |-> IF b \in last THEN ReleasedHash(s, b) ELSE pool.evictable[b]]
  BY <1>1, <1>2 DEF FreeTable, Pools
<1>5. /\ tokens'[s] = << >> /\ table'[s] = << >> /\ numComputed'[s] = 0 /\ DOMAIN table'[s] = {}
      /\ \A r \in Seqs : r # s =>
           tokens'[r] = tokens[r] /\ table'[r] = table[r] /\ numComputed'[r] = numComputed[r]
  BY <1>1, <1>2
<1>6. BusyStay
  BY <1>1, <1>5 DEF BusyStay
<1>7. ASSUME NEW b, NEW i, NEW t, Kept(b, i, t) PROVE Kept(b, i, t)'
  BY <1>1, <1>6, <1>7, AllKeptStays
<1>8. \A r \in Seqs : (Placed(r)' <=> Placed(r)) /\ ~Placed(s)
  BY <1>1, <1>2 DEF Placed
<1>9. ASSUME NEW r \in Seqs PROVE SeqKept(r)'
  <2>1. CASE r = s
    BY <1>5, <2>1 DEF SeqKept
  <2>2. CASE r # s
    BY <1>3, <1>5, <1>7, <2>2 DEF SeqKept
  <2> QED BY <2>1, <2>2
<1>10. CachedKept'
  <2>1. \A b : ~Pending(b)
    BY <1>1 DEF Pending
  <2> QED BY <1>3, <1>4, <1>7, <2>1 DEF CachedKept, HashKept
<1>11. \A b \in pool.touched : \E r \in Seqs : r # s /\ Placed(r) /\ Has(table[r], b)
  BY <1>3, <1>8 DEF TouchedPlaced
<1>12. TouchedPlaced'
  BY <1>4, <1>5, <1>8, <1>11 DEF TouchedPlaced
<1>13. \A b \in pool.touched : b \notin last
  <2> SUFFICES ASSUME NEW b \in pool.touched, b \in last PROVE FALSE
    OBVIOUS
  <2>1. PICK r \in Seqs : r # s /\ Has(table[r], b)
    BY <1>11
  <2>2. b \in Blocks /\ pool.ref[b] = 1 /\ Has(table[s], b)
    BY <1>2, PoolFields DEF Has
  <2>3. r \in Holders(table', b)
    BY <1>5, <2>1 DEF Holders, Has
  <2>4. b \in pool'.active
    <3>1. PICK i \in DOMAIN table'[r] : table'[r][i] = b
      BY <2>3 DEF Holders
    <3>2. pool'.ref[table'[r][i]] > 0
      BY <1>2, <3>1, HeldFacts DEF IInv
    <3> QED BY <1>2, <2>2, <3>1, <3>2 DEF IInv, Good, Counted
  <2> QED BY <1>4, <2>4
<1>14. Marks(pool)'
  BY <1>3, <1>4, <1>13 DEF Marks, Indexed
<1>15. Stored(pool)'
  <2> SUFFICES ASSUME NEW h \in Hashes, pool.cached[h] # None, BlockIsComputed(pool', pool.cached[h])
               PROVE  Holds(pool.cached[h], h)
    BY <1>1, <1>4 DEF Stored, Holds
  <2> DEFINE b == pool.cached[h]
  <2>1. b \in Blocks
    BY <1>2, PoolFields
  <2>2. CASE b \in last
    <3>1. b \in pool.active
      <4>1. pool.ref[b] > 0
        BY <2>2
      <4> QED BY <1>2, <2>1, <4>1 DEF Good, Counted
    <3>2. b \in pool.computed
      BY <1>3, <1>13, <2>2, <3>1 DEF Marks
    <3>3. BlockIsComputed(pool, b)
      BY <3>1, <3>2 DEF BlockIsComputed
    <3> QED BY <1>3, <3>3 DEF Stored
  <2>3. CASE b \notin last
    <3>1. BlockIsComputed(pool, b)
      BY <1>4, <2>1, <2>3 DEF BlockIsComputed, Evictable
    <3> QED BY <1>3, <3>1 DEF Stored
  <2> QED BY <2>2, <2>3
<1>16. WholeChunks'
  BY <1>1, <1>2, <1>3, <1>5 DEF WholeChunks
<1>17. TailsOwn'
  <2>1. \A r \in Seqs : \A x : Has(table'[r], x) => Has(table[r], x)
    BY <1>5 DEF Has
  <2> QED BY <1>3, <1>5, <1>8, <2>1 DEF TailsOwn
<1>18. TargetsPlaced'
  BY <1>1, <1>3, <1>5, <1>8 DEF TargetsPlaced
<1> QED BY <1>9, <1>10, <1>12, <1>14, <1>15, <1>16, <1>17, <1>18 DEF WInv

\* The token that makes t of the tokens of s joins block cur, which is the n-th of s and only
\* in its table; p is the pool before cur may be promoted.
Joins(s, t, p, cur, n) ==
  /\ allocating = None /\ chunk[s] = 0 /\ numComputed[s] = Len(tokens[s])
  /\ \E token \in Tokens : t = Append(tokens[s], token)
  /\ n = NumBlocks(Len(tokens[s]) + 1) /\ n - 1 <= Len(table[s])
  /\ AppendTo(s, t, p, cur)
  /\ UNCHANGED <<chunked, numComputed, allocating, kv>>
  /\ Good(p, tokens, [table EXCEPT ![s] = Append(Prefix(table[s], n - 1), cur)]) /\ p.ref[cur] = 1
  /\ Marks(p) /\ Stored(p) /\ p.touched = pool.touched
  /\ \A h \in Hashes : p.cached[h] # None => p.cached[h] = pool.cached[h]
  /\ \A r \in Seqs : r # s => ~Has(table[r], cur)
  /\ \A a, b \in Blocks : b # cur => (<<a, b>> \in cows' <=> <<a, b>> \in cows)
  /\ \A c \in cows' : c \in cows \/ c[2] = cur
  /\ \A u : \A pos \in 1 .. Len(tokens[s]) :
       BlockOf(pos) = n /\ u = Prefix(tokens[s], pos) => Kept(cur, SlotOf(pos), u)'

\* The block that takes the token, or the one of the index that has its content.
JoinedId(t, p, cur, n) == IF IsFull(t, n) THEN PromotedId(p, cur, t) ELSE cur

\* The tables after it, and the pool before.
JoinedTables(s, t, p, cur, n, id) ==
  /\ Len(t) = Len(tokens[s]) + 1 /\ Len(tokens[s]) \in Nat /\ BlockOf(Len(t)) = n
  /\ Len(t) <= n * BlockSize
  /\ \A m \in 0 .. Len(tokens[s]) : Prefix(t, m) = Prefix(tokens[s], m)
  /\ tokens'[s] = t /\ chunk'[s] = 1 /\ numComputed'[s] = Len(tokens[s])
  /\ \A r \in Seqs : r # s =>
       /\ tokens'[r] = tokens[r] /\ table'[r] = table[r]
       /\ numComputed'[r] = numComputed[r] /\ chunk'[r] = chunk[r]
  /\ DOMAIN table'[s] = 1 .. n /\ table'[s][n] = id
  /\ \A i \in 1 .. n - 1 :
       /\ i \in DOMAIN table[s] /\ table'[s][i] = table[s][i] /\ table[s][i] # cur
       /\ IsFull(tokens[s], i) /\ IsFull(t, i)
  /\ pool' = IF IsFull(t, n) THEN PromoteToImmutable(p, cur, t) ELSE p
  /\ ~Indexed(p, cur) /\ cur \in p.active /\ p \in Pools
  /\ \E tab : Good(DecrRefcountHashless(p, cur), tokens, tab)

LEMMA JoinTables ==
  ASSUME IInv, NEW s \in Seqs, NEW t, NEW p, NEW cur \in Blocks, NEW n \in Nat \ {0},
         Joins(s, t, p, cur, n), NEW id, id = JoinedId(t, p, cur, n)
  PROVE  JoinedTables(s, t, p, cur, n, id)
<1> DEFINE L == Len(table[s])
           m == Len(tokens[s])
           pre == Prefix(table[s], n - 1)
           tab == [table EXCEPT ![s] = Append(pre, cur)]
<1>1. PICK token \in Tokens : t = Append(tokens[s], token)
  BY DEF Joins
<1>2. /\ tokens \in [Seqs -> SeqsUpTo(MaxLen)] /\ table \in [Seqs -> Seq(Blocks)] /\ tokens[s] \in Seq(Tokens)
      /\ m \in Nat /\ table[s] \in Seq(Blocks) /\ L \in Nat /\ DOMAIN table[s] = 1 .. L
      /\ numComputed \in [Seqs -> Nat] /\ chunk \in [Seqs -> Nat]
  BY IInvFacts
<1>3. Len(t) = m + 1 /\ t \in Seq(Tokens)
  BY <1>1, <1>2, AppendProperties
<1>4. \A k \in 0 .. m : Prefix(t, k) = Prefix(tokens[s], k)
  BY <1>1, <1>2, PrefixOfAppended
<1>5. n = NumBlocks(m + 1) /\ n - 1 <= L /\ p.ref[cur] = 1 /\ Good(p, tokens, tab)
  BY DEF Joins
<1>6. BlockOf(Len(t)) = n
  <2>1. m + 1 \in Nat /\ m + 1 > 0
    BY <1>2
  <2> HIDE DEF m
  <2> QED
    BY <1>3, <1>5, <2>1, NumBlocksFacts, SMTT(40)
<1>7. n - 1 \in 0 .. L /\ n - 1 \in Nat
  BY <1>2, <1>5
<1>8. pre \in Seq(Blocks) /\ Len(pre) = n - 1 /\ \A i \in 1 .. n - 1 : pre[i] = table[s][i]
  BY <1>2, <1>7, PrefixFacts
<1>9. /\ pool' = (IF IsFull(t, n) THEN PromoteToImmutable(p, cur, t) ELSE p)
      /\ table' = [table EXCEPT ![s] = Append(pre, id)]
      /\ tokens' = [tokens EXCEPT ![s] = t] /\ chunk' = [chunk EXCEPT ![s] = 1]
      /\ numComputed' = numComputed /\ numComputed[s] = m
  BY <1>6 DEF Joins, AppendTo, JoinedId
<1>10. /\ tokens'[s] = t /\ chunk'[s] = 1 /\ numComputed'[s] = m
       /\ \A r \in Seqs : r # s =>
            /\ tokens'[r] = tokens[r] /\ table'[r] = table[r]
            /\ numComputed'[r] = numComputed[r] /\ chunk'[r] = chunk[r]
       /\ table'[s] = Append(pre, id) /\ tab[s] = Append(pre, cur)
  BY <1>2, <1>9
<1> HIDE DEF pre, tab
<1>11. ASSUME NEW x
       PROVE  /\ DOMAIN Append(pre, x) = 1 .. n /\ Append(pre, x)[n] = x
              /\ \A i \in 1 .. n - 1 : Append(pre, x)[i] = pre[i]
  <2>1. pre \in Seq(Blocks \cup {x}) /\ x \in Blocks \cup {x}
    <3>1. pre \in [1 .. n - 1 -> Blocks]
      BY <1>8, LenProperties
    <3>2. pre \in [1 .. n - 1 -> Blocks \cup {x}]
      BY <3>1
    <3> QED BY <1>7, <3>2
  <2>2. /\ Append(pre, x) \in Seq(Blocks \cup {x}) /\ Len(Append(pre, x)) = Len(pre) + 1
        /\ Append(pre, x)[Len(pre) + 1] = x
    BY <2>1, AppendProperties
  <2>3. \A i \in 1 .. Len(pre) : Append(pre, x)[i] = pre[i]
    BY <2>1, AppendProperties
  <2>4. Len(pre) + 1 = n
    BY <1>7, <1>8
  <2>5. DOMAIN Append(pre, x) = 1 .. n
    BY <2>2, <2>4, LenProperties
  <2> QED BY <1>8, <2>2, <2>3, <2>4, <2>5
<1>12. /\ DOMAIN table'[s] = 1 .. n /\ table'[s][n] = id
       /\ \A i \in 1 .. n - 1 : table'[s][i] = table[s][i]
  BY <1>8, <1>10, <1>11
<1>13. /\ DOMAIN tab[s] = 1 .. n /\ tab[s][n] = cur /\ n \in DOMAIN tab[s]
       /\ \A i \in 1 .. n - 1 : tab[s][i] = table[s][i] /\ i \in DOMAIN tab[s]
  BY <1>7, <1>8, <1>10, <1>11
<1>14. \A i \in 1 .. n - 1 : i \in DOMAIN table[s] /\ table[s][i] # cur
  <2> SUFFICES ASSUME NEW i \in 1 .. n - 1 PROVE i \in DOMAIN table[s] /\ table[s][i] # cur
    OBVIOUS
  <2>1. i \in DOMAIN table[s] /\ i # n
    BY <1>2, <1>5, <1>7
  <2>2. tab[s][i] # tab[s][n]
    BY <1>5, <1>13, <2>1 DEF Good, SamePlace
  <2> QED BY <1>13, <2>1, <2>2
<1>15. /\ m + 1 <= n * BlockSize /\ n * BlockSize < m + 1 + BlockSize
       /\ n * BlockSize \in Nat /\ BlockSize \in Nat
  <2>1. m + 1 \in Nat
    BY <1>2
  <2>2. n * BlockSize \in Nat
    BY Products
  <2>3. BlockSize \in Nat
    BY AllocatorAssumption
  <2> HIDE DEF m
  <2>4. m + 1 <= NumBlocks(m + 1) * BlockSize /\ NumBlocks(m + 1) * BlockSize < m + 1 + BlockSize
    BY <2>1, NumBlocksFacts
  <2> QED BY <1>5, <2>2, <2>3, <2>4
<1>16. ~IsFull(tokens[s], n)
  BY <1>2, <1>15 DEF IsFull
<1>17. ~Indexed(p, cur)
  BY <1>5, <1>13, <1>16, HeldFacts DEF Indexed
<1>18. cur \in p.active /\ p \in Pools
  BY <1>5 DEF Good, Counted, Shaped
<1>19. ASSUME NEW i \in 1 .. n - 1 PROVE IsFull(tokens[s], i) /\ IsFull(t, i)
  <2>0. i \in Nat /\ i < n
    BY ONLY i \in 1 .. n - 1, n \in Nat
  <2>1. i * BlockSize \in Nat
    BY <2>0, Products
  <2>2. i * BlockSize + BlockSize <= n * BlockSize
    BY <2>0, Products
  <2>3. i * BlockSize <= m
    <3>1. \A a, d, x, y \in Nat : a + d <= x /\ x < y + 1 + d => a <= y
      OBVIOUS
    <3>2. m \in Nat
      BY <1>2
    <3> HIDE DEF m
    <3> QED BY <1>15, <2>1, <2>2, <3>1, <3>2
  <2> QED BY <1>2, <1>3, <2>1, <2>3 DEF IsFull
<1>20. \E new : Good(DecrRefcountHashless(p, cur), tokens, new)
  <2>1. Len(tab[s]) = n
    <3>1. Len(tab[s]) = Len(pre) + 1
      BY <1>8, <1>10, AppendProperties
    <3> QED BY <1>7, <1>8, <3>1
  <2>2. Good(DecrRefcountHashless(p, tab[s][Len(tab[s])]), tokens,
             [tab EXCEPT ![s] = Prefix(tab[s], Len(tab[s]) - 1)])
    <3>1. Len(tab[s]) > 0 /\ ~IsFull(tokens[s], Len(tab[s]))
      BY <1>16, <2>1
    <3> QED BY <1>5, <3>1, DropTail
  <2> QED BY <1>13, <2>1, <2>2
<1> QED BY <1>2, <1>3, <1>4, <1>6, <1>9, <1>10, <1>12, <1>14, <1>15, <1>17, <1>18, <1>19, <1>20
        DEF JoinedTables

LEMMA BlockWithin ==
  ASSUME NEW pos \in Nat \ {0}, NEW n \in Nat, pos <= n * BlockSize
  PROVE  BlockOf(pos) \in 1 .. n
<1> DEFINE j == BlockOf(pos)
<1>1. j \in Nat \ {0} /\ (j - 1) * BlockSize < pos
  BY PositionFacts
<1>2. j - 1 \in Nat /\ (j - 1) * BlockSize \in Nat /\ n * BlockSize \in Nat /\ BlockSize \in Nat
  BY <1>1, Products, AllocatorAssumption
<1>3. n < j - 1 => n * BlockSize + BlockSize <= (j - 1) * BlockSize
  BY <1>2, Products
<1>4. (j - 1) * BlockSize < n * BlockSize
  BY <1>1, <1>2
<1>5. ~(n < j - 1)
  BY <1>2, <1>3, <1>4
<1>6. n # j - 1
  BY <1>2, <1>4
<1> HIDE DEF j
<1>7. j \in 1 .. n
  BY ONLY <1>1, <1>2, <1>5, <1>6, n \in Nat
<1> QED BY <1>7 DEF j

\* The pool after the token has joined: cur has entered the index, or was given up for the
\* block that the index has for t, or is still not full.
JoinedPool(t, p, cur, n, id) ==
  /\ Marks(pool') /\ Stored(pool') /\ pool.touched \subseteq pool'.touched
  /\ \A b \in pool'.touched : b \in pool.touched \/ (b = cur /\ id = cur)
  /\ \A h \in Hashes : pool'.cached[h] # None =>
       \/ pool'.cached[h] = pool.cached[h] /\ pool'.cached[h] # cur
       \/ h = t /\ IsFull(t, n) /\ pool'.cached[h] = cur /\ id = cur
  /\ id # cur => IsFull(t, n) /\ id = pool.cached[t] /\ id # None
  /\ IsFull(t, n) => t \in Hashes /\ Len(t) = n * BlockSize /\ HashAt(t, n) = t

LEMMA JoinPool ==
  ASSUME IInv, IInv', NEW s \in Seqs, NEW t, NEW p, NEW cur \in Blocks, NEW n \in Nat \ {0},
         Joins(s, t, p, cur, n), NEW id, id = JoinedId(t, p, cur, n)
  PROVE  JoinedPool(t, p, cur, n, id)
<1>0. JoinedTables(s, t, p, cur, n, id)
  BY JoinTables
<1>1. /\ Len(t) = Len(tokens[s]) + 1 /\ Len(tokens[s]) \in Nat /\ Len(t) <= n * BlockSize
      /\ tokens'[s] = t
      /\ pool' = IF IsFull(t, n) THEN PromoteToImmutable(p, cur, t) ELSE p
      /\ ~Indexed(p, cur) /\ cur \in p.active /\ p \in Pools
  BY <1>0 DEF JoinedTables
<1>2. /\ Marks(p) /\ Stored(p) /\ p.touched = pool.touched /\ p.ref[cur] = 1 /\ cur # None
      /\ \A h \in Hashes : p.cached[h] # None => p.cached[h] = pool.cached[h]
  BY AllocatorAssumption DEF Joins
<1>3. t \in SeqsUpTo(MaxLen)
  <2>1. Good(pool', tokens', table')
    BY DEF IInv
  <2>2. tokens' \in [Seqs -> SeqsUpTo(MaxLen)]
    BY <2>1, GoodFacts
  <2> QED BY <1>1, <2>2
<1>4. ASSUME IsFull(t, n) PROVE t \in Hashes /\ Len(t) = n * BlockSize /\ HashAt(t, n) = t
  <2>1. Len(t) = n * BlockSize
    <3>1. n * BlockSize \in Nat
      BY Products
    <3> QED BY <1>1, <1>4, <3>1 DEF IsFull
  <2> QED BY <1>3, <2>1, WholeHash
<1>5. CASE ~IsFull(t, n)
  <2>1. pool' = p /\ id = cur
    BY <1>1, <1>5 DEF JoinedId
  <2>2. \A h \in Hashes : pool'.cached[h] # None => pool'.cached[h] = pool.cached[h] /\ pool'.cached[h] # cur
    BY <1>1, <1>2, <2>1 DEF Indexed
  <2> QED BY <1>2, <1>5, <2>1, <2>2 DEF JoinedPool
<1>6. CASE IsFull(t, n) /\ p.cached[t] = None
  <2>1. pool' = PromoteToImmutable(p, cur, t) /\ id = cur /\ t \in Hashes
    BY <1>1, <1>4, <1>6 DEF JoinedId, PromotedId
  <2>2. /\ Marks(pool') /\ Stored(pool') /\ pool'.touched = p.touched \cup {cur}
        /\ pool'.cached = [p.cached EXCEPT ![t] = cur]
    BY <1>1, <1>2, <1>6, <2>1, RegisterMarks
  <2>3. ASSUME NEW h \in Hashes, pool'.cached[h] # None
        PROVE  \/ pool'.cached[h] = pool.cached[h] /\ pool'.cached[h] # cur
               \/ h = t /\ IsFull(t, n) /\ pool'.cached[h] = cur /\ id = cur
    <3>1. CASE h = t
      BY <1>1, <1>6, <2>1, <2>2, <3>1, PoolFields
    <3>2. CASE h # t
      BY <1>1, <1>2, <2>2, <2>3, <3>2, PoolFields DEF Indexed
    <3> QED BY <3>1, <3>2
  <2> QED BY <1>2, <1>4, <1>6, <2>1, <2>2, <2>3 DEF JoinedPool
<1>7. CASE IsFull(t, n) /\ p.cached[t] # None
  <2>0. PICK q : q = DecrRefcountHashless(p, cur)
    OBVIOUS
  <2>1. pool' = IncrRefcountCached(q, t) /\ id = p.cached[t] /\ t \in Hashes
    BY <1>1, <1>4, <1>7, <2>0 DEF JoinedId, PromotedId, PromoteToImmutable
  <2>2. PICK tab : Good(q, tokens, tab)
    BY <1>0, <2>0 DEF JoinedTables
  <2>3. Marks(q) /\ Stored(q) /\ q.touched = p.touched /\ q.cached = p.cached
    <3>1. PICK old : Good(p, tokens, old)
      BY DEF Joins
    <3>2. p.ref[cur] # 0
      BY <1>2
    <3> QED BY <1>1, <1>2, <2>0, <3>1, <3>2, DecrMarks
  <2>4. q.cached[t] # None
    BY <1>7, <2>3
  <2>5. Marks(pool') /\ Stored(pool') /\ pool'.touched = q.touched /\ pool'.cached = q.cached
    BY <2>1, <2>2, <2>3, <2>4, IncrMarks
  <2>6. \A h \in Hashes : pool'.cached[h] # None => pool'.cached[h] = pool.cached[h] /\ pool'.cached[h] # cur
    BY <1>1, <1>2, <2>3, <2>5 DEF Indexed
  <2>7. id = pool.cached[t] /\ id # None
    BY <1>2, <1>7, <2>1
  <2> QED BY <1>2, <1>4, <1>7, <2>3, <2>5, <2>6, <2>7 DEF JoinedPool
<1> QED BY <1>5, <1>6, <1>7

LEMMA JoinWInv ==
  ASSUME IInv, WInv, IInv', NEW s \in Seqs, NEW t, NEW p, NEW cur \in Blocks, NEW n \in Nat \ {0},
         Joins(s, t, p, cur, n)
  PROVE  WInv'
<1>0. PICK id : id = JoinedId(t, p, cur, n)
  OBVIOUS
<1>1. JoinedTables(s, t, p, cur, n, id) /\ JoinedPool(t, p, cur, n, id)
  BY <1>0, JoinTables, JoinPool
<1>2. PICK m : m = Len(tokens[s])
  OBVIOUS
<1>3. /\ Len(t) = m + 1 /\ m \in Nat /\ BlockOf(m + 1) = n /\ m + 1 <= n * BlockSize
      /\ \A k \in 0 .. m : Prefix(t, k) = Prefix(tokens[s], k)
      /\ tokens'[s] = t /\ chunk'[s] = 1 /\ numComputed'[s] = m
  BY <1>1, <1>2 DEF JoinedTables
<1>4. \A r \in Seqs : r # s =>
        /\ tokens'[r] = tokens[r] /\ table'[r] = table[r]
        /\ numComputed'[r] = numComputed[r] /\ chunk'[r] = chunk[r]
  BY <1>1 DEF JoinedTables
<1>5. /\ DOMAIN table'[s] = 1 .. n /\ table'[s][n] = id /\ n \in DOMAIN table'[s]
      /\ \A i \in 1 .. n - 1 :
           /\ i \in DOMAIN table[s] /\ table'[s][i] = table[s][i] /\ table[s][i] # cur
           /\ IsFull(tokens[s], i) /\ IsFull(t, i)
  BY <1>1 DEF JoinedTables
<1>6. /\ Marks(pool') /\ Stored(pool') /\ pool.touched \subseteq pool'.touched
      /\ \A b \in pool'.touched : b \in pool.touched \/ (b = cur /\ id = cur)
      /\ \A h \in Hashes : pool'.cached[h] # None =>
           \/ pool'.cached[h] = pool.cached[h] /\ pool'.cached[h] # cur
           \/ h = t /\ IsFull(t, n) /\ pool'.cached[h] = cur /\ id = cur
      /\ id # cur => IsFull(t, n) /\ id = pool.cached[t] /\ id # None
      /\ IsFull(t, n) => t \in Hashes /\ Len(t) = n * BlockSize /\ HashAt(t, n) = t
  BY <1>1 DEF JoinedPool
<1>7. /\ allocating = None /\ allocating' = None /\ chunk[s] = 0 /\ numComputed[s] = m /\ kv' = kv
      /\ \A r \in Seqs : r # s => ~Has(table[r], cur)
      /\ \A a, b \in Blocks : b # cur => (<<a, b>> \in cows' <=> <<a, b>> \in cows)
      /\ \A c \in cows' : c \in cows \/ c[2] = cur
  BY <1>2 DEF Joins
<1>8. ASSUME NEW pos \in 1 .. m, BlockOf(pos) = n, NEW u, u = Prefix(t, pos)
      PROVE  Kept(cur, SlotOf(pos), u)'
  <2>1. pos \in 0 .. m
    BY <1>3
  <2>2. u = Prefix(tokens[s], pos)
    BY <1>3, <1>8, <2>1
  <2> QED BY <1>2, <1>8, <2>2 DEF Joins
<1>9. /\ \A r \in Seqs : SeqKept(r)
      /\ CachedKept /\ TouchedPlaced /\ WholeChunks /\ TailsOwn /\ TargetsPlaced
  BY WInvFacts
<1>10. BusyStay
  BY <1>4, <1>7 DEF BusyStay
<1>11. ASSUME NEW b \in Blocks, b # cur, NEW i, NEW u, Kept(b, i, u) PROVE Kept(b, i, u)'
  <2>1. \A a \in Blocks : <<a, b>> \in cows' <=> <<a, b>> \in cows
    BY <1>7, <1>11
  <2> QED BY <1>7, <1>10, <1>11, <2>1, KeptStays
<1>12. ASSUME NEW i, SlotOf(m + 1) = i PROVE Put(id, i)'
  <2>1. m + 1 \in numComputed'[s] + 1 .. numComputed'[s] + chunk'[s]
    BY <1>3
  <2>2. table'[s][BlockOf(m + 1)] = id
    BY <1>3, <1>5
  <2> QED BY <1>12, <2>1, <2>2 DEF Put
<1>13. ASSUME NEW h \in Hashes, NEW b \in Blocks, b # cur, b = pool.cached[h], NEW i \in 1 .. BlockSize,
              NEW u, u = Prefix(h, Len(h) - BlockSize + i)
       PROVE  Kept(b, i, u)'
  <2>1. b # None /\ ~Pending(b)
    BY <1>7, AllocatorAssumption DEF Pending
  <2>2. HashKept(b, h)
    BY <1>9, <1>13, <2>1 DEF CachedKept
  <2>3. Kept(b, i, u)
    BY <1>13, <2>2 DEF HashKept
  <2> QED BY <1>11, <1>13, <2>3
<1>14. ASSUME NEW r \in Seqs, r # s PROVE SeqKept(r)'
  <2> SUFFICES ASSUME NEW pos \in 1 .. numComputed[r]
               PROVE  Kept(table[r][BlockOf(pos)], SlotOf(pos), Prefix(tokens[r], pos))'
    BY <1>4, <1>14 DEF SeqKept
  <2>1. pos \in 1 .. Len(tokens[r]) /\ Len(table[r]) = NumBlocks(Len(tokens[r]))
    <3>1. numComputed[r] \in Nat /\ chunk[r] \in Nat /\ Len(tokens[r]) \in Nat /\ Sized(r) /\ None \notin Seqs
      BY IInvFacts, AllocatorAssumption DEF IInv
    <3> QED BY <1>7, <3>1 DEF Sized
  <2>2. BlockOf(pos) \in DOMAIN table[r] /\ table[r][BlockOf(pos)] \in Blocks
    BY <2>1, InTable
  <2>3. table[r][BlockOf(pos)] # cur
    BY <1>7, <1>14, <2>2 DEF Has
  <2>4. PICK b, u : b = table[r][BlockOf(pos)] /\ u = Prefix(tokens[r], pos)
    OBVIOUS
  <2>5. Kept(b, SlotOf(pos), u)
    BY <1>9, <2>4 DEF SeqKept
  <2>6. Kept(b, SlotOf(pos), u)'
    BY <1>11, <2>2, <2>3, <2>4, <2>5
  <2> QED BY <1>4, <1>14, <2>4, <2>6
<1>15. SeqKept(s)'
  <2> SUFFICES ASSUME NEW pos \in 1 .. m
               PROVE  Kept(table[s][BlockOf(pos)], SlotOf(pos), Prefix(tokens[s], pos))'
    BY <1>3 DEF SeqKept
  <2>1. pos \in Nat \ {0} /\ pos <= n * BlockSize
    <3>1. n * BlockSize \in Nat
      BY Products
    <3> QED BY <1>3, <3>1
  <2>2. BlockOf(pos) \in 1 .. n /\ SlotOf(pos) \in 1 .. BlockSize
    BY <2>1, BlockWithin, PositionFacts
  <2>3. PICK b, u : b = table'[s][BlockOf(pos)] /\ u = Prefix(t, pos)
    OBVIOUS
  <2>4. CASE BlockOf(pos) \in 1 .. n - 1
    <3>1. BlockOf(pos) \in DOMAIN table[s] /\ b = table[s][BlockOf(pos)] /\ b # cur
      BY <1>5, <2>3, <2>4
    <3>2. b \in Blocks
      BY <3>1, GoodFacts DEF IInv
    <3>3. u = Prefix(tokens[s], pos)
      <4>1. pos \in 0 .. m
        BY <1>3
      <4> QED BY <1>3, <2>3, <4>1
    <3>4. Kept(b, SlotOf(pos), u)
      BY <1>7, <1>9, <3>1, <3>3 DEF SeqKept
    <3>5. Kept(b, SlotOf(pos), u)'
      BY <1>11, <3>1, <3>2, <3>4
    <3> QED BY <1>3, <2>3, <3>5
  <2>5. CASE BlockOf(pos) = n /\ id = cur
    <3>1. Kept(b, SlotOf(pos), u)'
      BY <1>5, <1>8, <2>3, <2>5
    <3> QED BY <1>3, <2>3, <3>1
  <2>6. CASE BlockOf(pos) = n /\ id # cur
    <3>1. /\ IsFull(t, n) /\ b = pool.cached[t] /\ b # None /\ b # cur
          /\ t \in Hashes /\ HashAt(t, n) = t
      BY <1>5, <1>6, <2>3, <2>6
    <3>2. b \in Blocks
      BY <3>1, GoodFacts DEF IInv
    <3>3. t \in SeqsUpTo(MaxLen)
      BY <3>1 DEF Hashes
    <3>4. Len(t) - BlockSize + SlotOf(pos) = pos
      BY <2>1, <2>6, <3>1, <3>3, HashSlot
    <3>5. Kept(b, SlotOf(pos), u)'
      BY <1>13, <2>2, <2>3, <3>1, <3>2, <3>4
    <3> QED BY <1>3, <2>3, <3>5
  <2> QED BY <2>2, <2>4, <2>5, <2>6
<1>16. CachedKept'
  <2> SUFFICES ASSUME NEW h \in Hashes, pool'.cached[h] # None, NEW i \in 1 .. BlockSize
               PROVE  Kept(pool.cached[h], i, Prefix(h, Len(h) - BlockSize + i))'
    BY DEF CachedKept, HashKept
  <2>1. PICK b, u : b = pool'.cached[h] /\ u = Prefix(h, Len(h) - BlockSize + i)
    OBVIOUS
  <2>2. CASE b = pool.cached[h] /\ b # cur
    <3>1. b \in Blocks
      BY <2>1, <2>2, GoodFacts DEF IInv
    <3>2. Kept(b, i, u)'
      BY <1>13, <2>1, <2>2, <3>1
    <3> QED BY <2>1, <3>2
  <2>3. CASE h = t /\ IsFull(t, n) /\ b = cur /\ id = cur
    <3> DEFINE pos == (n - 1) * BlockSize + i
    <3>1. pos \in Nat \ {0} /\ BlockOf(pos) = n /\ SlotOf(pos) = i
      BY PositionOf
    <3>2. Len(h) - BlockSize + i = pos /\ pos <= m + 1
      <4>1. (n - 1) * BlockSize = n * BlockSize - BlockSize /\ n * BlockSize \in Nat
        BY Products
      <4>2. BlockSize \in Nat /\ Len(h) = n * BlockSize /\ Len(h) = m + 1
        BY <1>3, <1>6, <2>3, AllocatorAssumption
      <4> QED BY <4>1, <4>2
    <3> HIDE DEF pos
    <3>3. CASE pos = m + 1
      <4>1. Put(b, i)'
        BY <1>12, <2>3, <3>1, <3>3
      <4> QED BY <2>1, <4>1 DEF Kept
    <3>4. CASE pos # m + 1
      <4>1. pos \in 1 .. m
        BY <1>3, <3>1, <3>2, <3>4
      <4>2. u = Prefix(t, pos)
        BY <2>1, <2>3, <3>2
      <4>3. Kept(b, SlotOf(pos), u)'
        BY <1>8, <2>3, <3>1, <4>1, <4>2
      <4> QED BY <2>1, <3>1, <4>3
    <3> QED BY <3>3, <3>4
  <2> QED BY <1>6, <2>1, <2>2, <2>3
<1>17. /\ ~Placed(s) /\ Placed(s)' /\ \A r \in Seqs : r # s => (Placed(r)' <=> Placed(r))
  BY <1>3, <1>4, <1>7, AllocatorAssumption DEF Placed
<1>18. TouchedPlaced'
  <2> SUFFICES ASSUME NEW b \in pool'.touched PROVE \E r \in Seqs : Placed(r)' /\ Has(table'[r], b)
    BY DEF TouchedPlaced
  <2>1. CASE b \in pool.touched
    <3>1. PICK r \in Seqs : Placed(r) /\ Has(table[r], b)
      BY <1>9, <2>1 DEF TouchedPlaced
    <3> QED BY <1>4, <1>17, <3>1
  <2>2. CASE b = cur /\ id = cur
    BY <1>5, <1>17, <2>2 DEF Has
  <2> QED BY <1>6, <2>1, <2>2
<1>19. Stored(pool)'
  BY <1>6, <1>7 DEF Stored, Holds
<1>20. WholeChunks'
  <2>1. None \notin Seqs
    BY AllocatorAssumption
  <2> QED BY <1>3, <1>4, <1>7, <1>9, <2>1 DEF WholeChunks
<1>21. ASSUME NEW i \in DOMAIN table'[s], ~IsFull(t, i) PROVE i = n /\ table'[s][i] = cur
  <2>1. i = n
    BY <1>5, <1>21
  <2> QED BY <1>5, <1>6, <1>21, <2>1
<1>22. TailsOwn'
  <2> SUFFICES ASSUME NEW r \in Seqs, NEW q \in Seqs, NEW i \in DOMAIN table'[r],
                      Placed(r)', ~IsFull(tokens'[r], i), q # r, Has(table'[q], table'[r][i])
               PROVE  FALSE
    BY DEF TailsOwn
  <2>1. PICK j \in DOMAIN table'[q] : table'[q][j] = table'[r][i]
    BY DEF Has
  <2>2. i = j /\ ~IsFull(tokens'[q], j)
    <3>1. SamePlace(tokens', table')
      BY DEF IInv, Good
    <3> QED BY <2>1, <3>1 DEF SamePlace
  <2>3. CASE r = s
    <3>1. table'[r][i] = cur /\ table'[q] = table[q]
      BY <1>3, <1>4, <1>21, <2>3
    <3> QED BY <1>7, <2>3, <3>1
  <2>4. CASE q = s
    <3>1. table'[q][j] = cur /\ table'[r] = table[r]
      BY <1>3, <1>4, <1>21, <2>2, <2>4
    <3>2. Has(table[r], cur)
      BY <2>1, <3>1 DEF Has
    <3> QED BY <1>7, <2>4, <3>2
  <2>5. CASE r # s /\ q # s
    BY <1>4, <1>9, <1>17, <2>5 DEF TailsOwn
  <2> QED BY <2>3, <2>4, <2>5
<1>23. TargetsPlaced'
  <2>1. chunk'[s] > 0
    BY <1>3
  <2>2. ASSUME NEW c \in cows', NEW r \in Seqs, NEW i \in DOMAIN table'[r],
               table'[r][i] = c[2], ~IsFull(tokens'[r], i)
        PROVE  Placed(r)'
    <3>1. CASE r = s
      BY <1>17, <3>1
    <3>2. CASE r # s
      <4>1. table'[r] = table[r] /\ tokens'[r] = tokens[r]
        BY <1>4, <3>2
      <4>2. c[2] # cur
        BY <1>7, <2>2, <3>2, <4>1 DEF Has
      <4>3. c \in cows
        BY <1>7, <4>2
      <4> QED BY <1>9, <1>17, <2>2, <3>2, <4>1, <4>3 DEF TargetsPlaced
    <3> QED BY <3>1, <3>2
  <2> QED BY <2>1, <2>2 DEF TargetsPlaced
<1>24. \A r \in Seqs : SeqKept(r)'
  BY <1>14, <1>15
<1> QED BY <1>6, <1>16, <1>18, <1>19, <1>20, <1>22, <1>23, <1>24 DEF WInv

LEMMA AppendNewBlockWInv ==
  ASSUME IInv, WInv, NEW s \in Seqs, NEW token \in Tokens, NEW b \in Blocks, AppendNewBlock(s, token, b)
  PROVE  WInv'
<1>0. PICK L, p, t : L = Len(table[s]) /\ p = AllocateBlockId(pool, b) /\ t = Append(tokens[s], token)
  OBVIOUS
<1>1. /\ Decoding(s) /\ IsFull(tokens[s], L) /\ Allocatable(pool, b) /\ AppendTo(s, t, p, b)
      /\ UNCHANGED <<chunked, numComputed, allocating, cows, kv>>
  BY <1>0 DEF AppendNewBlock
<1>2. /\ Good(pool, tokens, table) /\ allocating = None /\ numComputed[s] = Len(tokens[s])
      /\ L \in Nat \ {0} /\ table[s] \in Seq(Blocks)
      /\ ~IsFull(tokens[s], L + 1) /\ NumBlocks(Len(tokens[s]) + 1) = L + 1
  BY <1>0, <1>1, DecodingFacts
<1>3. chunk[s] = 0
  BY <1>1 DEF Decoding
<1>4. Good(p, tokens, [table EXCEPT ![s] = Append(table[s], b)]) /\ p.ref[b] = 1
  BY <1>0, <1>1, <1>2, PushTail
<1>5. PICK n : n = L + 1
  OBVIOUS
<1>6. n \in Nat \ {0} /\ n - 1 = L /\ n - 1 <= Len(table[s]) /\ n = NumBlocks(Len(tokens[s]) + 1)
  BY <1>0, <1>2, <1>5
<1>7. Prefix(table[s], n - 1) = table[s]
  BY <1>0, <1>2, <1>6, WholePrefix
<1>8. Good(p, tokens, [table EXCEPT ![s] = Append(Prefix(table[s], n - 1), b)])
  BY <1>4, <1>7
<1>9. pool.ref[b] = 0 /\ \A r \in Seqs : ~Has(table[r], b)
  BY <1>1, AllocatableFacts
<1>10. /\ Marks(p) /\ Stored(p) /\ p.touched = pool.touched
       /\ \A h \in Hashes : p.cached[h] # None => p.cached[h] = pool.cached[h]
  BY <1>0, <1>2, <1>9, WInvFacts, AllocateMarks
<1>11. ASSUME NEW pos \in 1 .. Len(tokens[s]) PROVE BlockOf(pos) # n
  <2>1. Len(tokens[s]) \in Nat /\ L = NumBlocks(Len(tokens[s]))
    BY <1>0, <1>2, IInvFacts, AllocatorAssumption DEF IInv, Sized
  <2>2. Len(tokens[s]) <= L * BlockSize /\ L * BlockSize \in Nat
    BY <1>2, <2>1, NumBlocksFacts, Products
  <2>3. pos \in Nat \ {0} /\ pos <= L * BlockSize
    BY <2>1, <2>2
  <2>4. BlockOf(pos) \in 1 .. L
    BY <1>2, <2>3, BlockWithin
  <2> QED BY <1>2, <1>5, <2>4
<1>12. Joins(s, t, p, b, n)
  BY <1>0, <1>1, <1>2, <1>3, <1>4, <1>6, <1>8, <1>9, <1>10, <1>11 DEF Joins
<1>13. IInv'
  BY AppendNewBlockStep
<1> QED BY <1>6, <1>12, <1>13, JoinWInv

\* The only holder of a block.
LEMMA SoleHolder ==
  ASSUME IInv, NEW s \in Seqs, NEW b \in Blocks, Has(table[s], b), pool.ref[b] = 1,
         NEW r \in Seqs, r # s
  PROVE  ~Has(table[r], b)
<1> SUFFICES ASSUME Has(table[r], b) PROVE FALSE
  OBVIOUS
<1> DEFINE H == Holders(table, b)
<1>1. s \in H /\ r \in H /\ H \subseteq Seqs /\ IsFiniteSet(H)
  BY FS_Subset, AllocatorAssumption DEF Holders, Has
<1>2. Cardinality(H) = 1
  BY DEF IInv, Good, Counted
<1> HIDE DEF H
<1>3. \E x : H = {x}
  BY <1>1, <1>2, FS_Singleton
<1> QED BY <1>1, <1>3

LEMMA AppendInPlaceWInv ==
  ASSUME IInv, WInv, NEW s \in Seqs, NEW token \in Tokens, AppendInPlace(s, token)
  PROVE  WInv'
<1>0. PICK L, b, p, t : L = Len(table[s]) /\ b = LastBlock(s) /\ p = pool /\ t = Append(tokens[s], token)
  OBVIOUS
<1>1. /\ Decoding(s) /\ ~IsFull(tokens[s], L) /\ pool.ref[b] <= 1
      /\ AppendTo(s, t, p, b)
      /\ UNCHANGED <<chunked, numComputed, allocating, cows, kv>>
  BY <1>0 DEF AppendInPlace
<1>2. /\ Good(pool, tokens, table) /\ allocating = None /\ numComputed[s] = Len(tokens[s])
      /\ L \in Nat \ {0} /\ table[s] \in Seq(Blocks) /\ DOMAIN table[s] = 1 .. L
      /\ b \in Blocks /\ b = table[s][L] /\ NumBlocks(Len(tokens[s]) + 1) = L
  BY <1>0, <1>1, DecodingFacts
<1>3. chunk[s] = 0
  BY <1>1 DEF Decoding
<1>4. L \in DOMAIN table[s] /\ Has(table[s], b)
  BY <1>2 DEF Has
<1>5. pool.ref[b] = 1
  <2>1. pool.ref[b] \in Nat
    BY <1>2, GoodFacts
  <2>2. pool.ref[table[s][L]] > 0
    BY <1>2, <1>4, HeldFacts
  <2> QED BY <1>1, <1>2, <2>1, <2>2
<1>6. \A r \in Seqs : r # s => ~Has(table[r], b)
  BY <1>2, <1>4, <1>5, SoleHolder
<1>7. Append(Prefix(table[s], L - 1), b) = table[s]
  <2>1. L # 0 => Append(Prefix(table[s], L - 1), table[s][L]) = table[s]
    BY <1>0, <1>2, WholePrefix
  <2> QED BY <1>2, <2>1
<1>8. [table EXCEPT ![s] = table[s]] = table
  BY IInvFacts
<1>9. Good(p, tokens, [table EXCEPT ![s] = Append(Prefix(table[s], L - 1), b)]) /\ L - 1 <= Len(table[s])
  <2>1. L - 1 <= Len(table[s])
    BY <1>0, <1>2
  <2> QED BY <1>0, <1>2, <1>7, <1>8, <2>1
<1>10. Marks(p) /\ Stored(p) /\ p.touched = pool.touched /\ p.cached = pool.cached /\ p.ref[b] = 1
  BY <1>0, <1>5, WInvFacts
<1>11. BusyStay
  <2>1. \A r \in Seqs : r # s =>
          table'[r] = table[r] /\ tokens'[r] = tokens[r] /\ chunk'[r] = chunk[r]
    BY <1>1, IInvFacts DEF AppendTo
  <2> QED BY <1>1, <1>3, <2>1 DEF BusyStay
<1>12. ASSUME NEW pos \in 1 .. Len(tokens[s]), NEW u, BlockOf(pos) = L, u = Prefix(tokens[s], pos)
       PROVE  Kept(b, SlotOf(pos), u)'
  <2>1. Kept(b, SlotOf(pos), u)
    BY <1>2, <1>12, WInvFacts DEF SeqKept
  <2> QED BY <1>1, <1>11, <2>1, AllKeptStays
<1>13. Joins(s, t, p, b, L)
  BY <1>0, <1>1, <1>2, <1>3, <1>6, <1>9, <1>10, <1>12 DEF Joins
<1>14. IInv'
  BY AppendInPlaceStep
<1> QED BY <1>2, <1>13, <1>14, JoinWInv

LEMMA AppendCopyOnWriteWInv ==
  ASSUME IInv, WInv, OneCopyPerTarget', NEW s \in Seqs, NEW token \in Tokens, NEW b \in Blocks,
         AppendCopyOnWrite(s, token, b)
  PROVE  WInv'
<1>0. PICK L, src, t : L = Len(table[s]) /\ src = LastBlock(s) /\ t = Append(tokens[s], token)
  OBVIOUS
<1>1. PICK released, pre, tab : released = DecrRefcountHashless(pool, src) /\ pre = Prefix(table[s], L - 1)
                                /\ tab = [table EXCEPT ![s] = pre]
  OBVIOUS
<1>2. PICK p : p = AllocateBlockId(released, b)
  OBVIOUS
<1>3. /\ Decoding(s) /\ ~IsFull(tokens[s], L) /\ Allocatable(released, b)
      /\ AppendTo(s, t, p, b) /\ cows' = cows \cup {<<src, b>>}
      /\ UNCHANGED <<chunked, numComputed, allocating, kv>>
  BY <1>0, <1>1, <1>2 DEF AppendCopyOnWrite
<1>4. /\ Good(pool, tokens, table) /\ allocating = None /\ numComputed[s] = Len(tokens[s])
      /\ L \in Nat \ {0} /\ table[s] \in Seq(Blocks) /\ DOMAIN table[s] = 1 .. L
      /\ src \in Blocks /\ src = table[s][L] /\ NumBlocks(Len(tokens[s]) + 1) = L
  BY <1>0, <1>3, DecodingFacts
<1>5. chunk[s] = 0 /\ ~Placed(s)
  BY <1>3, <1>4, AllocatorAssumption DEF Decoding, Placed
<1>6. L \in DOMAIN table[s] /\ Has(table[s], src)
  BY <1>4 DEF Has
<1>7. Good(released, tokens, tab)
  <2>1. Len(table[s]) > 0 /\ ~IsFull(tokens[s], Len(table[s])) /\ src = table[s][Len(table[s])]
    BY <1>0, <1>3, <1>4
  <2> QED BY <1>0, <1>1, <1>4, <2>1, DropTail
<1>8. pool.ref[src] # 0 /\ ~Indexed(pool, src)
  <2>1. /\ pool.ref[table[s][L]] > 0
        /\ \A h \in Hashes : pool.cached[h] = table[s][L] => IsFull(tokens[s], L)
    BY <1>4, <1>6, HeldFacts
  <2> QED BY <1>3, <1>4, <2>1 DEF Indexed
<1>9. Marks(released) /\ Stored(released) /\ released.touched = pool.touched /\ released.cached = pool.cached
  BY <1>1, <1>4, <1>8, WInvFacts, DecrMarks
<1>10. released.ref[b] = 0
  BY <1>3, <1>7 DEF Good, Counted, Allocatable, Evictable
<1>11. /\ Marks(p) /\ Stored(p) /\ p.touched = pool.touched
       /\ \A h \in Hashes : p.cached[h] # None => p.cached[h] = pool.cached[h]
  <2>1. /\ Marks(p) /\ Stored(p) /\ p.touched = released.touched
        /\ \A h \in Hashes : p.cached[h] # None => p.cached[h] = released.cached[h]
    BY <1>2, <1>7, <1>9, <1>10, AllocateMarks
  <2> QED BY <1>9, <2>1
<1>12. tab[s] = pre /\ \A r \in Seqs : r # s => tab[r] = table[r]
  BY <1>1, IInvFacts
<1>13. \A r \in Seqs : r # s => ~Has(table[r], b)
  BY <1>7, <1>10, <1>12, UnheldFacts DEF Has
<1>14. Good(p, tokens, [table EXCEPT ![s] = Append(Prefix(table[s], L - 1), b)]) /\ p.ref[b] = 1
  <2>1. Len(pre) = L - 1
    <3>1. L - 1 \in 0 .. Len(table[s])
      BY <1>0, <1>4
    <3> QED BY <1>1, <1>4, <3>1, BlockPrefix
  <2>2. Len(tab[s]) + 1 = L
    BY <1>4, <1>12, <2>1
  <2>3. ~IsFull(tokens[s], Len(tab[s]) + 1)
    BY <1>3, <2>2
  <2>4. Good(p, tokens, [tab EXCEPT ![s] = Append(tab[s], b)]) /\ p.ref[b] = 1
    BY <1>2, <1>3, <1>7, <2>3, PushTail
  <2>5. [tab EXCEPT ![s] = Append(tab[s], b)] = [table EXCEPT ![s] = Append(pre, b)]
    BY <1>1, <1>12
  <2> QED BY <1>1, <2>4, <2>5
<1>15. ASSUME NEW i, Put(src, i) PROVE FALSE
  <2>1. PICK r \in Seqs : \E at \in numComputed[r] + 1 .. numComputed[r] + chunk[r] :
          table[r][BlockOf(at)] = src /\ SlotOf(at) = i
    BY <1>15 DEF Put
  <2>2. PICK at \in numComputed[r] + 1 .. numComputed[r] + chunk[r] : table[r][BlockOf(at)] = src
    BY <2>1
  <2>3. numComputed[r] \in Nat /\ chunk[r] \in Nat /\ Sized(r) /\ None \notin Seqs /\ Len(tokens[r]) \in Nat
    BY IInvFacts, AllocatorAssumption DEF IInv
  <2>4. chunk[r] > 0 /\ at \in 1 .. Len(tokens[r]) /\ Len(table[r]) = NumBlocks(Len(tokens[r]))
    BY <1>4, <2>3 DEF Sized
  <2>5. BlockOf(at) \in DOMAIN table[r]
    BY <2>4, InTable
  <2>6. Placed(r) /\ r # s
    BY <1>5, <2>4 DEF Placed
  <2>7. ~IsFull(tokens[r], BlockOf(at))
    BY <1>3, <1>4, <1>6, <2>2, <2>5 DEF Good, SamePlace
  <2> QED BY <1>6, <2>2, <2>5, <2>6, <2>7, WInvFacts DEF TailsOwn
<1>16. \A a \in Blocks : <<a, src>> \notin cows
  <2> SUFFICES ASSUME NEW a \in Blocks, <<a, src>> \in cows PROVE FALSE
    OBVIOUS
  <2>1. <<a, src>>[2] = src
    OBVIOUS
  <2> QED BY <1>3, <1>4, <1>5, <1>6, <2>1, WInvFacts DEF TargetsPlaced
<1>17. ASSUME NEW pos \in 1 .. Len(tokens[s]), NEW u, BlockOf(pos) = L, u = Prefix(tokens[s], pos)
       PROVE  Kept(b, SlotOf(pos), u)'
  <2>1. Kept(src, SlotOf(pos), u)
    BY <1>4, <1>17, WInvFacts DEF SeqKept
  <2>2. kv[src][SlotOf(pos)] = u
    BY <1>15, <1>16, <2>1 DEF Kept, Stays
  <2>3. <<src, b>> \in cows'
    BY <1>3
  <2>4. \A a \in Blocks : <<a, b>> \in cows' => a = src
    <3> SUFFICES ASSUME NEW a \in Blocks, <<a, b>> \in cows' PROVE a = src
      OBVIOUS
    <3>1. <<a, b>>[2] = <<src, b>>[2]
      OBVIOUS
    <3>2. <<a, b>> = <<src, b>>
      BY <2>3, <3>1 DEF OneCopyPerTarget
    <3> QED BY <3>2
  <2> QED BY <1>3, <1>4, <2>2, <2>3, <2>4 DEF Kept, Stays
<1>18. /\ \A a, d \in Blocks : d # b => (<<a, d>> \in cows' <=> <<a, d>> \in cows)
       /\ \A c \in cows' : c \in cows \/ c[2] = b
  BY <1>3
<1>19. L - 1 <= Len(table[s])
  BY <1>0, <1>4
<1>20. Joins(s, t, p, b, L)
  BY <1>0, <1>3, <1>4, <1>5, <1>11, <1>13, <1>14, <1>17, <1>18, <1>19 DEF Joins
<1>21. IInv'
  BY AppendCopyOnWriteStep
<1> QED BY <1>4, <1>20, <1>21, JoinWInv

-----------------------------------------------------------------------------
(* Both parts of the property *)

\* Without chunked prefill; a run never changes that.
WholeInv == ~chunked => WInv

LEMMA NextWholeInv == IInv /\ WholeInv /\ OneCopyPerTarget' /\ [Next]_vars => WholeInv'
<1> SUFFICES ASSUME IInv, WholeInv, OneCopyPerTarget', [Next]_vars, ~chunked' PROVE WInv'
  BY DEF WholeInv
<1>1. CASE UNCHANGED vars
  <2>1. ~chunked /\ WInv
    BY <1>1 DEF vars, WholeInv
  <2> QED BY <1>1, <2>1 DEF vars, WInv, SeqKept, CachedKept, HashKept, Kept, Put, Stays, Pending, Marks,
        Indexed, Stored, Holds, TouchedPlaced, WholeChunks, TailsOwn, TargetsPlaced, Placed
<1>2. CASE Next
  <2>1. ~chunked
    BY <1>2 DEF Next, BeginAllocate, AllocateHit, AllocateMiss, AllocateTail, EndAllocate,
       ContinuePrefill, AppendNewBlock, AppendInPlace, AppendCopyOnWrite, Fork, Free, Execute
  <2>2. WInv
    BY <2>1 DEF WholeInv
  <2>3. CASE \E s \in Seqs, prompt \in Prompts : BeginAllocate(s, prompt)
    BY <2>2, <2>3, BeginAllocateWInv
  <2>4. CASE \E s \in Seqs : AllocateHit(s)
    BY <2>2, <2>4, AllocateHitWInv
  <2>5. CASE \E s \in Seqs, b \in Blocks : AllocateMiss(s, b)
    BY <2>2, <2>5, AllocateMissWInv
  <2>6. CASE \E s \in Seqs, b \in Blocks : AllocateTail(s, b)
    BY <2>2, <2>6, AllocateTailWInv
  <2>7. CASE \E s \in Seqs, k \in 0 .. MaxLen, n \in 1 .. MaxLen : EndAllocate(s, k, n)
    BY <2>1, <2>2, <2>7, EndAllocateWInv
  <2>8. CASE \E s \in Seqs, n \in 1 .. MaxLen : ContinuePrefill(s, n)
    BY <2>2, <2>8, ContinuePrefillWInv
  <2>9. CASE \E s \in Seqs, t \in Tokens, b \in Blocks : AppendNewBlock(s, t, b)
    BY <2>2, <2>9, AppendNewBlockWInv
  <2>10. CASE \E s \in Seqs, t \in Tokens : AppendInPlace(s, t)
    BY <2>2, <2>10, AppendInPlaceWInv
  <2>11. CASE \E s \in Seqs, t \in Tokens, b \in Blocks : AppendCopyOnWrite(s, t, b)
    BY <2>2, <2>11, AppendCopyOnWriteWInv
  <2>12. CASE \E s, c \in Seqs : Fork(s, c)
    BY <2>2, <2>12, ForkWInv
  <2>13. CASE \E s \in Seqs : Free(s)
    BY <2>2, <2>13, FreeWInv
  <2>14. CASE Execute
    BY <2>2, <2>14, ExecuteWInv
  <2> QED BY <1>2, <2>3, <2>4, <2>5, <2>6, <2>7, <2>8, <2>9, <2>10, <2>11, <2>12, <2>13, <2>14 DEF Next
<1> QED BY <1>1, <1>2

LEMMA WholeInvStored == IInv /\ WholeInv => WholePrefillsStored
<1> SUFFICES ASSUME IInv, WInv PROVE ComputedTokensStored /\ ComputedBlocksStored
  BY DEF WholeInv, WholePrefillsStored
<1>1. ComputedBlocksStored
  BY WInvFacts DEF Stored, ComputedBlocksStored
<1>2. ComputedTokensStored
  <2> SUFFICES ASSUME Scheduled = {}, NEW s \in Running, NEW pos \in 1 .. numComputed[s]
               PROVE  HoldsPosition(s, pos)
    BY DEF ComputedTokensStored
  <2>1. s \in Seqs /\ \A r \in Seqs : ~(chunk[r] > 0)
    BY DEF Running, Scheduled
  <2>2. cows = {}
    BY <2>1, WInvFacts DEF TargetsPlaced
  <2>3. \A b, i : ~Put(b, i)
    <3> SUFFICES ASSUME NEW b, NEW i, NEW r \in Seqs,
                        NEW at \in numComputed[r] + 1 .. numComputed[r] + chunk[r]
                 PROVE  FALSE
      BY DEF Put
    <3>1. numComputed[r] \in Nat /\ chunk[r] \in Nat
      BY IInvFacts
    <3> QED BY <2>1, <3>1
  <2>4. Kept(table[s][BlockOf(pos)], SlotOf(pos), Prefix(tokens[s], pos))
    BY <2>1, WInvFacts DEF SeqKept
  <2>5. Stays(table[s][BlockOf(pos)], SlotOf(pos), Prefix(tokens[s], pos))
    BY <2>3, <2>4 DEF Kept
  <2> QED BY <2>2, <2>5 DEF Stays, HoldsPosition
<1> QED BY <1>1, <1>2

\* Sharing, copy-on-write, promotion, eviction and reuse of blocks never leave a sequence
\* attending to KV of other tokens, and block_is_computed is true only of blocks that hold
\* their content: while prompts are computed whole and no step copies to one block twice.
\* The second hypothesis is needed: record_cow can keep the pair of a target that
\* promote_to_immutable_block gave up and another copy got.
THEOREM WholePrefillsAlwaysStored == Spec /\ []OneCopyPerTarget => []WholePrefillsStored
<1>1. Init => WholeInv
  BY InitWInv DEF WholeInv
<1>2. IInv /\ WholeInv /\ OneCopyPerTarget' /\ [Next]_vars => WholeInv'
  BY NextWholeInv
<1>3. IInv /\ WholeInv => WholePrefillsStored
  BY WholeInvStored
<1>4. Spec => []IInv
  BY IInvHolds
<1> QED BY <1>1, <1>2, <1>3, <1>4, PTL DEF Spec

-----------------------------------------------------------------------------
(* The inductive invariant, on top of IInv of the allocator *)

\* k is NoKey or the key of some whole blocks of s, of at most n tokens.
PrefixOf(k, s, n) ==
  /\ k \in Hashes \cup {NoKey}
  /\ Len(k) <= n /\ k = Prefix(tokens[s], Len(k))

Distinct(order) == \A i, j \in DOMAIN order : order[i] = order[j] => i = j

In(order, k) == \E i \in DOMAIN order : order[i] = k

\* The scheduler's index, and what the workers keep for it.
IndexInv ==
  /\ resident \in Seq(Hashes) /\ Len(resident) <= GdnCapacity
  /\ Distinct(resident)
  /\ DOMAIN saved = Resident
  /\ \A k \in DOMAIN saved : saved[k] = StateOf(k)

\* One sequence at a time.
OneSequence == \A s, r \in Seqs : tokens[s] # << >> /\ tokens[r] # << >> => s = r

\* Recurrent states.
Window == [1 .. ConvLen -> Tokens \cup {None}]
Taken == [history : Window, token : Tokens]
States == [conv : Window, temporal : Seq(Taken)]

\* n tokens are whole blocks.
Whole(n) == \E m \in Nat : n = m * BlockSize

\* A prefill step ends with the prompt or with a block: only the last one is short.
StepWhole(s) == StepEnd(s) = Len(tokens[s]) \/ Whole(StepEnd(s))

\* A sequence before its first step.
Fresh(s) ==
  /\ stage[s] = "none" /\ restoreKey[s] = NoKey /\ targets[s] = {}
  /\ mamba[s] = ZeroState /\ s \notin historyLost
  /\ numComputed[s] = 0 /\ chunk[s] = 0

\* The first step: it starts at the restore key, which is the most recently used one.
First(s) ==
  /\ stage[s] = "first" /\ chunk[s] > 0 /\ mamba[s] = ZeroState /\ s \notin historyLost
  /\ numComputed[s] = Len(restoreKey[s]) /\ StepWhole(s)
  /\ restoreKey[s] # NoKey => resident # << >> /\ resident[Len(resident)] = restoreKey[s]

\* Later steps: the state has folded the computed tokens, and is the right one unless
\* the last step of the prompt was short.
Later(s) ==
  /\ stage[s] \in {"prefill", "decode"} /\ mamba[s] \in States
  /\ FoldsOnce(mamba[s], tokens[s], numComputed[s])
  /\ s \notin historyLost => mamba[s] = StateOf(Prefix(tokens[s], numComputed[s]))
  /\ stage[s] = "prefill" => s \notin historyLost /\ Whole(numComputed[s])
  /\ chunk[s] > 0 => StepWhole(s)
  /\ stage[s] = "decode" => targets[s] = {} /\ restoreKey[s] = NoKey
  /\ stage[s] = "decode" /\ chunk[s] > 0 => StepEnd(s) = Len(tokens[s])

\* The keys a sequence has, and the step that ends at the next capture.
KeysInv(s) ==
  /\ PrefixOf(restoreKey[s], s, Len(tokens[s]))
  /\ \A k \in targets[s] : k # NoKey /\ PrefixOf(k, s, Len(tokens[s]))
  /\ \E a, b \in Hashes \cup {NoKey} : targets[s] \subseteq {a, b}
  /\ Policy = "admission64" /\ chunk[s] > 0 =>
       \A k \in targets[s] : Len(k) <= numComputed[s] \/ Len(k) >= StepEnd(s)

SeqInv(s) ==
  /\ KeysInv(s)
  /\ tokens[s] = << >> \/ allocating = s => Fresh(s)
  /\ tokens[s] # << >> /\ allocating # s => First(s) \/ Later(s)

GInv ==
  /\ IInv
  /\ config \in GdnConfigs
  /\ restoreKey \in [Seqs -> Hashes \cup {NoKey}] /\ targets \in [Seqs -> SUBSET Hashes]
  /\ stage \in [Seqs -> Stages] /\ DOMAIN mamba = Seqs /\ historyLost \in SUBSET Seqs
  /\ IndexInv
  /\ OneSequence
  /\ \A s \in Seqs : SeqInv(s)

-----------------------------------------------------------------------------
(* Least and greatest elements *)

LEMMA LeastNatural ==
  ASSUME NEW T \in SUBSET Nat, T # {}
  PROVE  \E x \in T : \A y \in T : x <= y
<1> DEFINE R == OpToRel(<, Nat)
<1>1. IsWellFoundedOn(R, Nat)
  BY NatLessThanWellFounded
<1>2. \A x, y \in Nat : y < x => <<y, x>> \in R
  BY DEF OpToRel
<1> HIDE DEF R
<1>3. PICK x \in T : \A y \in T : ~ (<<y, x>> \in R)
  BY <1>1, WFMin
<1>4. ASSUME NEW y \in T PROVE x <= y
  <2>1. x \in Nat /\ y \in Nat /\ ~ (<<y, x>> \in R)
    BY <1>3
  <2>2. ~ (y < x)
    BY <1>2, <2>1, Zenon
  <2> QED
    BY <2>1, <2>2
<1> QED
  BY <1>4

LEMMA MinFacts ==
  ASSUME NEW T \in SUBSET Nat, T # {}
  PROVE  Min(T) \in T /\ \A y \in T : Min(T) <= y
<1>1. \E x \in T : \A y \in T : x =< y
  BY LeastNatural
<1> QED
  BY <1>1 DEF Min

\* The longest of some keys is one of them.
LEMMA LongestFacts ==
  ASSUME NEW keys \in SUBSET Hashes
  PROVE  /\ keys = {} => Longest(keys) = NoKey
         /\ keys # {} => Longest(keys) \in keys /\ Longest(keys) # NoKey
<1>1. ASSUME keys # {}
      PROVE  \E k \in keys : \A other \in keys : Len(other) <= Len(k)
  <2>1. MaxLen \in Nat /\ \A k \in keys : Len(k) \in Nat /\ Len(k) <= MaxLen
    <3>1. MaxLen \in Nat
      BY AllocatorAssumption
    <3>2. ASSUME NEW k \in keys PROVE Len(k) \in Nat /\ Len(k) <= MaxLen
      <4>1. k \in SeqsUpTo(MaxLen)
        BY DEF Hashes
      <4> QED
        BY <3>1, <4>1, SeqsUpToFacts, LenProperties
    <3> QED
      BY <3>1, <3>2
  <2> DEFINE T == {MaxLen - Len(k) : k \in keys}
  <2>2. T \in SUBSET Nat
    BY <2>1
  <2>3. T # {}
    BY <1>1
  <2>4. PICK x \in T : \A y \in T : x <= y
    <3> HIDE DEF T
    <3> QED
      BY <2>2, <2>3, LeastNatural
  <2>5. PICK k \in keys : x = MaxLen - Len(k)
    OBVIOUS
  <2>6. ASSUME NEW other \in keys PROVE Len(other) <= Len(k)
    <3>1. MaxLen - Len(k) <= MaxLen - Len(other)
      BY <2>4, <2>5
    <3> QED
      BY <2>1, <3>1
  <2> QED
    BY <2>6
<1>2. \A k \in Hashes : k # NoKey
  BY DEF Hashes, NoKey
<1> QED
  BY <1>1, <1>2 DEF Longest

-----------------------------------------------------------------------------
(* Keys *)

LEMMA KeyFacts ==
  ASSUME NEW k \in Hashes \cup {NoKey}
  PROVE  /\ k \in Seq(Tokens) /\ k \in SeqsUpTo(MaxLen) /\ Len(k) \in Nat
         /\ k # NoKey => Len(k) > 0 /\ k \in Hashes
         /\ k = NoKey => Len(k) = 0
<1>1. CASE k = NoKey
  <2>1. k \in Seq(Tokens) /\ Len(k) = 0 /\ MaxLen \in Nat
    BY <1>1, AllocatorAssumption DEF NoKey
  <2>2. Len(k) <= MaxLen
    BY <2>1
  <2>3. k \in SeqsUpTo(MaxLen)
    BY <2>1, <2>2, SeqsUpToFacts
  <2> QED
    BY <1>1, <2>1, <2>3
<1>2. CASE k # NoKey
  <2>1. k \in Hashes /\ k \in SeqsUpTo(MaxLen) /\ Len(k) > 0 /\ MaxLen \in Nat
    BY <1>2, AllocatorAssumption DEF Hashes
  <2>2. k \in Seq(Tokens)
    BY <2>1, SeqsUpToFacts
  <2>3. Len(k) \in Nat
    BY <2>2, LenProperties
  <2> QED
    BY <1>2, <2>1, <2>2, <2>3
<1> QED
  BY <1>1, <1>2

\* The key of the first k blocks, which have at most n tokens.
LEMMA KeyAtFacts ==
  ASSUME NEW s \in Seqs, tokens[s] \in SeqsUpTo(MaxLen), NEW k \in Nat, NEW n \in Nat,
         k * BlockSize <= n, n <= Len(tokens[s])
  PROVE  PrefixOf(KeyAt(tokens[s], k), s, n) /\ Len(KeyAt(tokens[s], k)) = k * BlockSize
<1>0. Len(tokens[s]) \in Nat /\ tokens[s] \in Seq(Tokens)
  BY SeqsUpToFacts, AllocatorAssumption, LenProperties
<1>1. CASE k = 0
  <2>1. KeyAt(tokens[s], k) = NoKey /\ Len(NoKey) = 0 /\ k * BlockSize = 0
    BY <1>1, AllocatorAssumption DEF KeyAt, NoKey
  <2>2. Prefix(tokens[s], 0) = << >>
    BY <1>0 DEF Prefix
  <2> QED
    BY <2>1, <2>2 DEF PrefixOf, NoKey
<1>2. CASE k # 0
  <2>1. k \in Nat \ {0} /\ k * BlockSize \in Nat
    BY <1>2, Products
  <2>2. IsFull(tokens[s], k) /\ KeyAt(tokens[s], k) = HashAt(tokens[s], k)
    BY <1>0, <1>2, <2>1 DEF IsFull, KeyAt
  <2>3. HashAt(tokens[s], k) \in Hashes /\ Len(HashAt(tokens[s], k)) = k * BlockSize
    BY <2>1, <2>2, HashFacts
  <2>4. HashAt(tokens[s], k) = Prefix(tokens[s], Len(HashAt(tokens[s], k)))
    BY <2>3 DEF HashAt
  <2> QED
    BY <2>2, <2>3, <2>4 DEF PrefixOf
<1> QED
  BY <1>1, <1>2

\* A quotient times its divisor.
LEMMA Quotients ==
  ASSUME NEW n \in Nat, NEW d \in Nat \ {0}
  PROVE  /\ n \div d \in Nat /\ (n \div d) * d \in Nat /\ (n \div d) * d <= n
         /\ (n \div d + 1) * d \in Nat
<1> DEFINE q == n \div d
<1>1. q \in Nat /\ q * d <= n
  OBVIOUS
<1> HIDE DEF q
<1>2. q * d \in Nat /\ (q + 1) * d \in Nat
  BY <1>1
<1> QED
  BY <1>1, <1>2 DEF q

LEMMA BlockQuotient ==
  ASSUME NEW k \in Nat
  PROVE  ((k * BlockSize) \div BlockSize) * BlockSize = k * BlockSize
<1>1. BlockSize \in Nat \ {0} /\ k * BlockSize \in Nat /\ (k * BlockSize) % BlockSize = 0
  BY AllocatorAssumption, Products
<1> DEFINE m == k * BlockSize
<1> HIDE DEF m
<1>2. m \in Nat /\ m % BlockSize = 0
  BY <1>1 DEF m
<1>3. (m \div BlockSize) * BlockSize = m
  BY <1>1, <1>2
<1> QED
  BY <1>3 DEF m

LEMMA WholeQuotient ==
  ASSUME NEW n \in Nat, n % BlockSize = 0
  PROVE  Whole(n)
<1>1. BlockSize \in Nat \ {0}
  BY AllocatorAssumption
<1>2. n \div BlockSize \in Nat /\ n = (n \div BlockSize) * BlockSize
  BY <1>1
<1> QED
  BY <1>2 DEF Whole

\* The last key that may be captured of n tokens.
LEMMA FinalKeyFacts ==
  ASSUME config \in GdnConfigs, NEW s \in Seqs, tokens[s] \in SeqsUpTo(MaxLen),
         NEW n \in Nat \ {0}, n <= Len(tokens[s])
  PROVE  PrefixOf(FinalCaptureKey(tokens[s], n), s, n)
<1>0. BlockSize \in Nat \ {0} /\ n - 1 \in Nat /\ Alignment \in Nat \ {0}
  BY AllocatorAssumption, GdnAssumption DEF Alignment
<1>1. ASSUME NEW k \in Nat, k * BlockSize <= n - 1 PROVE PrefixOf(KeyAt(tokens[s], k), s, n)
  <2>1. k * BlockSize \in Nat /\ k * BlockSize <= n
    BY <1>0, <1>1, Products
  <2> QED
    BY <2>1, KeyAtFacts
<1>2. PrefixOf(DirectFinalKey(tokens[s], n), s, n)
  <2> DEFINE k == StrictPrefixBlocks(n)
  <2>1. k \in Nat /\ k * BlockSize <= n - 1
    <3>1. CASE n <= 1
      <4>1. k = 0 /\ 0 * BlockSize = 0
        BY <1>0, <3>1 DEF StrictPrefixBlocks
      <4> QED
        BY <1>0, <4>1
    <3>2. CASE ~ (n <= 1)
      BY <1>0, <3>2, Quotients DEF StrictPrefixBlocks
    <3> QED
      BY <3>1, <3>2
  <2> DEFINE j == IF k > 0 /\ n - k * BlockSize < MinReplay THEN k - 1 ELSE k
  <2>2. DirectFinalKey(tokens[s], n) = KeyAt(tokens[s], j)
    BY DEF DirectFinalKey
  <2> HIDE DEF k
  <2>3. j \in Nat /\ j * BlockSize <= n - 1
    <3>1. CASE j = k
      BY <2>1, <3>1
    <3>2. CASE j # k
      <4>1. k > 0 /\ j = k - 1
        BY <3>2
      <4> HIDE DEF j
      <4>2. j \in Nat /\ j * BlockSize = k * BlockSize - BlockSize /\ k * BlockSize \in Nat
        BY <2>1, <4>1, Products
      <4> QED
        BY <1>0, <2>1, <4>2
    <3> QED
      BY <3>1, <3>2
  <2> HIDE DEF j
  <2> QED
    BY <1>1, <2>2, <2>3
<1>3. PrefixOf(AlignedFinalKey(tokens[s], n), s, n)
  <2> DEFINE m == ((n - 1) \div Alignment) * Alignment
             k == m \div BlockSize
  <2>1. m \in Nat /\ m <= n - 1
    BY <1>0, Quotients
  <2>2. AlignedFinalKey(tokens[s], n) = KeyAt(tokens[s], k)
    BY DEF AlignedFinalKey
  <2> HIDE DEF m
  <2>3. k \in Nat /\ k * BlockSize \in Nat /\ k * BlockSize <= m
    BY <1>0, <2>1, Quotients
  <2> HIDE DEF k
  <2>4. k * BlockSize <= n - 1
    BY <1>0, <2>1, <2>3
  <2> QED
    BY <1>1, <2>2, <2>3, <2>4
<1> QED
  BY <1>2, <1>3 DEF FinalCaptureKey

\* The keys a request may be restored at are keys of its own tokens.
LEMMA LiveKeyFacts ==
  ASSUME NEW s \in Seqs, tokens[s] \in SeqsUpTo(MaxLen), NEW key \in LiveKeys(s)
  PROVE  /\ key \in Hashes /\ PrefixOf(key, s, Len(tokens[s]))
         /\ (Len(key) \div BlockSize) * BlockSize = Len(key)
<1> DEFINE n == Len(tokens[s])
<1>0. n \in Nat /\ BlockSize \in Nat \ {0}
  BY SeqsUpToFacts, AllocatorAssumption, LenProperties
<1> HIDE DEF n
<1>1. PICK k \in 1 .. StrictPrefixBlocks(n) : key = HashAt(tokens[s], k)
  BY DEF LiveKeys, n
<1>2. k \in Nat \ {0} /\ n > 1 /\ k <= (n - 1) \div BlockSize
  BY <1>0, <1>1 DEF StrictPrefixBlocks
<1>3. k * BlockSize <= n
  <2> DEFINE q == (n - 1) \div BlockSize
  <2>1. n - 1 \in Nat
    BY <1>0, <1>2
  <2>2. q \in Nat /\ q * BlockSize \in Nat /\ q * BlockSize <= n - 1
    BY <1>0, <2>1, Quotients
  <2>3. k <= q
    BY <1>2
  <2> HIDE DEF q
  <2>4. k * BlockSize \in Nat /\ (k < q => k * BlockSize + BlockSize <= q * BlockSize)
    BY <1>2, <2>2, Products
  <2>5. CASE k < q
    BY <1>0, <2>2, <2>4, <2>5
  <2>6. CASE k = q
    BY <1>0, <2>2, <2>6
  <2> QED
    BY <1>2, <2>2, <2>3, <2>5, <2>6
<1>4. PrefixOf(key, s, n) /\ Len(key) = k * BlockSize
  <2>1. KeyAt(tokens[s], k) = key
    BY <1>1, <1>2 DEF KeyAt
  <2>2. n <= Len(tokens[s]) /\ k \in Nat
    BY <1>0, <1>2 DEF n
  <2> QED
    BY <1>0, <1>3, <2>1, <2>2, KeyAtFacts
<1>5. key \in Hashes
  <2>1. IsFull(tokens[s], k)
    BY <1>3 DEF IsFull, n
  <2> QED
    BY <1>1, <1>2, <2>1, HashFacts
<1>6. (Len(key) \div BlockSize) * BlockSize = Len(key)
  BY <1>2, <1>4, BlockQuotient
<1> QED
  BY <1>4, <1>5, <1>6 DEF n

\* The restore key is resident, and a capture target is a key of the request.
LEMMA PlannedKeys ==
  ASSUME config \in GdnConfigs, NEW s \in Seqs, tokens[s] \in SeqsUpTo(MaxLen), tokens[s] # << >>
  PROVE  /\ SelectRestore(s) \in Hashes \cup {NoKey}
         /\ PrefixOf(SelectRestore(s), s, Len(tokens[s]))
         /\ (Len(SelectRestore(s)) \div BlockSize) * BlockSize = Len(SelectRestore(s))
         /\ SelectRestore(s) # NoKey => SelectRestore(s) \in Resident
         /\ \A k \in CaptureTargets(s) : k \in Hashes /\ k # NoKey /\ PrefixOf(k, s, Len(tokens[s]))
         /\ \E a, b \in Hashes \cup {NoKey} : CaptureTargets(s) \subseteq {a, b}
<1>0. Len(tokens[s]) \in Nat \ {0} /\ BlockSize \in Nat \ {0} /\ tokens[s] \in Seq(Tokens)
  <2>1. tokens[s] \in Seq(Tokens)
    BY SeqsUpToFacts, AllocatorAssumption
  <2>2. Len(tokens[s]) \in Nat /\ Len(tokens[s]) # 0
    BY <2>1, EmptySeq, LenProperties
  <2> QED
    BY <2>1, <2>2, AllocatorAssumption
<1>1. LiveKeys(s) \in SUBSET Hashes /\ LiveKeys(s) \cap Resident \in SUBSET Hashes
  BY LiveKeyFacts
<1>2. /\ PrefixOf(NoKey, s, Len(tokens[s]))
      /\ (Len(NoKey) \div BlockSize) * BlockSize = Len(NoKey)
  <2>1. NoKey = << >> /\ Len(NoKey) = 0 /\ 0 \div BlockSize = 0 /\ 0 * BlockSize = 0
    BY <1>0 DEF NoKey
  <2>2. Prefix(tokens[s], 0) = << >>
    BY <1>0 DEF Prefix
  <2> QED
    BY <1>0, <2>1, <2>2 DEF PrefixOf
<1>3. SelectRestore(s) = NoKey \/ SelectRestore(s) \in LiveKeys(s) \cap Resident
  BY <1>1, LongestFacts DEF SelectRestore
<1>4. /\ SelectRestore(s) \in Hashes \cup {NoKey}
      /\ PrefixOf(SelectRestore(s), s, Len(tokens[s]))
      /\ (Len(SelectRestore(s)) \div BlockSize) * BlockSize = Len(SelectRestore(s))
      /\ SelectRestore(s) # NoKey => SelectRestore(s) \in Resident
  BY <1>2, <1>3, LiveKeyFacts
<1> DEFINE branch == Longest(LiveKeys(s))
           final  == FinalCaptureKey(tokens[s], Len(tokens[s]))
<1>5. branch = NoKey \/ branch \in LiveKeys(s)
  BY <1>1, LongestFacts
<1>6. branch \in Hashes \cup {NoKey} /\ PrefixOf(branch, s, Len(tokens[s]))
  BY <1>2, <1>5, LiveKeyFacts
<1>7. PrefixOf(final, s, Len(tokens[s]))
  BY <1>0, FinalKeyFacts
<1>8. final \in Hashes \cup {NoKey}
  BY <1>7 DEF PrefixOf
<1>9. \A k \in CaptureTargets(s) : k # NoKey /\ (k = branch \/ k = final)
  BY DEF CaptureTargets, RepeatedBranch
<1>10. CaptureTargets(s) \subseteq {branch, final}
  BY <1>9
<1> HIDE DEF branch, final
<1>11. \A k \in CaptureTargets(s) : k \in Hashes /\ k # NoKey /\ PrefixOf(k, s, Len(tokens[s]))
  BY <1>6, <1>7, <1>8, <1>9
<1> QED
  BY <1>4, <1>6, <1>8, <1>10, <1>11

\* A step ends at or before the next capture key.
LEMMA CappedFacts ==
  ASSUME NEW from \in Nat, NEW end \in Nat, NEW wanted \in SUBSET Hashes
  PROVE  /\ CappedEnd(from, end, wanted) \in Nat
         /\ Policy = "admission64" =>
              \A k \in wanted : Len(k) <= from \/ Len(k) >= CappedEnd(from, end, wanted)
<1>1. CASE Policy # "admission64"
  BY <1>1 DEF CappedEnd
<1>2. CASE Policy = "admission64"
  <2> DEFINE T == {end} \cup {Len(k) : k \in {j \in wanted : from < Len(j)}}
  <2>1. \A k \in wanted : Len(k) \in Nat
    BY KeyFacts
  <2>2. T \in SUBSET Nat /\ T # {}
    BY <2>1
  <2>3. \A k \in wanted : from < Len(k) => Len(k) \in T
    OBVIOUS
  <2>4. CappedEnd(from, end, wanted) = Min(T)
    BY <1>2 DEF CappedEnd
  <2> HIDE DEF T
  <2>5. Min(T) \in T /\ \A y \in T : Min(T) <= y
    BY <2>2, MinFacts
  <2>6. Min(T) \in Nat
    BY <2>2, <2>5
  <2>7. ASSUME NEW k \in wanted PROVE Len(k) <= from \/ Len(k) >= Min(T)
    <3>1. Len(k) \in Nat /\ (from < Len(k) => Min(T) <= Len(k))
      BY <2>1, <2>3, <2>5
    <3> QED
      BY <2>6, <3>1
  <2> QED
    BY <2>4, <2>6, <2>7
<1> QED
  BY <1>1, <1>2

LEMMA LimitFacts ==
  ASSUME NEW s \in Seqs, Len(tokens[s]) \in Nat, NEW from \in Nat
  PROVE  /\ StepLimit(tokens[s], from) \in Nat
         /\ Min({Len(tokens[s]), from + Budget}) \in Nat
<1>1. Budget \in Nat \ {0}
  BY GdnAssumption
<1> DEFINE next == (from \div Budget + 1) * Budget
<1>2. next \in Nat
  BY <1>1, Quotients
<1>3. StepLimit(tokens[s], from) =
        Min({Len(tokens[s]), from + Budget}
            \cup (IF from > 0 /\ RestoreMode = "hybrid64" THEN {next} ELSE {}))
  BY DEF StepLimit
<1> HIDE DEF next
<1> DEFINE A == {Len(tokens[s]), from + Budget}
           B == IF from > 0 /\ RestoreMode = "hybrid64" THEN {next} ELSE {}
<1>4. A \in SUBSET Nat /\ A # {} /\ A \cup B \in SUBSET Nat /\ A \cup B # {}
  BY <1>1, <1>2
<1>5. Min(A) \in A /\ Min(A \cup B) \in A \cup B
  <2> HIDE DEF A, B
  <2> QED
    BY <1>4, MinFacts
<1> QED
  BY <1>3, <1>4, <1>5

\* A prefill step that starts with a block ends with one or with the prompt.
LEMMA HashWhole ==
  ASSUME NEW k \in Hashes \cup {NoKey}
  PROVE  Whole(Len(k))
<1>1. Len(k) \in Nat /\ Len(k) % BlockSize = 0 /\ BlockSize \in Nat \ {0}
  <2>1. Len(k) \in Nat /\ (k = NoKey => Len(k) = 0) /\ BlockSize \in Nat \ {0}
    BY KeyFacts, AllocatorAssumption
  <2>2. CASE k = NoKey
    <3>1. 0 % BlockSize = 0
      BY <2>1
    <3> QED
      BY <2>1, <2>2, <3>1
  <2>3. CASE k # NoKey
    BY <2>1, <2>3 DEF Hashes
  <2> QED
    BY <2>2, <2>3
<1> QED
  BY <1>1, WholeQuotient

LEMMA WholeSums ==
  ASSUME NEW a \in Nat, NEW b \in Nat, Whole(a), Whole(b)
  PROVE  /\ Whole(a + b)
         /\ \A m \in Nat : Whole(m * a)
         /\ a < b => b - a >= BlockSize
<1>1. PICK i \in Nat : a = i * BlockSize
  BY DEF Whole
<1>2. PICK j \in Nat : b = j * BlockSize
  BY DEF Whole
<1>3. BlockSize \in Nat \ {0}
  BY AllocatorAssumption
<1>4. Whole(a + b)
  <2>1. i + j \in Nat /\ a + b = (i + j) * BlockSize
    BY <1>1, <1>2, <1>3
  <2> QED
    BY <2>1 DEF Whole
<1>5. ASSUME NEW m \in Nat PROVE Whole(m * a)
  <2>1. m * i \in Nat
    OBVIOUS
  <2>2. m * (i * BlockSize) = (m * i) * BlockSize
    BY <1>3
  <2> QED
    BY <1>1, <2>1, <2>2 DEF Whole
<1>6. ASSUME a < b PROVE b - a >= BlockSize
  <2>1. i < j
    <3>1. CASE j < i
      <4>1. j * BlockSize + BlockSize <= i * BlockSize
        BY <3>1, Products
      <4> QED
        BY <1>1, <1>2, <1>3, <1>6, <4>1
    <3>2. CASE i = j
      BY <1>1, <1>2, <1>6, <3>2
    <3> QED
      BY <3>1, <3>2
  <2>2. i * BlockSize + BlockSize <= j * BlockSize
    BY <2>1, Products
  <2> QED
    BY <1>1, <1>2, <1>3, <2>2
<1> QED
  BY <1>4, <1>5, <1>6

LEMMA StepAligned ==
  ASSUME NEW n \in Nat, NEW t, Len(t) = n, NEW from \in Nat, Whole(from),
         NEW wanted \in SUBSET Hashes, NEW end,
         end = StepLimit(t, from) \/ end = Min({n, from + Budget})
  PROVE  CappedEnd(from, end, wanted) = n \/ Whole(CappedEnd(from, end, wanted))
<1>1. Budget \in Nat \ {0} /\ Whole(Budget)
  BY GdnAssumption, AllocatorAssumption, WholeQuotient
<1> DEFINE next == (from \div Budget + 1) * Budget
           A == {n, from + Budget}
           B == IF from > 0 /\ RestoreMode = "hybrid64" THEN {next} ELSE {}
<1>2. next \in Nat /\ Whole(next)
  <2>1. from \div Budget \in Nat /\ next \in Nat
    BY <1>1, Quotients
  <2>2. from \div Budget + 1 \in Nat
    BY <2>1
  <2> QED
    BY <1>1, <2>1, <2>2, WholeSums
<1>3. from + Budget \in Nat /\ Whole(from + Budget)
  BY <1>1, WholeSums
<1>4. /\ A \in SUBSET Nat /\ A # {} /\ A \cup B \in SUBSET Nat /\ A \cup B # {}
      /\ \A x \in A \cup B : x = n \/ Whole(x)
  <2> HIDE DEF next
  <2> QED
    BY <1>2, <1>3
<1>5. end = Min(A \cup B) \/ end = Min(A)
  BY DEF StepLimit
<1>6. end \in Nat /\ (end = n \/ Whole(end))
  <2> HIDE DEF A, B
  <2>1. Min(A) \in A /\ Min(A \cup B) \in A \cup B
    BY <1>4, MinFacts
  <2> QED
    BY <1>4, <1>5, <2>1
<1>7. CASE Policy # "admission64"
  BY <1>6, <1>7 DEF CappedEnd
<1>8. CASE Policy = "admission64"
  <2> DEFINE T == {end} \cup {Len(k) : k \in {j \in wanted : from < Len(j)}}
  <2>1. \A k \in wanted : Len(k) \in Nat /\ Whole(Len(k))
    BY KeyFacts, HashWhole
  <2>2. T \in SUBSET Nat /\ T # {} /\ \A x \in T : x = n \/ Whole(x)
    BY <1>6, <2>1
  <2>3. CappedEnd(from, end, wanted) = Min(T)
    BY <1>8 DEF CappedEnd
  <2> HIDE DEF T
  <2>4. Min(T) \in T
    BY <2>2, MinFacts
  <2> QED
    BY <2>2, <2>3, <2>4
<1> QED
  BY <1>7, <1>8

-----------------------------------------------------------------------------
(* The order of use *)


\* Taking one key out of the order leaves the others.
LEMMA WithoutFacts ==
  ASSUME NEW order \in Seq(Hashes), Distinct(order), NEW key \in Hashes
  PROVE  /\ Without(order, key) \in Seq(Hashes) /\ Distinct(Without(order, key))
         /\ \A k : In(Without(order, key), k) <=> In(order, k) /\ k # key
         /\ Len(Without(order, key)) = (IF In(order, key) THEN Len(order) - 1 ELSE Len(order))
         /\ ~ In(order, key) => Without(order, key) = order
<1> DEFINE rest == Without(order, key)
<1>1. CASE ~ In(order, key)
  <2>1. rest = order
    BY <1>1 DEF Without, In
  <2>2. \A k : In(order, k) => k # key
    BY <1>1
  <2> QED
    BY <1>1, <2>1, <2>2
<1>2. CASE In(order, key)
  <2> DEFINE at == CHOOSE i \in DOMAIN order : order[i] = key
  <2>1. at \in DOMAIN order /\ order[at] = key
    BY <1>2 DEF In
  <2> HIDE DEF at
  <2>2. rest = [j \in 1 .. Len(order) - 1 |-> IF j < at THEN order[j] ELSE order[j + 1]]
    BY <1>2 DEF Without, at, In
  <2>3. /\ Len(order) \in Nat /\ DOMAIN order = 1 .. Len(order)
        /\ Len(order) - 1 \in Nat /\ at \in 1 .. Len(order)
    BY <2>1
  <2>4. rest \in Seq(Hashes) /\ DOMAIN rest = 1 .. Len(order) - 1 /\ Len(rest) = Len(order) - 1
    BY <2>2, <2>3
  <2> HIDE DEF rest
  <2>5. \A i \in DOMAIN rest : rest[i] # key /\ \E k \in DOMAIN order : order[k] = rest[i]
    BY SMTT(30), <2>1, <2>2, <2>3, <2>4 DEF Distinct
  <2>6. ASSUME NEW k \in DOMAIN order, order[k] # key
        PROVE  \E i \in DOMAIN rest : rest[i] = order[k]
    <3>1. k # at
      BY <2>1, <2>6
    <3>2. CASE k < at
      BY <3>2, <2>2, <2>3, <2>4
    <3>3. CASE k > at
      <4>1. k - 1 \in DOMAIN rest /\ ~(k - 1 < at)
        BY <3>3, <2>3, <2>4
      <4>2. rest[k - 1] = order[k]
        BY <4>1, <2>2, <2>3, <2>4
      <4> QED
        BY <4>1, <4>2
    <3> QED
      BY <3>1, <3>2, <3>3, <2>3
  <2>7. Distinct(rest)
    BY <2>1, <2>2, <2>3, <2>4 DEF Distinct
  <2>8. \A k : In(rest, k) <=> In(order, k) /\ k # key
    BY <2>5, <2>6 DEF In
  <2> QED
    BY <1>2, <2>4, <2>7, <2>8 DEF rest
<1> QED
  BY <1>1, <1>2

LEMMA MoveToEndFacts ==
  ASSUME NEW order \in Seq(Hashes), Distinct(order), NEW key \in Hashes,
         NEW longer, longer = MoveToEnd(order, key)
  PROVE  /\ longer \in Seq(Hashes) /\ Distinct(longer) /\ longer # << >>
         /\ \A k : In(longer, k) <=> In(order, k) \/ k = key
         /\ Len(longer) = (IF In(order, key) THEN Len(order) ELSE Len(order) + 1)
         /\ longer[Len(longer)] = key
         /\ ~ In(order, key) => longer = Append(order, key)
<1> DEFINE rest == Without(order, key)
<1>1. /\ rest \in Seq(Hashes) /\ Distinct(rest)
      /\ \A k : In(rest, k) <=> In(order, k) /\ k # key
      /\ Len(rest) = (IF In(order, key) THEN Len(order) - 1 ELSE Len(order))
      /\ ~ In(order, key) => rest = order
  BY WithoutFacts
<1>2. longer = Append(rest, key)
  BY DEF MoveToEnd
<1> HIDE DEF rest
<1>3. /\ Len(rest) \in Nat /\ DOMAIN rest = 1 .. Len(rest)
      /\ longer \in Seq(Hashes) /\ Len(longer) = Len(rest) + 1
      /\ DOMAIN longer = 1 .. Len(rest) + 1
      /\ longer[Len(rest) + 1] = key
      /\ \A i \in 1 .. Len(rest) : longer[i] = rest[i]
  BY <1>1, <1>2
<1>4. \A i \in DOMAIN longer : i = Len(rest) + 1 \/ i \in DOMAIN rest
  BY <1>3
<1>5. \A i \in DOMAIN rest : i \in DOMAIN longer /\ longer[i] = rest[i] /\ longer[i] # key
  <2>1. ASSUME NEW i \in DOMAIN rest PROVE i \in DOMAIN longer /\ longer[i] = rest[i] /\ longer[i] # key
    <3>1. i \in DOMAIN longer /\ longer[i] = rest[i]
      BY <1>3
    <3>2. In(rest, rest[i])
      BY DEF In
    <3>3. rest[i] # key
      BY <1>1, <3>2
    <3> QED
      BY <3>1, <3>3
  <2> QED
    BY <2>1
<1>6. Len(rest) + 1 \in DOMAIN longer
  BY <1>3
<1>7. \A k : In(longer, k) <=> In(rest, k) \/ k = key
  <2>1. ASSUME NEW k, In(longer, k) PROVE In(rest, k) \/ k = key
    <3>1. PICK i \in DOMAIN longer : longer[i] = k
      BY <2>1 DEF In
    <3> QED
      BY <1>3, <1>4, <1>5, <3>1 DEF In
  <2>2. ASSUME NEW k, In(rest, k) PROVE In(longer, k)
    <3>1. PICK i \in DOMAIN rest : rest[i] = k
      BY <2>2 DEF In
    <3> QED
      BY <1>5, <3>1 DEF In
  <2>3. In(longer, key)
    BY <1>3, <1>6 DEF In
  <2> QED
    BY <2>1, <2>2, <2>3
<1>8. \A k : In(longer, k) <=> In(order, k) \/ k = key
  BY <1>1, <1>7
<1>9. Distinct(longer)
  <2>1. ASSUME NEW i \in DOMAIN longer, NEW j \in DOMAIN longer, longer[i] = longer[j] PROVE i = j
    <3>1. CASE i \in DOMAIN rest /\ j \in DOMAIN rest
      BY <1>1, <1>5, <2>1, <3>1 DEF Distinct
    <3>2. CASE i = Len(rest) + 1 /\ j = Len(rest) + 1
      BY <3>2
    <3>3. CASE i \in DOMAIN rest /\ j = Len(rest) + 1
      BY <1>3, <1>5, <2>1, <3>3
    <3>4. CASE i = Len(rest) + 1 /\ j \in DOMAIN rest
      BY <1>3, <1>5, <2>1, <3>4
    <3> QED
      BY <1>4, <3>1, <3>2, <3>3, <3>4
  <2> QED
    BY <2>1 DEF Distinct
<1>10. Len(order) \in Nat /\ longer # << >>
  BY <1>3
<1>11. Len(longer) = (IF In(order, key) THEN Len(order) ELSE Len(order) + 1)
  BY <1>1, <1>3, <1>10
<1> QED
  BY <1>1, <1>2, <1>3, <1>8, <1>9, <1>10, <1>11

\* Admitting a key keeps it and the most recently used one.
LEMMA AdmitKeyFacts ==
  ASSUME config \in GdnConfigs, NEW order \in Seq(Hashes), Distinct(order),
         Len(order) <= GdnCapacity, NEW key \in Hashes, NEW new, new = AdmitKey(order, key)
  PROVE  /\ new \in Seq(Hashes) /\ Distinct(new) /\ Len(new) <= GdnCapacity
         /\ \A k : In(new, k) => In(order, k) \/ k = key
         /\ In(new, key) /\ (order # << >> => In(new, order[Len(order)]))
<1> DEFINE longer == MoveToEnd(order, key)
<1>0. GdnCapacity \in Nat /\ GdnCapacity > 1 /\ Len(order) \in Nat
  BY GdnAssumption DEF GdnCapacity
<1>1. /\ longer \in Seq(Hashes) /\ Distinct(longer) /\ longer # << >>
      /\ \A k : In(longer, k) <=> In(order, k) \/ k = key
      /\ Len(longer) = (IF In(order, key) THEN Len(order) ELSE Len(order) + 1)
      /\ longer[Len(longer)] = key
      /\ ~ In(order, key) => longer = Append(order, key)
  BY MoveToEndFacts
<1>2. new = IF Len(longer) > GdnCapacity THEN Tail(longer) ELSE longer
  BY DEF AdmitKey
<1> HIDE DEF longer
<1>3. Len(longer) \in Nat /\ DOMAIN longer = 1 .. Len(longer)
  BY <1>1
<1>4. order # << >> => In(order, order[Len(order)])
  <2>1. ASSUME order # << >> PROVE In(order, order[Len(order)])
    <3>1. Len(order) # 0 /\ DOMAIN order = 1 .. Len(order)
      BY <2>1, EmptySeq, LenProperties
    <3>2. Len(order) \in DOMAIN order
      BY <1>0, <3>1
    <3> QED
      BY <3>2 DEF In
  <2> QED
    BY <2>1
<1>5. CASE ~ (Len(longer) > GdnCapacity)
  <2>1. new = longer /\ Len(longer) <= GdnCapacity
    BY <1>0, <1>2, <1>3, <1>5
  <2> QED
    BY <1>1, <1>4, <2>1
<1>6. CASE Len(longer) > GdnCapacity
  <2>1. /\ new = Tail(longer) /\ ~ In(order, key) /\ longer = Append(order, key)
        /\ Len(longer) = Len(order) + 1 /\ Len(order) = GdnCapacity
    BY <1>0, <1>1, <1>2, <1>6
  <2>2. /\ new \in Seq(Hashes) /\ Len(new) = Len(order) /\ DOMAIN new = 1 .. Len(order)
        /\ \A i \in 1 .. Len(order) : new[i] = longer[i + 1] /\ i + 1 \in DOMAIN longer
    BY <1>0, <1>1, <1>3, <2>1, HeadTailProperties
  <2>3. Distinct(new)
    BY <1>0, <1>1, <2>2 DEF Distinct
  <2>4. \A k : In(new, k) => In(longer, k)
    BY <2>2 DEF In
  <2>5. In(new, key)
    <3>1. Len(order) \in 1 .. Len(order)
      BY <1>0, <2>1
    <3> QED
      BY <1>1, <2>1, <2>2, <3>1 DEF In
  <2>6. In(new, order[Len(order)])
    <3>1. Len(order) - 1 \in 1 .. Len(order) /\ (Len(order) - 1) + 1 = Len(order) /\ Len(order) \in 1 .. Len(order)
      BY <1>0, <2>1
    <3>2. longer[Len(order)] = order[Len(order)]
      BY <2>1, <3>1
    <3>3. new[Len(order) - 1] = order[Len(order)]
      BY <2>2, <3>1, <3>2
    <3> QED
      BY <2>2, <3>1, <3>3 DEF In
  <2> QED
    BY <1>0, <1>1, <2>1, <2>2, <2>3, <2>4, <2>5, <2>6
<1> QED
  BY <1>5, <1>6

\* Admitting at most one key, as a step does.
LEMMA AdmitFacts ==
  ASSUME config \in GdnConfigs, NEW order \in Seq(Hashes), Distinct(order),
         Len(order) <= GdnCapacity, NEW keys \in SUBSET Hashes, \A k, l \in keys : k = l,
         NEW new, new = Admit(order, keys)
  PROVE  /\ new \in Seq(Hashes) /\ Distinct(new) /\ Len(new) <= GdnCapacity
         /\ \A k : In(new, k) => In(order, k) \/ k \in keys
         /\ \A k \in keys : In(new, k)
         /\ order # << >> => In(new, order[Len(order)])
<1>1. CASE keys = {}
  <2>1. Longest(keys) = NoKey
    BY <1>1, LongestFacts
  <2>2. new = order
    BY <2>1 DEF Admit
  <2>3. ASSUME order # << >> PROVE In(order, order[Len(order)])
    <3>1. Len(order) \in Nat /\ Len(order) # 0 /\ DOMAIN order = 1 .. Len(order)
      BY <2>3, EmptySeq, LenProperties
    <3>2. Len(order) \in DOMAIN order
      BY <3>1
    <3> QED
      BY <3>2 DEF In
  <2> QED
    BY <1>1, <2>2, <2>3
<1>2. CASE keys # {}
  <2>1. PICK key \in keys : TRUE
    BY <1>2
  <2>2. Longest(keys) = key /\ Longest(keys) # NoKey /\ keys \ {key} = {} /\ key \in Hashes
    BY <1>2, <2>1, LongestFacts
  <2>3. Longest(keys \ {key}) = NoKey
    BY <2>2 DEF Longest
  <2>4. new = AdmitKey(order, key)
    BY <2>2, <2>3 DEF Admit
  <2>5. /\ new \in Seq(Hashes) /\ Distinct(new) /\ Len(new) <= GdnCapacity
        /\ \A k : In(new, k) => In(order, k) \/ k = key
        /\ In(new, key) /\ (order # << >> => In(new, order[Len(order)]))
    BY <2>2, <2>4, AdmitKeyFacts
  <2> QED
    BY <2>1, <2>5
<1> QED
  BY <1>1, <1>2

-----------------------------------------------------------------------------
(* Recurrent states *)

LEMMA CarriedType ==
  ASSUME NEW conv \in Window, NEW new \in Seq(Tokens), NEW o \in Nat, o <= Len(new)
  PROVE  Carried(conv, new, o) \in Window
<1>1. ConvLen \in Nat /\ Len(new) \in Nat
  BY GdnAssumption, LenProperties
<1>2. ASSUME NEW j \in 1 .. ConvLen
      PROVE  (IF o + j > ConvLen THEN new[o + j - ConvLen] ELSE conv[o + j]) \in Tokens \cup {None}
  <2>1. CASE o + j > ConvLen
    <3>1. o + j - ConvLen \in 1 .. Len(new)
      BY <1>1, <2>1
    <3> QED
      BY <2>1, <3>1, ElementOfSeq
  <2>2. CASE ~ (o + j > ConvLen)
    <3>1. o + j \in 1 .. ConvLen
      BY <1>1, <2>2
    <3> QED
      BY <2>2, <3>1 DEF Window
  <2> QED
    BY <2>1, <2>2
<1> QED
  BY <1>2 DEF Carried, Window

LEMMA NoHistoryType == NoHistory \in Window
BY DEF NoHistory, Window

\* Only the tokens in front of a place matter for its history.
LEMMA CarriedPrefix ==
  ASSUME NEW conv, NEW t \in Seq(Tokens), NEW n \in Nat, n <= Len(t), NEW o \in Nat, o <= n
  PROVE  Carried(conv, Prefix(t, n), o) = Carried(conv, t, o)
<1>1. ConvLen \in Nat /\ Len(t) \in Nat /\ n \in 0 .. Len(t)
  BY GdnAssumption, LenProperties
<1>2. \A i \in 1 .. n : Prefix(t, n)[i] = t[i]
  BY <1>1, PrefixFacts
<1>3. ASSUME NEW j \in 1 .. ConvLen, o + j > ConvLen
      PROVE  Prefix(t, n)[o + j - ConvLen] = t[o + j - ConvLen]
  <2>1. o + j - ConvLen \in 1 .. n
    BY <1>1, <1>3
  <2> QED
    BY <1>2, <2>1
<1> QED
  BY <1>3 DEF Carried

\* The history of a token of the second part is that in the whole.
LEMMA CarriedOn ==
  ASSUME NEW t \in Seq(Tokens), NEW n \in Nat, NEW e \in Nat, NEW pos \in Nat,
         n <= pos, pos <= e, e <= Len(t)
  PROVE  Carried(Carried(NoHistory, t, n), SubSeq(t, n + 1, e), pos - n) = Carried(NoHistory, t, pos)
<1>1. ConvLen \in Nat /\ Len(t) \in Nat /\ pos - n \in Nat
  BY GdnAssumption, LenProperties
<1>2. \A i \in 1 .. e - n : SubSeq(t, n + 1, e)[i] = t[n + i]
  BY <1>1
<1> DEFINE c == Carried(NoHistory, t, n)
           new == SubSeq(t, n + 1, e)
           o == pos - n
<1>3. ASSUME NEW j \in 1 .. ConvLen, NEW k \in Nat, k = n + j
      PROVE  c[j] = IF k > ConvLen THEN t[k - ConvLen] ELSE None
  <2>1. ~ (k > ConvLen) => NoHistory[k] = None
    BY <1>1, <1>3 DEF NoHistory
  <2>2. c[j] = IF n + j > ConvLen THEN t[n + j - ConvLen] ELSE NoHistory[n + j]
    BY Zenon DEF Carried
  <2>3. n + j = k /\ n + j - ConvLen = k - ConvLen
    BY <1>1, <1>3
  <2>4. c[j] = IF k > ConvLen THEN t[k - ConvLen] ELSE NoHistory[k]
    BY <2>2, <2>3, Zenon
  <2>5. CASE k > ConvLen
    BY <2>4, <2>5, Zenon
  <2>6. CASE ~ (k > ConvLen)
    BY <2>1, <2>4, <2>6, Zenon
  <2> QED
    BY <2>5, <2>6, Zenon
<1>c. /\ c = Carried(NoHistory, t, n)
      /\ new = SubSeq(t, n + 1, e)
      /\ o = pos - n
  BY DEF c, new, o
<1> HIDE DEF c, new, o
<1>4. ASSUME NEW j \in 1 .. ConvLen
      PROVE  (IF o + j > ConvLen THEN new[o + j - ConvLen] ELSE c[o + j])
             = IF pos + j > ConvLen THEN t[pos + j - ConvLen] ELSE NoHistory[pos + j]
  <2>0. o = pos - n /\ o \in Nat
    BY <1>1 DEF o
  <2>1. CASE o + j > ConvLen
    <3>1. o + j - ConvLen \in 1 .. e - n /\ n + (o + j - ConvLen) = pos + j - ConvLen
          /\ pos + j > ConvLen
      BY <1>1, <2>0, <2>1
    <3>2. new[o + j - ConvLen] = t[n + (o + j - ConvLen)]
      BY <1>2, <3>1 DEF new
    <3> QED
      BY <2>1, <3>1, <3>2
  <2>2. CASE ~ (o + j > ConvLen)
    <3>1. o + j \in 1 .. ConvLen /\ pos + j = n + (o + j) /\ pos + j \in Nat
      BY <1>1, <2>0, <2>2
    <3>2. c[o + j] = IF pos + j > ConvLen THEN t[pos + j - ConvLen] ELSE None
      <4> DEFINE q == o + j
                 k == pos + j
      <4>1. q \in 1 .. ConvLen /\ k \in Nat /\ k = n + q /\ k - ConvLen = pos + j - ConvLen
        BY <1>1, <3>1
      <4>2. q = o + j /\ k = pos + j
        OBVIOUS
      <4> HIDE DEF q, k
      <4>3. c[q] = IF k > ConvLen THEN t[k - ConvLen] ELSE None
        BY <1>3, <4>1, Zenon
      <4> QED
        BY <4>1, <4>2, <4>3, Zenon
    <3>3. ~ (pos + j > ConvLen) => NoHistory[pos + j] = None
      BY <1>1 DEF NoHistory
    <3> QED
      BY <2>2, <3>2, <3>3, Zenon
  <2> QED
    BY <2>1, <2>2
<1>5. Carried(c, new, o) = Carried(NoHistory, t, pos)
  BY <1>4, Zenon DEF Carried
<1> QED
  BY <1>5, <1>c, Zenon

LEMMA FoldedFacts ==
  ASSUME NEW conv \in Window, NEW new \in Seq(Tokens), NEW n \in Nat, n <= Len(new)
  PROVE  /\ Folded(conv, new, n) \in Seq(Taken) /\ Len(Folded(conv, new, n)) = n
         /\ \A i \in 1 .. n : /\ Folded(conv, new, n)[i].token = new[i]
                              /\ Folded(conv, new, n)[i] =
                                   [history |-> Carried(conv, new, i - 1), token |-> new[i]]
<1>1. Len(new) \in Nat
  BY LenProperties
<1>2. ASSUME NEW i \in 1 .. n
      PROVE  [history |-> Carried(conv, new, i - 1), token |-> new[i]] \in Taken
  <2>1. i - 1 \in Nat /\ i - 1 <= Len(new) /\ i \in 1 .. Len(new)
    BY <1>1
  <2>2. Carried(conv, new, i - 1) \in Window /\ new[i] \in Tokens
    BY <2>1, CarriedType, ElementOfSeq
  <2> QED
    BY <2>2 DEF Taken
<1>3. Folded(conv, new, n) \in [1 .. n -> Taken]
  BY <1>2 DEF Folded
<1>4. Folded(conv, new, n) \in Seq(Taken) /\ Len(Folded(conv, new, n)) = n
  BY <1>3
<1> QED
  BY <1>4 DEF Folded

\* Folding a second part after the first is folding the whole.
LEMMA FoldedOn ==
  ASSUME NEW t \in Seq(Tokens), NEW n \in Nat, NEW e \in Nat, NEW pos \in Nat,
         n <= pos, pos <= e, e <= Len(t)
  PROVE  Folded(NoHistory, t, n) \o Folded(Carried(NoHistory, t, n), SubSeq(t, n + 1, e), pos - n)
         = Folded(NoHistory, t, pos)
<1> DEFINE c == Carried(NoHistory, t, n)
           new == SubSeq(t, n + 1, e)
           p == Folded(NoHistory, t, n)
           q == Folded(c, new, pos - n)
           r == Folded(NoHistory, t, pos)
<1>1. /\ Len(t) \in Nat /\ pos - n \in Nat /\ n <= Len(t) /\ pos <= Len(t)
      /\ NoHistory \in Window
  BY LenProperties, NoHistoryType
<1>2. new \in Seq(Tokens) /\ Len(new) = e - n /\ \A i \in 1 .. e - n : new[i] = t[n + i]
  BY <1>1
<1>3. c \in Window
  BY <1>1, CarriedType
<1>4. /\ p \in Seq(Taken) /\ Len(p) = n
      /\ \A i \in 1 .. n : p[i] = [history |-> Carried(NoHistory, t, i - 1), token |-> t[i]]
  BY <1>1, FoldedFacts
<1>5. /\ r \in Seq(Taken) /\ Len(r) = pos
      /\ \A i \in 1 .. pos : r[i] = [history |-> Carried(NoHistory, t, i - 1), token |-> t[i]]
  BY <1>1, FoldedFacts
<1>6. /\ q \in Seq(Taken) /\ Len(q) = pos - n
      /\ \A i \in 1 .. pos - n : q[i] = [history |-> Carried(c, new, i - 1), token |-> new[i]]
  <2> HIDE DEF c, new
  <2>1. PICK d \in Nat : d = pos - n /\ d <= Len(new)
    BY <1>1, <1>2
  <2>2. /\ Folded(c, new, d) \in Seq(Taken) /\ Len(Folded(c, new, d)) = d
        /\ \A i \in 1 .. d :
             Folded(c, new, d)[i] = [history |-> Carried(c, new, i - 1), token |-> new[i]]
    <3>1. new \in Seq(Tokens)
      BY <1>2
    <3> QED
      BY <1>3, <2>1, <3>1, FoldedFacts, ZenonT(60)
  <2> QED
    BY <2>1, <2>2
<1>7. ASSUME NEW i \in 1 .. pos - n PROVE q[i] = r[n + i]
  <2>1. n + i - 1 \in Nat /\ n <= n + i - 1 /\ n + i - 1 <= e /\ n + i - 1 - n = i - 1
        /\ n + i \in 1 .. pos /\ i \in 1 .. e - n
    BY <1>1
  <2>2. Carried(c, new, n + i - 1 - n) = Carried(NoHistory, t, n + i - 1)
    BY <2>1, CarriedOn
  <2> HIDE DEF c, new, q, r
  <2>3. q[i] = [history |-> Carried(c, new, i - 1), token |-> new[i]] /\ new[i] = t[n + i]
    BY <1>2, <1>6, <2>1
  <2>4. r[n + i] = [history |-> Carried(NoHistory, t, n + i - 1), token |-> t[n + i]]
    BY <1>5, <2>1
  <2> QED
    BY <2>1, <2>2, <2>3, <2>4
<1> HIDE DEF p, q, r
<1>8. /\ p \o q \in Seq(Taken) /\ Len(p \o q) = pos
      /\ \A i \in 1 .. pos : (p \o q)[i] = IF i <= n THEN p[i] ELSE q[i - n]
  <2>1. p \in Seq(Taken) /\ q \in Seq(Taken) /\ Len(p) = n /\ Len(q) = pos - n
    BY <1>4, <1>6
  <2>2. /\ p \o q \in Seq(Taken) /\ Len(p \o q) = Len(p) + Len(q)
        /\ \A i \in 1 .. Len(p) + Len(q) :
             (p \o q)[i] = IF i <= Len(p) THEN p[i] ELSE q[i - Len(p)]
    <3>1. p \in Seq(Taken) /\ q \in Seq(Taken)
      BY <2>1
    <3> QED
      BY <3>1, ConcatProperties, ZenonT(60)
  <2>3. Len(p) + Len(q) = pos
    BY <1>1, <2>1
  <2> QED
    BY <2>1, <2>2, <2>3
<1>9. ASSUME NEW i \in 1 .. pos PROVE (p \o q)[i] = r[i]
  <2>1. CASE i <= n
    <3>1. i \in 1 .. n
      BY <2>1
    <3>2. p[i] = r[i]
      BY <1>4, <1>5, <3>1
    <3> QED
      BY <1>8, <2>1, <3>2
  <2>2. CASE ~ (i <= n)
    <3>1. i - n \in 1 .. pos - n /\ n + (i - n) = i
      BY <1>1, <2>2
    <3>2. q[i - n] = r[i]
      BY <1>7, <3>1
    <3> QED
      BY <1>8, <2>2, <3>2
  <2> QED
    BY <2>1, <2>2
<1>10. p \o q = r
  BY <1>5, <1>8, <1>9, SeqEqual
<1> QED
  BY <1>10 DEF p, q, r, c, new

\* The state of a prefix has folded it.
LEMMA StateOfFacts ==
  ASSUME NEW t \in Seq(Tokens), NEW n \in Nat, n <= Len(t)
  PROVE  /\ StateOf(Prefix(t, n)) = [conv |-> Carried(NoHistory, t, n), temporal |-> Folded(NoHistory, t, n)]
         /\ StateOf(Prefix(t, n)) \in States /\ FoldsOnce(StateOf(Prefix(t, n)), t, n)
<1>1. n \in 0 .. Len(t) /\ NoHistory \in Window
  BY LenProperties, NoHistoryType
<1>2. Prefix(t, n) \in Seq(Tokens) /\ Len(Prefix(t, n)) = n /\ \A i \in 1 .. n : Prefix(t, n)[i] = t[i]
  BY <1>1, PrefixFacts
<1>3. Carried(NoHistory, Prefix(t, n), n) = Carried(NoHistory, t, n)
  BY CarriedPrefix
<1>4. Folded(NoHistory, Prefix(t, n), n) = Folded(NoHistory, t, n)
  <2>1. ASSUME NEW i \in 1 .. n
        PROVE  Carried(NoHistory, Prefix(t, n), i - 1) = Carried(NoHistory, t, i - 1)
    <3>1. i - 1 \in Nat /\ i - 1 <= n
      OBVIOUS
    <3> QED
      BY <3>1, CarriedPrefix
  <2> QED
    BY <1>2, <2>1, Zenon DEF Folded
<1>5. StateOf(Prefix(t, n)) = [conv |-> Carried(NoHistory, t, n), temporal |-> Folded(NoHistory, t, n)]
  BY <1>2, <1>3, <1>4 DEF StateOf
<1>6. /\ Folded(NoHistory, t, n) \in Seq(Taken) /\ Len(Folded(NoHistory, t, n)) = n
      /\ \A i \in 1 .. n : Folded(NoHistory, t, n)[i].token = t[i]
  BY <1>1, FoldedFacts
<1>7. Carried(NoHistory, t, n) \in Window
  BY <1>1, CarriedType
<1> QED
  BY <1>5, <1>6, <1>7 DEF States, FoldsOnce

LEMMA ZeroFacts ==
  ASSUME NEW t \in Seq(Tokens)
  PROVE  ZeroState = StateOf(Prefix(t, 0)) /\ StateOf(Prefix(t, 0)).conv = NoHistory
<1>1. Prefix(t, 0) = << >>
  BY DEF Prefix
<1>2. Carried(NoHistory, t, 0) = NoHistory
  <2>1. ConvLen \in Nat
    BY GdnAssumption
  <2>2. \A j \in 1 .. ConvLen : ~ (0 + j > ConvLen) /\ 0 + j = j
    BY <2>1
  <2> QED
    BY <2>2 DEF Carried, NoHistory
<1>3. StateOf(Prefix(t, 0)).conv = Carried(NoHistory, t, 0)
  <2>1. 0 <= Len(t)
    BY LenProperties
  <2> QED
    BY <2>1, StateOfFacts
<1> QED
  BY <1>1, <1>2, <1>3 DEF ZeroState

-----------------------------------------------------------------------------
(* Sequences that a step leaves alone *)

LEMMA GInvFacts ==
  ASSUME GInv, NEW s \in Seqs
  PROVE  /\ IInv /\ config \in GdnConfigs /\ IndexInv /\ SeqInv(s)
         /\ tokens[s] \in Seq(Tokens) /\ tokens[s] \in SeqsUpTo(MaxLen)
         /\ Len(tokens[s]) \in Nat /\ Len(tokens[s]) <= MaxLen
         /\ tokens[s] # << >> => Len(tokens[s]) > 0
         /\ numComputed[s] \in Nat /\ chunk[s] \in Nat /\ numComputed[s] + chunk[s] <= Len(tokens[s])
         /\ restoreKey \in [Seqs -> Hashes \cup {NoKey}] /\ targets \in [Seqs -> SUBSET Hashes]
         /\ stage \in [Seqs -> Stages] /\ DOMAIN mamba = Seqs /\ historyLost \in SUBSET Seqs
         /\ numComputed \in [Seqs -> Nat] /\ chunk \in [Seqs -> Nat]
         /\ tokens \in [Seqs -> SeqsUpTo(MaxLen)]
<1>1. /\ IInv /\ config \in GdnConfigs /\ IndexInv /\ SeqInv(s)
      /\ restoreKey \in [Seqs -> Hashes \cup {NoKey}] /\ targets \in [Seqs -> SUBSET Hashes]
      /\ stage \in [Seqs -> Stages] /\ DOMAIN mamba = Seqs /\ historyLost \in SUBSET Seqs
  BY DEF GInv
<1>2. /\ tokens[s] \in Seq(Tokens) /\ tokens[s] \in SeqsUpTo(MaxLen)
      /\ Len(tokens[s]) \in Nat /\ Len(tokens[s]) <= MaxLen
      /\ numComputed \in [Seqs -> Nat] /\ chunk \in [Seqs -> Nat]
      /\ tokens \in [Seqs -> SeqsUpTo(MaxLen)]
  BY <1>1, IInvFacts
<1>3. numComputed[s] \in Nat /\ chunk[s] \in Nat
  BY <1>2
<1>4. numComputed[s] + chunk[s] <= Len(tokens[s])
  BY <1>1 DEF IInv, Sized
<1>5. ASSUME tokens[s] # << >> PROVE Len(tokens[s]) > 0
  BY <1>2, <1>5, EmptySeq
<1> QED
  BY <1>1, <1>2, <1>3, <1>4, <1>5

LEMMA NoKeyPrefix ==
  ASSUME NEW t \in Seq(Tokens), NEW n \in Nat
  PROVE  NoKey \in Hashes \cup {NoKey} /\ Len(NoKey) <= n /\ NoKey = Prefix(t, Len(NoKey))
<1>1. Len(NoKey) = 0 /\ Prefix(t, 0) = << >>
  BY DEF NoKey, Prefix
<1> QED
  BY <1>1 DEF NoKey

\* A sequence without keys and without a step has nothing to keep.
LEMMA FreshKeys ==
  ASSUME NEW s \in Seqs, tokens'[s] \in Seq(Tokens), Len(tokens'[s]) \in Nat,
         restoreKey'[s] = NoKey, targets'[s] = {}
  PROVE  KeysInv(s)'
<1>1. PrefixOf(restoreKey[s], s, Len(tokens[s]))'
  BY NoKeyPrefix DEF PrefixOf
<1>2. \E a, b \in Hashes \cup {NoKey} : targets'[s] \subseteq {a, b}
  <2>1. targets'[s] \subseteq {NoKey, NoKey}
    OBVIOUS
  <2> QED
    BY <2>1
<1> QED
  BY <1>1, <1>2 DEF KeysInv

\* A step that is only about s, while the other sequences have no table.
LEMMA OnlyOne ==
  ASSUME GInv, NEW s \in Seqs, \A r \in Seqs : r # s => tokens[r] = << >>,
         IInv', config' = config,
         restoreKey' \in [Seqs -> Hashes \cup {NoKey}], targets' \in [Seqs -> SUBSET Hashes],
         stage' \in [Seqs -> Stages], DOMAIN mamba' = Seqs, historyLost' \in SUBSET Seqs,
         IndexInv', SeqInv(s)',
         \A r \in Seqs : r # s =>
           /\ tokens'[r] = tokens[r] /\ restoreKey'[r] = restoreKey[r] /\ targets'[r] = targets[r]
           /\ stage'[r] = stage[r] /\ mamba'[r] = mamba[r]
           /\ (r \in historyLost' <=> r \in historyLost)
           /\ numComputed'[r] = numComputed[r] /\ chunk'[r] = chunk[r]
  PROVE  GInv'
<1>1. ASSUME NEW r \in Seqs, r # s PROVE tokens'[r] = << >> /\ SeqInv(r)'
  <2>1. tokens[r] = << >> /\ SeqInv(r)
    BY <1>1 DEF GInv
  <2>2. Fresh(r)
    BY <2>1 DEF SeqInv
  <2>3. tokens'[r] = << >> /\ Fresh(r)'
    BY <1>1, <2>1, <2>2 DEF Fresh
  <2>4. tokens'[r] \in Seq(Tokens) /\ Len(tokens'[r]) \in Nat
    BY <2>3
  <2>5. KeysInv(r)'
    BY <2>3, <2>4, FreshKeys DEF Fresh
  <2> QED
    BY <2>3, <2>5 DEF SeqInv
<1>2. (\A r \in Seqs : SeqInv(r))'
  BY <1>1
<1>3. OneSequence'
  BY <1>1 DEF OneSequence
<1>4. config' \in GdnConfigs
  BY DEF GInv
<1> QED
  BY <1>2, <1>3, <1>4 DEF GInv

LEMMA OthersEmpty ==
  ASSUME GInv, NEW s \in Seqs, tokens[s] # << >>
  PROVE  \A r \in Seqs : r # s => tokens[r] = << >>
BY DEF GInv, OneSequence

LEMMA SameGdn ==
  ASSUME GInv, IInv', UNCHANGED <<config, gdnOnly>>,
         UNCHANGED <<tokens, numComputed, chunk, allocating>>
  PROVE  GInv'
<1>1. /\ config' = config /\ resident' = resident /\ saved' = saved /\ restoreKey' = restoreKey
      /\ targets' = targets /\ stage' = stage /\ mamba' = mamba /\ historyLost' = historyLost
      /\ tokens' = tokens /\ numComputed' = numComputed /\ chunk' = chunk /\ allocating' = allocating
  BY DEF gdnOnly
<1>2. IndexInv'
  BY <1>1 DEF GInv, IndexInv, Resident, GdnCapacity
<1>3. ASSUME NEW s \in Seqs PROVE SeqInv(s)'
  <2>1. SeqInv(s)
    BY DEF GInv
  <2>2. KeysInv(s)'
    BY <1>1, <2>1 DEF SeqInv, KeysInv, PrefixOf, Policy, StepEnd
  <2>3. (Fresh(s)' <=> Fresh(s)) /\ (First(s)' <=> First(s)) /\ (Later(s)' <=> Later(s))
    BY <1>1 DEF Fresh, First, Later, StepWhole, StepEnd
  <2> QED
    BY <1>1, <2>1, <2>2, <2>3 DEF SeqInv
<1>4. OneSequence'
  BY <1>1 DEF GInv, OneSequence
<1> QED
  BY <1>1, <1>2, <1>3, <1>4 DEF GInv

LEMMA SameIndex ==
  ASSUME IndexInv, UNCHANGED <<config, resident, saved>>
  PROVE  IndexInv'
BY DEF IndexInv, Resident, GdnCapacity

-----------------------------------------------------------------------------
(* The scheduler's actions *)

LEMMA GdnInitInv == GdnInit => GInv
<1> SUFFICES ASSUME GdnInit PROVE GInv
  OBVIOUS
<1>1. IInv
  BY InitIInv DEF GdnInit
<1>2. /\ config \in GdnConfigs /\ resident = << >> /\ saved = [k \in {} |-> << >>]
      /\ restoreKey = [s \in Seqs |-> NoKey] /\ targets = [s \in Seqs |-> {}]
      /\ stage = [s \in Seqs |-> "none"] /\ mamba = [s \in Seqs |-> ZeroState] /\ historyLost = {}
      /\ tokens = [s \in Seqs |-> << >>] /\ numComputed = [s \in Seqs |-> 0]
      /\ chunk = [s \in Seqs |-> 0]
  BY DEF GdnInit, Init
<1>3. /\ restoreKey \in [Seqs -> Hashes \cup {NoKey}] /\ targets \in [Seqs -> SUBSET Hashes]
      /\ stage \in [Seqs -> Stages] /\ DOMAIN mamba = Seqs /\ historyLost \in SUBSET Seqs
  BY <1>2 DEF Stages
<1>4. IndexInv
  <2>1. GdnCapacity \in Nat
    BY <1>2, GdnAssumption DEF GdnCapacity
  <2>2. resident \in Seq(Hashes) /\ Len(resident) = 0 /\ DOMAIN resident = {}
    BY <1>2
  <2>3. Resident = {} /\ DOMAIN saved = {} /\ Distinct(resident)
    BY <1>2, <2>2 DEF Resident, Distinct
  <2> QED
    BY <2>1, <2>2, <2>3 DEF IndexInv
<1>5. OneSequence
  BY <1>2 DEF OneSequence
<1>6. ASSUME NEW s \in Seqs PROVE SeqInv(s)
  <2>1. Fresh(s) /\ tokens[s] = << >>
    BY <1>2 DEF Fresh
  <2>2. PrefixOf(restoreKey[s], s, Len(tokens[s]))
    <3>1. tokens[s] \in Seq(Tokens) /\ Len(tokens[s]) \in Nat
      BY <2>1
    <3> QED
      BY <2>1, <3>1, NoKeyPrefix DEF PrefixOf, Fresh
  <2>3. \E a, b \in Hashes \cup {NoKey} : targets[s] \subseteq {a, b}
    <3>1. targets[s] \subseteq {NoKey, NoKey}
      BY <2>1 DEF Fresh
    <3> QED
      BY <3>1
  <2>4. KeysInv(s)
    BY <2>1, <2>2, <2>3 DEF KeysInv, Fresh
  <2> QED
    BY <2>1, <2>4 DEF SeqInv
<1> QED
  BY <1>1, <1>2, <1>3, <1>4, <1>5, <1>6 DEF GInv

LEMMA GdnBeginStep ==
  ASSUME GInv, NEW s \in Seqs, NEW prompt \in Prompts, GdnBeginAllocate(s, prompt)
  PROVE  GInv'
<1>1. /\ Running = {} /\ allocating = None /\ allocating' = s /\ tokens[s] = << >>
      /\ tokens' = [tokens EXCEPT ![s] = prompt]
      /\ numComputed' = numComputed /\ chunk' = chunk /\ config' = config
      /\ resident' = resident /\ saved' = saved /\ restoreKey' = restoreKey
      /\ targets' = targets /\ stage' = stage /\ mamba' = mamba /\ historyLost' = historyLost
  BY DEF GdnBeginAllocate, BeginAllocate, gdnOnly
<1>2. BeginAllocate(s, prompt) /\ IInv
  BY DEF GdnBeginAllocate, GInv
<1>3. IInv'
  BY <1>2, BeginAllocateStep
<1>4. ASSUME NEW r \in Seqs PROVE tokens[r] = << >>
  <2>1. table[r] = << >> /\ r # allocating
    BY <1>1, AllocatorAssumption DEF Running
  <2>2. Len(table[r]) = 0 /\ Len(table[r]) = NumBlocks(Len(tokens[r]))
    BY <1>2, <2>1 DEF IInv, Sized
  <2>3. Len(tokens[r]) \in Nat /\ tokens[r] \in Seq(Tokens)
    BY GInvFacts
  <2>4. Len(tokens[r]) <= 0 * BlockSize
    BY <2>2, <2>3, NumBlocksFacts
  <2>5. 0 * BlockSize = 0
    BY AllocatorAssumption
  <2>6. Len(tokens[r]) = 0
    BY <2>3, <2>4, <2>5
  <2> QED
    BY <2>3, <2>6, EmptySeq
<1>5. Fresh(s)'
  <2>1. Fresh(s)
    BY <1>1 DEF GInv, SeqInv
  <2> QED
    BY <1>1, <2>1 DEF Fresh
<1>6. tokens'[s] \in Seq(Tokens) /\ Len(tokens'[s]) \in Nat
  <2>1. tokens'[s] = prompt
    BY <1>1, GInvFacts
  <2> QED
    BY <2>1, AllocatorAssumption
<1>7. SeqInv(s)'
  <2>1. KeysInv(s)'
    BY <1>5, <1>6, FreshKeys DEF Fresh
  <2> QED
    BY <1>1, <1>5, <2>1 DEF SeqInv
<1>8. IndexInv'
  BY <1>1, SameIndex DEF GInv
<1>9. \A r \in Seqs : r # s => tokens'[r] = tokens[r]
  BY <1>1, GInvFacts
<1>10. /\ restoreKey' \in [Seqs -> Hashes \cup {NoKey}] /\ targets' \in [Seqs -> SUBSET Hashes]
       /\ stage' \in [Seqs -> Stages] /\ DOMAIN mamba' = Seqs /\ historyLost' \in SUBSET Seqs
  BY <1>1, GInvFacts
<1> QED
  BY <1>1, <1>3, <1>4, <1>7, <1>8, <1>9, <1>10, OnlyOne

LEMMA AllocateBlockStep ==
  ASSUME GInv, NEW s \in Seqs, AllocateBlock(s)
  PROVE  GInv'
<1>1. IInv /\ UNCHANGED <<config, gdnOnly>>
  BY DEF AllocateBlock, GInv
<1>2. CASE AllocateHit(s)
  <2>1. UNCHANGED <<tokens, numComputed, chunk, allocating>>
    BY <1>2 DEF AllocateHit
  <2> QED
    BY <1>1, <1>2, <2>1, AllocateHitStep, SameGdn
<1>3. ASSUME NEW b \in Blocks, AllocateMiss(s, b) PROVE GInv'
  <2>1. UNCHANGED <<tokens, numComputed, chunk, allocating>>
    BY <1>3 DEF AllocateMiss
  <2> QED
    BY <1>1, <1>3, <2>1, AllocateMissStep, SameGdn
<1>4. ASSUME NEW b \in Blocks, AllocateTail(s, b) PROVE GInv'
  <2>1. UNCHANGED <<tokens, numComputed, chunk, allocating>>
    BY <1>4 DEF AllocateTail
  <2> QED
    BY <1>1, <1>4, <2>1, AllocateTailStep, SameGdn
<1> QED
  BY <1>2, <1>3, <1>4 DEF AllocateBlock

LEMMA GdnEndStep ==
  ASSUME GInv, NEW s \in Seqs, GdnEndAllocate(s)
  PROVE  GInv'
<1> DEFINE key    == SelectRestore(s)
           wanted == CaptureTargets(s)
           from   == Len(key)
           end    == CappedEnd(from, StepLimit(tokens[s], from), wanted)
<1>1. /\ EndAllocate(s, from \div BlockSize, end - from)
      /\ restoreKey' = [restoreKey EXCEPT ![s] = key]
      /\ targets' = [targets EXCEPT ![s] = wanted]
      /\ resident' = IF key = NoKey THEN resident ELSE MoveToEnd(resident, key)
      /\ stage' = [stage EXCEPT ![s] = "first"]
      /\ config' = config /\ saved' = saved /\ mamba' = mamba /\ historyLost' = historyLost
  BY DEF GdnEndAllocate
<1>2. IInv /\ config \in GdnConfigs /\ IndexInv /\ SeqInv(s)
  BY DEF GInv
<1> HIDE DEF key, wanted, from, end
<1>3. /\ IInv' /\ (from \div BlockSize) * BlockSize < Len(tokens[s])
      /\ end - from \in Nat /\ end - from > 0 /\ from \div BlockSize \in Nat
  BY <1>1, <1>2, EndAllocateStep
<1>4. /\ allocating = s /\ allocating' = None /\ tokens' = tokens
      /\ numComputed' = [numComputed EXCEPT ![s] = (from \div BlockSize) * BlockSize]
      /\ chunk' = [chunk EXCEPT ![s] = end - from]
  BY <1>1 DEF EndAllocate
<1>5. Fresh(s)
  BY <1>2, <1>4 DEF SeqInv
<1>6. /\ tokens[s] \in Seq(Tokens) /\ tokens[s] \in SeqsUpTo(MaxLen) /\ Len(tokens[s]) \in Nat
      /\ restoreKey \in [Seqs -> Hashes \cup {NoKey}] /\ targets \in [Seqs -> SUBSET Hashes]
      /\ stage \in [Seqs -> Stages] /\ DOMAIN mamba = Seqs /\ historyLost \in SUBSET Seqs
      /\ numComputed \in [Seqs -> Nat] /\ chunk \in [Seqs -> Nat]
      /\ tokens \in [Seqs -> SeqsUpTo(MaxLen)]
  BY GInvFacts
<1>7. tokens[s] # << >>
  <2>1. (from \div BlockSize) * BlockSize \in Nat
    BY <1>3, Products
  <2>2. Len(tokens[s]) # 0
    BY <1>3, <1>6, <2>1
  <2> QED
    BY <1>6, <2>2, EmptySeq
<1>8. /\ key \in Hashes \cup {NoKey} /\ PrefixOf(key, s, Len(tokens[s]))
      /\ (from \div BlockSize) * BlockSize = from
      /\ key # NoKey => key \in Resident
      /\ \A k \in wanted : k \in Hashes /\ k # NoKey /\ PrefixOf(k, s, Len(tokens[s]))
      /\ \E a, b \in Hashes \cup {NoKey} : wanted \subseteq {a, b}
  BY <1>2, <1>6, <1>7, PlannedKeys DEF key, wanted, from
<1>9. from \in Nat /\ (key # NoKey => key \in Hashes)
  BY <1>8, KeyFacts DEF from
<1>10. StepLimit(tokens[s], from) \in Nat /\ wanted \in SUBSET Hashes
  BY <1>6, <1>8, <1>9, LimitFacts
<1>11. /\ end \in Nat
       /\ Policy = "admission64" => \A k \in wanted : Len(k) <= from \/ Len(k) >= end
  BY <1>9, <1>10, CappedFacts DEF end
<1>12. /\ restoreKey'[s] = key /\ targets'[s] = wanted /\ stage'[s] = "first"
       /\ numComputed'[s] = from /\ chunk'[s] = end - from /\ mamba'[s] = ZeroState
       /\ s \notin historyLost'
       /\ StepEnd(s)' = end
  <2>1. /\ restoreKey'[s] = key /\ targets'[s] = wanted /\ stage'[s] = "first"
        /\ numComputed'[s] = from /\ chunk'[s] = end - from /\ mamba'[s] = ZeroState
       /\ s \notin historyLost'
    BY <1>1, <1>4, <1>5, <1>6, <1>8 DEF Fresh
  <2>2. from + (end - from) = end
    BY <1>9, <1>11
  <2> QED
    BY <2>1, <2>2 DEF StepEnd
<1>13. /\ IndexInv'
       /\ key # NoKey => resident' # << >> /\ resident'[Len(resident')] = key
  <2>1. CASE key = NoKey
    <3>1. resident' = resident
      BY <1>1, <2>1
    <3> QED
      BY <1>1, <1>2, <2>1, <3>1, SameIndex
  <2>2. CASE key # NoKey
    <3>1. /\ resident \in Seq(Hashes) /\ Distinct(resident) /\ Len(resident) <= GdnCapacity
          /\ DOMAIN saved = Resident /\ \A k \in DOMAIN saved : saved[k] = StateOf(k)
      BY <1>2 DEF IndexInv
    <3>2. In(resident, key)
      BY <1>8, <2>2 DEF In, Resident
    <3>3. resident' = MoveToEnd(resident, key) /\ key \in Hashes
      BY <1>1, <1>9, <2>2
    <3>4. /\ resident' \in Seq(Hashes) /\ Distinct(resident') /\ resident' # << >>
          /\ \A k : In(resident', k) <=> In(resident, k) \/ k = key
          /\ Len(resident') = (IF In(resident, key) THEN Len(resident) ELSE Len(resident) + 1)
          /\ resident'[Len(resident')] = key
      BY <3>1, <3>3, MoveToEndFacts
    <3>5. Resident' = Resident
      BY <3>2, <3>4 DEF Resident, In
    <3>6. Len(resident') <= GdnCapacity' /\ saved' = saved
      BY <1>1, <3>1, <3>2, <3>4 DEF GdnCapacity
    <3> QED
      BY <3>1, <3>4, <3>5, <3>6 DEF IndexInv
  <2> QED
    BY <2>1, <2>2
<1>14. KeysInv(s)'

  <2>2. PrefixOf(restoreKey[s], s, Len(tokens[s]))'
    BY <1>4, <1>8, <1>12 DEF PrefixOf
  <2>3. (\A k \in targets[s] : k # NoKey /\ PrefixOf(k, s, Len(tokens[s])))'
    BY <1>4, <1>8, <1>12 DEF PrefixOf
  <2>4. (\E a, b \in Hashes \cup {NoKey} : targets[s] \subseteq {a, b})'
    BY <1>8, <1>12
  <2>5. Policy' = Policy
    BY <1>1 DEF Policy
  <2>6. (Policy = "admission64" /\ chunk[s] > 0 =>
           \A k \in targets[s] : Len(k) <= numComputed[s] \/ Len(k) >= StepEnd(s))'
    BY <1>11, <1>12, <2>5
  <2> QED
    BY <2>2, <2>3, <2>4, <2>6 DEF KeysInv
<1>15. First(s)'
  <2>1. Whole(from)
    BY <1>8, HashWhole DEF from
  <2>2. end = Len(tokens[s]) \/ Whole(end)
    BY <1>6, <1>9, <1>10, <2>1, StepAligned DEF end
  <2>3. StepWhole(s)'
    BY <1>4, <1>12, <2>2 DEF StepWhole
  <2> QED
    BY <1>3, <1>12, <1>13, <2>3 DEF First, from
<1>16. SeqInv(s)'
  <2>1. tokens'[s] # << >> /\ allocating' # s
    BY <1>4, <1>7, AllocatorAssumption
  <2> QED
    BY <1>14, <1>15, <2>1 DEF SeqInv
<1>17. /\ restoreKey' \in [Seqs -> Hashes \cup {NoKey}] /\ targets' \in [Seqs -> SUBSET Hashes]
       /\ stage' \in [Seqs -> Stages] /\ DOMAIN mamba' = Seqs /\ historyLost' \in SUBSET Seqs
  BY <1>1, <1>6, <1>8, <1>10 DEF Stages
<1>18. \A r \in Seqs : r # s =>
         /\ tokens'[r] = tokens[r] /\ restoreKey'[r] = restoreKey[r] /\ targets'[r] = targets[r]
         /\ stage'[r] = stage[r] /\ mamba'[r] = mamba[r]
         /\ (r \in historyLost' <=> r \in historyLost)
         /\ numComputed'[r] = numComputed[r] /\ chunk'[r] = chunk[r]
  BY <1>1, <1>4, <1>6
<1>19. \A r \in Seqs : r # s => tokens[r] = << >>
  BY <1>7, OthersEmpty
<1> QED
  BY <1>1, <1>3, <1>13, <1>16, <1>17, <1>18, <1>19, OnlyOne

\* A sequence that runs, in its prefill or decoding.
LEMMA LaterFacts ==
  ASSUME GInv, NEW s \in Seqs, stage[s] \in {"prefill", "decode"}
  PROVE  tokens[s] # << >> /\ allocating # s /\ Later(s)
<1>1. SeqInv(s)
  BY DEF GInv
<1>2. ~ Fresh(s) /\ ~ First(s)
  BY DEF Fresh, First
<1> QED
  BY <1>1, <1>2 DEF SeqInv

LEMMA GdnContinueStep ==
  ASSUME GInv, NEW s \in Seqs, GdnContinuePrefill(s)
  PROVE  GInv'
<1> DEFINE from == numComputed[s]
           end  == CappedEnd(from, Min({Len(tokens[s]), from + Budget}), targets[s])
<1>1. /\ stage[s] = "prefill" /\ ContinuePrefill(s, end - from)
      /\ config' = config /\ resident' = resident /\ saved' = saved /\ restoreKey' = restoreKey
      /\ targets' = targets /\ stage' = stage /\ mamba' = mamba /\ historyLost' = historyLost
  BY DEF GdnContinuePrefill, gdnOnly
<1>2. tokens[s] # << >> /\ allocating # s /\ Later(s)
  BY <1>1, LaterFacts
<1> HIDE DEF end
<1>3. /\ tokens' = tokens /\ numComputed' = numComputed /\ chunk' = [chunk EXCEPT ![s] = end - from]
      /\ allocating' = allocating
  BY <1>1 DEF ContinuePrefill
<1>4. /\ IInv /\ config \in GdnConfigs /\ IndexInv /\ SeqInv(s) /\ Len(tokens[s]) \in Nat /\ from \in Nat
      /\ restoreKey \in [Seqs -> Hashes \cup {NoKey}] /\ targets \in [Seqs -> SUBSET Hashes]
      /\ stage \in [Seqs -> Stages] /\ DOMAIN mamba = Seqs /\ chunk \in [Seqs -> Nat]
      /\ historyLost \in SUBSET Seqs
  BY GInvFacts
<1>5. IInv'
  BY <1>1, <1>4, ContinuePrefillStep
<1>6. Min({Len(tokens[s]), from + Budget}) \in Nat /\ targets[s] \in SUBSET Hashes
  BY <1>4, LimitFacts
<1>7. /\ end \in Nat
      /\ Policy = "admission64" => \A k \in targets[s] : Len(k) <= from \/ Len(k) >= end
  BY <1>4, <1>6, CappedFacts DEF end
<1>8. StepEnd(s)' = end
  <2>1. from + (end - from) = end
    BY <1>4, <1>7
  <2>2. chunk'[s] = end - from /\ numComputed'[s] = from
    BY <1>3, <1>4
  <2> QED
    BY <2>1, <2>2 DEF StepEnd
<1>9. KeysInv(s)'
  <2>1. KeysInv(s)
    BY <1>4 DEF SeqInv
  <2>2. PrefixOf(restoreKey[s], s, Len(tokens[s]))'
    BY <1>1, <1>3, <2>1 DEF KeysInv, PrefixOf
  <2>3. (\A k \in targets[s] : k # NoKey /\ PrefixOf(k, s, Len(tokens[s])))'
    BY <1>1, <1>3, <2>1 DEF KeysInv, PrefixOf
  <2>4. (\E a, b \in Hashes \cup {NoKey} : targets[s] \subseteq {a, b})'
    BY <1>1, <2>1 DEF KeysInv
  <2>5. Policy' = Policy
    BY <1>1 DEF Policy
  <2>6. (Policy = "admission64" /\ chunk[s] > 0 =>
           \A k \in targets[s] : Len(k) <= numComputed[s] \/ Len(k) >= StepEnd(s))'
    BY <1>1, <1>3, <1>7, <1>8, <2>5
  <2> QED
    BY <2>2, <2>3, <2>4, <2>6 DEF KeysInv
<1>10. Later(s)'
  <2>1. Whole(from)
    BY <1>1, <1>2 DEF Later
  <2>2. end = Len(tokens[s]) \/ Whole(end)
    BY <1>4, <1>6, <2>1, StepAligned DEF end
  <2>3. StepWhole(s)'
    BY <1>3, <1>8, <2>2 DEF StepWhole
  <2> QED
    BY <1>1, <1>2, <1>3, <2>3 DEF Later
<1>11. SeqInv(s)'
  BY <1>2, <1>3, <1>9, <1>10 DEF SeqInv
<1>12. IndexInv'
  BY <1>1, <1>4, SameIndex
<1>13. \A r \in Seqs : r # s => chunk'[r] = chunk[r]
  BY <1>3, <1>4
<1>14. \A r \in Seqs : r # s => tokens[r] = << >>
  BY <1>2, OthersEmpty
<1>15. /\ restoreKey' \in [Seqs -> Hashes \cup {NoKey}] /\ targets' \in [Seqs -> SUBSET Hashes]
       /\ stage' \in [Seqs -> Stages] /\ DOMAIN mamba' = Seqs /\ historyLost' \in SUBSET Seqs
  BY <1>1, <1>4
<1> QED
  BY <1>1, <1>3, <1>5, <1>11, <1>12, <1>13, <1>14, <1>15, OnlyOne

\* An appended token leaves the prefixes as they are.
LEMMA PrefixOfAppend ==
  ASSUME NEW t \in Seq(Tokens), NEW x \in Tokens, NEW n \in Nat, n <= Len(t)
  PROVE  Prefix(Append(t, x), n) = Prefix(t, n)
<1>1. n \in 0 .. Len(t)
  BY LenProperties
<1> QED
  BY <1>1, PrefixOfAppended

LEMMA DecodeStep ==
  ASSUME GInv, NEW s \in Seqs, Decode(s)
  PROVE  GInv'
<1>1. PICK t \in Tokens : AppendInPlace(s, t) \/ \E b \in Blocks : AppendNewBlock(s, t, b)
  BY DEF Decode
<1>2. /\ stage[s] = "decode"
      /\ config' = config /\ resident' = resident /\ saved' = saved /\ restoreKey' = restoreKey
      /\ targets' = targets /\ stage' = stage /\ mamba' = mamba /\ historyLost' = historyLost
  BY DEF Decode, gdnOnly
<1>3. tokens[s] # << >> /\ allocating # s /\ Later(s)
  BY <1>2, LaterFacts
<1>4. /\ IInv /\ config \in GdnConfigs /\ IndexInv /\ SeqInv(s) /\ Len(tokens[s]) \in Nat
      /\ tokens[s] \in Seq(Tokens) /\ tokens \in [Seqs -> SeqsUpTo(MaxLen)] /\ numComputed[s] \in Nat
      /\ restoreKey \in [Seqs -> Hashes \cup {NoKey}] /\ targets \in [Seqs -> SUBSET Hashes]
      /\ stage \in [Seqs -> Stages] /\ DOMAIN mamba = Seqs /\ chunk \in [Seqs -> Nat]
      /\ historyLost \in SUBSET Seqs
  BY GInvFacts
<1>5. IInv'
  BY <1>1, <1>4, AppendInPlaceStep, AppendNewBlockStep
<1>6. /\ tokens' = [tokens EXCEPT ![s] = Append(tokens[s], t)]
      /\ chunk' = [chunk EXCEPT ![s] = 1] /\ numComputed[s] = Len(tokens[s])
      /\ numComputed' = numComputed /\ allocating' = allocating
  <2>1. CASE AppendInPlace(s, t)
    BY <2>1 DEF AppendInPlace, AppendTo, Decoding
  <2>2. ASSUME NEW b \in Blocks, AppendNewBlock(s, t, b)
        PROVE  /\ tokens' = [tokens EXCEPT ![s] = Append(tokens[s], t)]
               /\ chunk' = [chunk EXCEPT ![s] = 1] /\ numComputed[s] = Len(tokens[s])
               /\ numComputed' = numComputed /\ allocating' = allocating
    BY <2>2 DEF AppendNewBlock, AppendTo, Decoding
  <2> QED
    BY <1>1, <2>1, <2>2
<1>7. tokens'[s] = Append(tokens[s], t) /\ tokens'[s] \in Seq(Tokens) /\ Len(tokens'[s]) \in Nat
      /\ tokens'[s] # << >>
  <2>1. tokens'[s] = Append(tokens[s], t)
    BY <1>4, <1>6
  <2>2. /\ Append(tokens[s], t) \in Seq(Tokens) /\ Len(Append(tokens[s], t)) = Len(tokens[s]) + 1
    BY <1>4
  <2>3. Append(tokens[s], t) # << >>
    BY <1>4, <2>2
  <2> QED
    BY <1>4, <2>1, <2>2, <2>3
<1>8. targets'[s] = {} /\ restoreKey'[s] = NoKey
  BY <1>2, <1>3 DEF Later
<1>9. KeysInv(s)'
  BY <1>7, <1>8, FreshKeys
<1>10. Later(s)'
  <2>1. Prefix(tokens'[s], numComputed[s]) = Prefix(tokens[s], numComputed[s])
    BY <1>4, <1>6, <1>7, PrefixOfAppend
  <2>2. FoldsOnce(mamba[s], tokens'[s], numComputed[s])
    <3>1. \A i \in 1 .. numComputed[s] : tokens'[s][i] = tokens[s][i]
      BY <1>4, <1>6, <1>7
    <3> QED
      BY <1>3, <3>1 DEF Later, FoldsOnce
  <2>3. StepEnd(s)' = Len(tokens'[s])
    <3>1. Len(tokens'[s]) = numComputed[s] + 1 /\ chunk'[s] = 1
      BY <1>4, <1>6, <1>7
    <3> QED
      BY <1>6, <3>1 DEF StepEnd
  <2> QED
    BY <1>2, <1>3, <1>6, <1>8, <2>1, <2>2, <2>3 DEF Later, StepWhole
<1>11. SeqInv(s)'
  BY <1>3, <1>6, <1>7, <1>9, <1>10 DEF SeqInv
<1>12. IndexInv'
  BY <1>2, <1>4, SameIndex
<1>13. \A r \in Seqs : r # s => chunk'[r] = chunk[r] /\ tokens'[r] = tokens[r]
  BY <1>4, <1>6
<1>14. \A r \in Seqs : r # s => tokens[r] = << >>
  BY <1>3, OthersEmpty
<1>15. /\ restoreKey' \in [Seqs -> Hashes \cup {NoKey}] /\ targets' \in [Seqs -> SUBSET Hashes]
       /\ stage' \in [Seqs -> Stages] /\ DOMAIN mamba' = Seqs /\ historyLost' \in SUBSET Seqs
  BY <1>2, <1>4
<1> QED
  BY <1>2, <1>5, <1>6, <1>11, <1>12, <1>13, <1>14, <1>15, OnlyOne

LEMMA GdnFreeStep ==
  ASSUME GInv, NEW s \in Seqs, GdnFree(s)
  PROVE  GInv'
<1>1. /\ Free(s) /\ config' = config /\ resident' = resident /\ saved' = saved
      /\ restoreKey' = [restoreKey EXCEPT ![s] = NoKey]
      /\ targets' = [targets EXCEPT ![s] = {}]
      /\ stage' = [stage EXCEPT ![s] = "none"]
      /\ mamba' = [mamba EXCEPT ![s] = ZeroState] /\ historyLost' = historyLost \ {s}
  BY DEF GdnFree
<1>2. /\ s \in Running /\ chunk[s] = 0 /\ chunk' = chunk
      /\ tokens' = [tokens EXCEPT ![s] = << >>] /\ numComputed' = [numComputed EXCEPT ![s] = 0]
  BY <1>1 DEF Free
<1>3. /\ IInv /\ config \in GdnConfigs /\ IndexInv
      /\ tokens \in [Seqs -> SeqsUpTo(MaxLen)] /\ numComputed \in [Seqs -> Nat]
      /\ restoreKey \in [Seqs -> Hashes \cup {NoKey}] /\ targets \in [Seqs -> SUBSET Hashes]
      /\ stage \in [Seqs -> Stages] /\ DOMAIN mamba = Seqs /\ historyLost \in SUBSET Seqs
  BY GInvFacts
<1>4. IInv'
  BY <1>1, <1>3, FreeStep
<1>5. tokens[s] # << >>
  BY <1>2, <1>3, NoTable DEF Running
<1>6. Fresh(s)' /\ tokens'[s] = << >>
  BY <1>1, <1>2, <1>3 DEF Fresh
<1>7. KeysInv(s)'
  <2>1. tokens'[s] \in Seq(Tokens) /\ Len(tokens'[s]) \in Nat
    BY <1>6
  <2> QED
    BY <1>6, <2>1, FreshKeys DEF Fresh
<1>8. SeqInv(s)'
  BY <1>6, <1>7 DEF SeqInv
<1>9. IndexInv'
  BY <1>1, <1>3, SameIndex
<1>10. /\ restoreKey' \in [Seqs -> Hashes \cup {NoKey}] /\ targets' \in [Seqs -> SUBSET Hashes]
       /\ stage' \in [Seqs -> Stages] /\ DOMAIN mamba' = Seqs /\ historyLost' \in SUBSET Seqs
  BY <1>1, <1>3 DEF Stages
<1>11. \A r \in Seqs : r # s =>
         /\ tokens'[r] = tokens[r] /\ restoreKey'[r] = restoreKey[r] /\ targets'[r] = targets[r]
         /\ stage'[r] = stage[r] /\ mamba'[r] = mamba[r]
         /\ (r \in historyLost' <=> r \in historyLost)
         /\ numComputed'[r] = numComputed[r] /\ chunk'[r] = chunk[r]
  BY <1>1, <1>2, <1>3
<1>12. \A r \in Seqs : r # s => tokens[r] = << >>
  BY <1>5, OthersEmpty
<1> QED
  BY <1>1, <1>4, <1>8, <1>9, <1>10, <1>11, <1>12, OnlyOne

-----------------------------------------------------------------------------
(* A step of the workers *)

\* What a scheduled sequence is doing, and the keys its step captures.
LEMMA CaptureFacts ==
  ASSUME GInv, NEW s \in Seqs, chunk[s] > 0
  PROVE  /\ tokens[s] # << >> /\ allocating # s /\ (First(s) \/ Later(s))
         /\ StepEnd(s) \in Nat \ {0} /\ numComputed[s] <= StepEnd(s) /\ StepEnd(s) <= Len(tokens[s])
         /\ CaptureKeys(s) \in SUBSET Hashes
         /\ CaptureKeys(s) # {} => stage[s] # "decode"
         /\ \A k \in CaptureKeys(s) : /\ k = Prefix(tokens[s], Len(k)) /\ Len(k) \in Nat
                                      /\ numComputed[s] < Len(k) /\ Len(k) <= StepEnd(s)
         /\ \A k, l \in CaptureKeys(s) : k = l
<1>1. /\ config \in GdnConfigs /\ SeqInv(s) /\ tokens[s] \in SeqsUpTo(MaxLen)
      /\ Len(tokens[s]) \in Nat /\ numComputed[s] \in Nat /\ chunk[s] \in Nat
      /\ numComputed[s] + chunk[s] <= Len(tokens[s]) /\ targets \in [Seqs -> SUBSET Hashes]
  BY GInvFacts
<1>2. ~ Fresh(s)
  BY DEF Fresh
<1>3. tokens[s] # << >> /\ allocating # s /\ (First(s) \/ Later(s)) /\ KeysInv(s)
  BY <1>1, <1>2 DEF SeqInv
<1> DEFINE end == StepEnd(s)
<1>4. end \in Nat \ {0} /\ numComputed[s] <= end /\ end <= Len(tokens[s])
  BY <1>1 DEF StepEnd
<1> HIDE DEF end
<1>5. ASSUME NEW k \in CaptureKeys(s)
      PROVE  /\ k \in Hashes /\ k = Prefix(tokens[s], Len(k)) /\ Len(k) \in Nat
             /\ numComputed[s] < Len(k) /\ Len(k) <= end
             /\ Policy = "fine32" => k = FinalCaptureKey(tokens[s], end)
             /\ Policy # "fine32" => k \in targets[s] /\ Len(k) > numComputed[s]
  <2>1. Len(k) \in numComputed[s] + 1 .. end
    BY DEF CaptureKeys, end
  <2>2. /\ Policy = "fine32" => k = FinalCaptureKey(tokens[s], end) /\ k # NoKey
        /\ Policy # "fine32" => k \in targets[s]
    BY DEF CaptureKeys, end
  <2>3. k \in Hashes /\ k = Prefix(tokens[s], Len(k))
    <3>1. CASE Policy = "fine32"
      <4>1. PrefixOf(k, s, end)
        BY <1>1, <1>4, <2>2, <3>1, FinalKeyFacts
      <4> QED
        BY <2>2, <3>1, <4>1 DEF PrefixOf
    <3>2. CASE Policy # "fine32"
      <4>1. k \in targets[s]
        BY <2>2, <3>2
      <4>2. k \in Hashes
        BY <1>1, <4>1
      <4> QED
        BY <1>3, <4>1, <4>2 DEF KeysInv, PrefixOf
    <3> QED
      BY <3>1, <3>2
  <2>4. Len(k) \in Nat /\ numComputed[s] < Len(k) /\ Len(k) <= end
    BY <1>1, <1>4, <2>1
  <2> QED
    BY <1>1, <2>2, <2>3, <2>4
<1>6. ASSUME NEW k \in CaptureKeys(s), NEW l \in CaptureKeys(s) PROVE k = l
  <2>1. CASE Policy = "fine32"
    BY <1>5, <2>1
  <2>2. CASE Policy # "fine32"
    <3>1. Policy = "admission64"
      BY <1>1, <2>2, GdnAssumption DEF Policy
    <3>2. ASSUME NEW j \in CaptureKeys(s) PROVE j = Prefix(tokens[s], end)
      <4>1. j \in targets[s] /\ Len(j) \in Nat /\ Len(j) > numComputed[s] /\ Len(j) <= end
            /\ j = Prefix(tokens[s], Len(j))
        BY <1>5, <2>2
      <4>2. Len(j) <= numComputed[s] \/ Len(j) >= end
        BY <1>3, <3>1, <4>1 DEF KeysInv, end
      <4>3. Len(j) = end
        BY <1>1, <1>4, <4>1, <4>2
      <4> QED
        BY <4>1, <4>3
    <3> QED
      BY <3>2
  <2> QED
    BY <2>1, <2>2
<1>7. CaptureKeys(s) \in SUBSET Hashes /\ (CaptureKeys(s) # {} => stage[s] # "decode")
  BY <1>5 DEF CaptureKeys
<1> QED
  BY <1>3, <1>4, <1>5, <1>6, <1>7 DEF end

\* The keys that are resident after the step, which are the ones the workers then hold.
LEMMA AfterAdmission ==
  ASSUME GInv, NEW s \in Seqs, chunk[s] > 0, NEW new, new = Admit(resident, CaptureKeys(s))
  PROVE  /\ new \in Seq(Hashes) /\ Distinct(new) /\ Len(new) <= GdnCapacity
         /\ \A k : In(new, k) <=> k \in DOMAIN AfterEviction(s) \cup CaptureKeys(s)
         /\ First(s) /\ restoreKey[s] # NoKey => restoreKey[s] \in DOMAIN AfterEviction(s)
         /\ DOMAIN AfterEviction(s) \subseteq DOMAIN saved
<1>1. /\ config \in GdnConfigs /\ resident \in Seq(Hashes) /\ Distinct(resident)
      /\ Len(resident) <= GdnCapacity /\ DOMAIN saved = Resident
  BY DEF GInv, IndexInv
<1>2. CaptureKeys(s) \in SUBSET Hashes /\ \A k, l \in CaptureKeys(s) : k = l
  BY CaptureFacts
<1>3. /\ new \in Seq(Hashes) /\ Distinct(new) /\ Len(new) <= GdnCapacity
      /\ \A k : In(new, k) => In(resident, k) \/ k \in CaptureKeys(s)
      /\ \A k \in CaptureKeys(s) : In(new, k)
      /\ resident # << >> => In(new, resident[Len(resident)])
  BY <1>1, <1>2, AdmitFacts
<1>4. \A k : In(resident, k) <=> k \in Resident
  BY DEF In, Resident
<1>5. \A k : k \in DOMAIN AfterEviction(s) <=> k \in Resident /\ In(new, k)
  BY <1>1 DEF AfterEviction, EvictKeys, In
<1>6. \A k : In(new, k) <=> k \in DOMAIN AfterEviction(s) \cup CaptureKeys(s)
  BY <1>3, <1>4, <1>5
<1>7. ASSUME First(s), restoreKey[s] # NoKey PROVE restoreKey[s] \in DOMAIN AfterEviction(s)
  <2>1. resident # << >> /\ resident[Len(resident)] = restoreKey[s]
    BY <1>7 DEF First
  <2>2. Len(resident) \in DOMAIN resident
    <3>1. Len(resident) \in Nat /\ Len(resident) # 0 /\ DOMAIN resident = 1 .. Len(resident)
      BY <1>1, <2>1, EmptySeq, LenProperties
    <3> QED
      BY <3>1
  <2>3. restoreKey[s] \in Resident
    BY <2>1, <2>2 DEF Resident
  <2> QED
    BY <1>3, <1>5, <2>1, <2>3
<1>8. DOMAIN AfterEviction(s) \subseteq DOMAIN saved
  BY <1>1, <1>5
<1> QED
  BY <1>3, <1>6, <1>7, <1>8

\* The state the forward pass starts from.
LEMMA BaseFacts ==
  ASSUME GInv, NEW s \in Seqs, chunk[s] > 0
  PROVE  /\ BaseState(s) \in States /\ FoldsOnce(BaseState(s), tokens[s], numComputed[s])
         /\ s \notin historyLost => BaseState(s) = StateOf(Prefix(tokens[s], numComputed[s]))
<1>1. /\ tokens[s] \in Seq(Tokens) /\ numComputed[s] \in Nat /\ numComputed[s] <= Len(tokens[s])
      /\ IndexInv /\ KeysInv(s)
  <2>1. /\ tokens[s] \in Seq(Tokens) /\ numComputed[s] \in Nat /\ chunk[s] \in Nat
        /\ Len(tokens[s]) \in Nat /\ numComputed[s] + chunk[s] <= Len(tokens[s])
        /\ IndexInv /\ KeysInv(s)
    BY GInvFacts DEF SeqInv
  <2> QED
    BY <2>1
<1>2. First(s) \/ Later(s)
  BY CaptureFacts
<1>3. ASSUME BaseState(s) = StateOf(Prefix(tokens[s], numComputed[s]))
      PROVE  BaseState(s) \in States /\ FoldsOnce(BaseState(s), tokens[s], numComputed[s])
  BY <1>1, <1>3, StateOfFacts
<1>4. CASE First(s) /\ restoreKey[s] # NoKey
  <2>1. restoreKey[s] \in DOMAIN saved
    BY <1>4, AfterAdmission
  <2>2. saved[restoreKey[s]] = StateOf(restoreKey[s])
    BY <1>1, <2>1 DEF IndexInv
  <2>3. restoreKey[s] = Prefix(tokens[s], numComputed[s])
    BY <1>1, <1>4 DEF KeysInv, PrefixOf, First
  <2>4. BaseState(s) = StateOf(Prefix(tokens[s], numComputed[s]))
    BY <1>4, <2>2, <2>3 DEF BaseState, Restores, First
  <2> QED
    BY <1>3, <2>4
<1>5. CASE First(s) /\ restoreKey[s] = NoKey
  <2>1. numComputed[s] = 0 /\ BaseState(s) = ZeroState
    BY <1>5 DEF First, NoKey, BaseState, Restores
  <2>2. BaseState(s) = StateOf(Prefix(tokens[s], numComputed[s]))
    BY <1>1, <2>1, ZeroFacts
  <2> QED
    BY <1>3, <2>2
<1>6. CASE Later(s)
  <2>1. BaseState(s) = mamba[s]
    BY <1>6 DEF Later, BaseState, Restores
  <2> QED
    BY <1>6, <2>1 DEF Later
<1> QED
  BY <1>2, <1>4, <1>5, <1>6

\* The forward pass folds the tokens of the step in order, and is right about their
\* history unless it leaves a short one behind.
LEMMA StateFacts ==
  ASSUME GInv, NEW s \in Seqs, chunk[s] > 0,
         NEW pos \in Nat, numComputed[s] <= pos, pos <= StepEnd(s)
  PROVE  /\ StateAt(s, pos) \in States /\ FoldsOnce(StateAt(s, pos), tokens[s], pos)
         /\ s \notin historyLost /\ ~ (ShortPrefill(s) /\ pos = StepEnd(s) /\ numComputed[s] > 0) =>
              StateAt(s, pos) = StateOf(Prefix(tokens[s], pos))
<1>1. PICK t, n, e, base : t = tokens[s] /\ n = numComputed[s] /\ e = StepEnd(s) /\ base = BaseState(s)
  OBVIOUS
<1>2. /\ t \in Seq(Tokens) /\ Len(t) \in Nat /\ n \in Nat /\ e \in Nat /\ n <= e /\ e <= Len(t)
      /\ n <= pos /\ pos <= e /\ pos <= Len(t) /\ n <= Len(t)
  <2>1. t \in Seq(Tokens) /\ Len(t) \in Nat /\ n \in Nat
    BY <1>1, GInvFacts
  <2>2. e \in Nat /\ n <= e /\ e <= Len(t)
    BY <1>1, CaptureFacts
  <2> QED
    BY <1>1, <2>1, <2>2
<1>3. /\ base \in States /\ FoldsOnce(base, t, n)
      /\ s \notin historyLost => base = StateOf(Prefix(t, n))
  BY <1>1, BaseFacts
<1>4. PICK new : new = SubSeq(t, n + 1, e)
  OBVIOUS
<1>5. /\ new \in Seq(Tokens) /\ Len(new) = e - n /\ \A i \in 1 .. e - n : new[i] = t[n + i]
      /\ pos - n \in Nat /\ pos - n <= Len(new)
  BY <1>2, <1>4
<1>6. PICK start : start = IF ShortPrefill(s) /\ pos = e THEN NoHistory ELSE base.conv
  OBVIOUS
<1>7. StateAt(s, pos) = [conv |-> Carried(start, new, pos - n),
                         temporal |-> base.temporal \o Folded(base.conv, new, pos - n)]
  BY <1>1, <1>4, <1>6 DEF StateAt, ConvAt, TemporalAt, StepTokens
<1>8. /\ base.conv \in Window /\ base.temporal \in Seq(Taken) /\ start \in Window
      /\ Len(base.temporal) = n /\ \A i \in 1 .. n : base.temporal[i].token = t[i]
  BY <1>3, <1>6, NoHistoryType DEF States, FoldsOnce
<1>9. StateAt(s, pos) \in States /\ FoldsOnce(StateAt(s, pos), t, pos)
  <2>1. Carried(start, new, pos - n) \in Window
    BY <1>5, <1>8, CarriedType
  <2>2. PICK more : more = Folded(base.conv, new, pos - n)
    OBVIOUS
  <2>3. /\ more \in Seq(Taken) /\ Len(more) = pos - n
        /\ \A i \in 1 .. pos - n : more[i].token = new[i]
    <3>1. PICK d \in Nat : d = pos - n /\ d <= Len(new)
      BY <1>5
    <3>2. PICK conv \in Window : conv = base.conv
      BY <1>8
    <3>3. /\ Folded(conv, new, d) \in Seq(Taken) /\ Len(Folded(conv, new, d)) = d
          /\ \A i \in 1 .. d : Folded(conv, new, d)[i].token = new[i]
      BY <1>5, <3>1, FoldedFacts
    <3> QED
      BY <2>2, <3>1, <3>2, <3>3
  <2>4. /\ base.temporal \o more \in Seq(Taken) /\ Len(base.temporal \o more) = n + (pos - n)
        /\ \A i \in 1 .. n + (pos - n) :
             (base.temporal \o more)[i] = IF i <= n THEN base.temporal[i] ELSE more[i - n]
    <3>1. PICK front \in Seq(Taken) : front = base.temporal
      BY <1>8
    <3>2. /\ front \o more \in Seq(Taken) /\ Len(front \o more) = Len(front) + Len(more)
          /\ \A i \in 1 .. Len(front) + Len(more) :
               (front \o more)[i] = IF i <= Len(front) THEN front[i] ELSE more[i - Len(front)]
      BY <2>3, ConcatProperties
    <3>3. Len(front) = n /\ Len(more) = pos - n
      BY <1>8, <2>3, <3>1
    <3> QED
      BY <3>1, <3>2, <3>3, Zenon
  <2>5. n + (pos - n) = pos
    BY <1>2
  <2>6. ASSUME NEW i \in 1 .. pos PROVE (base.temporal \o more)[i].token = t[i]
    <3>1. CASE i <= n
      BY <1>2, <1>8, <2>4, <2>5, <3>1
    <3>2. CASE ~ (i <= n)
      <4>1. i - n \in 1 .. pos - n /\ i - n \in 1 .. e - n /\ n + (i - n) = i
        BY <1>2, <3>2
      <4>2. more[i - n].token = t[i]
        BY <1>5, <2>3, <4>1
      <4> QED
        BY <2>4, <2>5, <3>2, <4>2
    <3> QED
      BY <3>1, <3>2
  <2>7. StateAt(s, pos) = [conv |-> Carried(start, new, pos - n), temporal |-> base.temporal \o more]
    BY <1>7, <2>2
  <2> QED
    BY <2>1, <2>4, <2>5, <2>6, <2>7 DEF States, FoldsOnce
<1>10. ASSUME s \notin historyLost,
              ~ (ShortPrefill(s) /\ pos = StepEnd(s) /\ numComputed[s] > 0)
       PROVE  StateAt(s, pos) = StateOf(Prefix(t, pos))
  <2>1. base = [conv |-> Carried(NoHistory, t, n), temporal |-> Folded(NoHistory, t, n)]
    BY <1>2, <1>3, <1>10, StateOfFacts
  <2>2. start = Carried(NoHistory, t, n)
    <3>1. CASE ShortPrefill(s) /\ pos = e
      <4>1. n = 0
        BY <1>1, <1>2, <1>10, <3>1
      <4>2. base.conv = NoHistory
        BY <1>2, <1>3, <1>10, <4>1, ZeroFacts
      <4> QED
        BY <1>6, <2>1, <3>1, <4>2
    <3>2. CASE ~ (ShortPrefill(s) /\ pos = e)
      BY <1>6, <2>1, <3>2
    <3> QED
      BY <3>1, <3>2
  <2>3. Carried(start, new, pos - n) = Carried(NoHistory, t, pos)
    BY <1>2, <1>4, <2>2, CarriedOn
  <2>4. base.temporal \o Folded(base.conv, new, pos - n) = Folded(NoHistory, t, pos)
    <3>1. Folded(NoHistory, t, n) \o Folded(Carried(NoHistory, t, n), SubSeq(t, n + 1, e), pos - n)
          = Folded(NoHistory, t, pos)
      BY <1>2, FoldedOn
    <3> QED
      BY <1>4, <2>1, <3>1
  <2>5. StateOf(Prefix(t, pos)) = [conv |-> Carried(NoHistory, t, pos), temporal |-> Folded(NoHistory, t, pos)]
    BY <1>2, StateOfFacts
  <2> QED
    BY <1>7, <2>3, <2>4, <2>5
<1> QED
  BY <1>1, <1>9, <1>10

\* A step that captures a key, or that is not the last of its prompt, takes a block
\* or more and is not short.
LEMMA LongSteps ==
  ASSUME GInv, NEW s \in Seqs, chunk[s] > 0, stage[s] # "decode"
  PROVE  /\ s \notin historyLost /\ StepWhole(s)
         /\ \A n \in Nat : Whole(n) /\ numComputed[s] < n /\ n <= StepEnd(s) => ~ ShortPrefill(s)
<1>1. numComputed[s] \in Nat /\ chunk[s] \in Nat /\ restoreKey[s] \in Hashes \cup {NoKey}
  BY GInvFacts
<1>2. First(s) \/ Later(s)
  BY CaptureFacts
<1>3. s \notin historyLost /\ StepWhole(s) /\ Whole(numComputed[s])
  <2>1. CASE First(s)
    BY <1>1, <2>1, HashWhole DEF First
  <2>2. CASE Later(s)
    BY <2>2 DEF Later
  <2> QED
    BY <1>2, <2>1, <2>2
<1>4. ASSUME NEW n \in Nat, Whole(n), numComputed[s] < n, n <= StepEnd(s)
      PROVE  ~ ShortPrefill(s)
  <2>1. n - numComputed[s] >= BlockSize
    BY <1>1, <1>3, <1>4, WholeSums
  <2>2. n <= numComputed[s] + chunk[s]
    BY <1>4 DEF StepEnd
  <2>3. BlockSize \in Nat /\ ConvLen \in Nat /\ ConvLen <= BlockSize
    BY AllocatorAssumption, GdnAssumption
  <2>4. ~ (chunk[s] < ConvLen)
    BY <1>1, <2>1, <2>2, <2>3
  <2> QED
    BY <2>4 DEF ShortPrefill
<1> QED
  BY <1>3, <1>4

LEMMA GdnExecuteStep ==
  ASSUME GInv, NEW s \in Seqs, GdnExecute(s)
  PROVE  GInv'
<1> DEFINE end  == StepEnd(s)
           done == end = Len(tokens[s])
<1>1. /\ Execute /\ chunk[s] > 0 /\ config' = config
      /\ resident' = Admit(resident, CaptureKeys(s))
      /\ saved' = [k \in DOMAIN AfterEviction(s) \cup CaptureKeys(s) |->
                     IF k \in CaptureKeys(s) THEN StateAt(s, Len(k)) ELSE saved[k]]
      /\ mamba' = [mamba EXCEPT ![s] = StateAt(s, end)]
      /\ stage' = [stage EXCEPT ![s] = IF done THEN "decode" ELSE "prefill"]
      /\ historyLost' = IF ShortPrefill(s) /\ numComputed[s] > 0
                        THEN historyLost \cup {s} ELSE historyLost
  BY DEF GdnExecute, Scheduled
<1>2. /\ done => restoreKey' = [restoreKey EXCEPT ![s] = NoKey] /\ targets' = [targets EXCEPT ![s] = {}]
      /\ ~ done => restoreKey' = restoreKey /\ targets' = targets
  BY DEF GdnExecute
<1>3. /\ numComputed' = [r \in Seqs |-> numComputed[r] + chunk[r]] /\ chunk' = [r \in Seqs |-> 0]
      /\ tokens' = tokens /\ allocating' = allocating
  BY <1>1 DEF Execute
<1>4. /\ tokens[s] # << >> /\ allocating # s /\ end \in Nat \ {0} /\ numComputed[s] <= end
      /\ end <= Len(tokens[s]) /\ CaptureKeys(s) \in SUBSET Hashes
      /\ \A k \in CaptureKeys(s) : /\ k = Prefix(tokens[s], Len(k)) /\ Len(k) \in Nat
                                   /\ numComputed[s] < Len(k) /\ Len(k) <= end
  BY <1>1, CaptureFacts
<1>5. /\ IInv /\ config \in GdnConfigs /\ IndexInv /\ SeqInv(s)
      /\ tokens[s] \in Seq(Tokens) /\ Len(tokens[s]) \in Nat /\ numComputed[s] \in Nat
      /\ restoreKey \in [Seqs -> Hashes \cup {NoKey}] /\ targets \in [Seqs -> SUBSET Hashes]
      /\ stage \in [Seqs -> Stages] /\ DOMAIN mamba = Seqs /\ historyLost \in SUBSET Seqs
  BY GInvFacts
<1>6. IInv'
  BY <1>1, <1>5, ExecuteStep
<1>7. numComputed'[s] = end /\ chunk'[s] = 0
  BY <1>3 DEF StepEnd
<1>8. /\ StateAt(s, end) \in States /\ FoldsOnce(StateAt(s, end), tokens[s], end)
      /\ s \notin historyLost' => StateAt(s, end) = StateOf(Prefix(tokens[s], end))
  BY <1>1, <1>4, StateFacts
<1>17. ASSUME ~ done PROVE s \notin historyLost' /\ Whole(end)
  <2>1. stage[s] # "decode"
    <3>1. First(s) \/ Later(s)
      BY <1>1, CaptureFacts
    <3> QED
      BY <1>1, <1>17, <3>1 DEF First, Later
  <2>2. s \notin historyLost /\ StepWhole(s)
    BY <1>1, <2>1, LongSteps
  <2>3. Whole(end)
    BY <1>17, <2>2 DEF StepWhole
  <2>4. numComputed[s] < end
    <3>1. numComputed[s] \in Nat /\ chunk[s] \in Nat
      BY GInvFacts
    <3> QED
      BY <1>1, <3>1 DEF StepEnd
  <2>5. ~ ShortPrefill(s)
    BY <1>1, <1>4, <2>1, <2>3, <2>4, LongSteps
  <2> QED
    BY <1>1, <2>2, <2>3, <2>5
<1> HIDE DEF end
<1>9. IndexInv'
  <2>1. /\ resident' \in Seq(Hashes) /\ Distinct(resident') /\ Len(resident') <= GdnCapacity
        /\ \A k : In(resident', k) <=> k \in DOMAIN AfterEviction(s) \cup CaptureKeys(s)
        /\ DOMAIN AfterEviction(s) \subseteq DOMAIN saved
    BY <1>1, AfterAdmission
  <2>2. DOMAIN saved' = DOMAIN AfterEviction(s) \cup CaptureKeys(s)
    BY <1>1
  <2>3. DOMAIN saved' = Resident'
    BY <2>1, <2>2 DEF In, Resident
  <2>4. ASSUME NEW k \in DOMAIN saved' PROVE saved'[k] = StateOf(k)
    <3>1. CASE k \in CaptureKeys(s)
      <4>1. /\ Len(k) \in Nat /\ numComputed[s] < Len(k) /\ Len(k) <= StepEnd(s)
            /\ k = Prefix(tokens[s], Len(k)) /\ Whole(Len(k)) /\ stage[s] # "decode"
        <5>1. k \in Hashes /\ stage[s] # "decode"
          BY <1>1, <3>1, CaptureFacts
        <5> QED
          BY <1>4, <3>1, <5>1, HashWhole DEF end
      <4>2. s \notin historyLost /\ ~ ShortPrefill(s)
        BY <1>1, <4>1, LongSteps
      <4>3. numComputed[s] <= Len(k)
        BY <1>5, <4>1
      <4>4. StateAt(s, Len(k)) = StateOf(Prefix(tokens[s], Len(k)))
        BY <1>1, <4>1, <4>2, <4>3, StateFacts
      <4> QED
        BY <1>1, <2>2, <3>1, <4>1, <4>4
    <3>2. CASE k \notin CaptureKeys(s)
      <4>1. k \in DOMAIN saved /\ saved'[k] = saved[k]
        BY <1>1, <2>1, <2>2, <2>4, <3>2
      <4> QED
        BY <1>5, <4>1 DEF IndexInv
    <3> QED
      BY <3>1, <3>2
  <2>5. GdnCapacity' = GdnCapacity
    BY <1>1 DEF GdnCapacity
  <2> QED
    BY <2>1, <2>3, <2>4, <2>5 DEF IndexInv
<1>10. KeysInv(s)'
  <2>1. CASE done
    <3>1. restoreKey'[s] = NoKey /\ targets'[s] = {}
      BY <1>2, <1>5, <2>1
    <3>2. tokens'[s] \in Seq(Tokens) /\ Len(tokens'[s]) \in Nat
      BY <1>3, <1>5
    <3> QED
      BY <3>1, <3>2, FreshKeys
  <2>2. CASE ~ done
    <3>1. restoreKey' = restoreKey /\ targets' = targets /\ KeysInv(s)
      BY <1>2, <1>5, <2>2 DEF SeqInv
    <3>2. PrefixOf(restoreKey[s], s, Len(tokens[s]))'
      BY <1>3, <3>1 DEF KeysInv, PrefixOf
    <3>3. (\A k \in targets[s] : k # NoKey /\ PrefixOf(k, s, Len(tokens[s])))'
      BY <1>3, <3>1 DEF KeysInv, PrefixOf
    <3>4. (\E a, b \in Hashes \cup {NoKey} : targets[s] \subseteq {a, b})'
      BY <3>1 DEF KeysInv
    <3>5. ~ (chunk'[s] > 0)
      BY <1>7
    <3> QED
      BY <3>2, <3>3, <3>4, <3>5 DEF KeysInv
  <2> QED
    BY <2>1, <2>2
<1>11. Later(s)'
  <2>1. /\ mamba'[s] \in States /\ FoldsOnce(mamba[s], tokens[s], numComputed[s])'
        /\ s \notin historyLost' => mamba'[s] = StateOf(Prefix(tokens'[s], numComputed'[s]))
    <3>1. mamba'[s] = StateAt(s, end)
      BY <1>1, <1>5
    <3> QED
      BY <1>3, <1>7, <1>8, <3>1 DEF FoldsOnce
  <2>2. stage'[s] \in {"prefill", "decode"} /\ (stage'[s] = "decode" => done)
        /\ (stage'[s] = "prefill" => ~ done) /\ ~ (chunk'[s] > 0)
    BY <1>1, <1>5, <1>7
  <2>3. done => targets'[s] = {} /\ restoreKey'[s] = NoKey
    BY <1>2, <1>5
  <2>4. ~ done => s \notin historyLost' /\ Whole(numComputed'[s])
    BY <1>7, <1>17
  <2> HIDE DEF done
  <2> QED
    BY <2>1, <2>2, <2>3, <2>4 DEF Later
<1>12. SeqInv(s)'
  BY <1>3, <1>4, <1>10, <1>11 DEF SeqInv
<1>13. \A r \in Seqs : r # s => tokens[r] = << >>
  BY <1>4, OthersEmpty
<1>14. ASSUME NEW r \in Seqs, r # s PROVE numComputed'[r] = numComputed[r] /\ chunk'[r] = chunk[r]
  <2>1. numComputed[r] = 0 /\ chunk[r] = 0
    BY <1>5, <1>13, <1>14, NoTable
  <2> QED
    BY <1>3, <2>1
<1>15. /\ restoreKey' \in [Seqs -> Hashes \cup {NoKey}] /\ targets' \in [Seqs -> SUBSET Hashes]
       /\ stage' \in [Seqs -> Stages] /\ DOMAIN mamba' = Seqs /\ historyLost' \in SUBSET Seqs
  <2>1. restoreKey' \in [Seqs -> Hashes \cup {NoKey}] /\ targets' \in [Seqs -> SUBSET Hashes]
    <3> HIDE DEF done
    <3> QED
      BY <1>2, <1>5
  <2>2. stage' \in [Seqs -> Stages] /\ DOMAIN mamba' = Seqs /\ historyLost' \in SUBSET Seqs
    BY <1>1, <1>5 DEF Stages
  <2> QED
    BY <2>1, <2>2
<1>16. \A r \in Seqs : r # s =>
         /\ restoreKey'[r] = restoreKey[r] /\ targets'[r] = targets[r]
         /\ stage'[r] = stage[r] /\ mamba'[r] = mamba[r]
         /\ (r \in historyLost' <=> r \in historyLost)
  <2> HIDE DEF done
  <2> QED
    BY <1>1, <1>2, <1>5
<1> QED
  BY <1>1, <1>3, <1>6, <1>9, <1>12, <1>13, <1>14, <1>15, <1>16, OnlyOne

-----------------------------------------------------------------------------
(* The invariant and what it says *)

LEMMA GdnNextInv == GInv /\ [GdnNext]_gdnVars => GInv'
<1> SUFFICES ASSUME GInv, [GdnNext]_gdnVars PROVE GInv'
  OBVIOUS
<1>1. ASSUME NEW s \in Seqs, NEW prompt \in Prompts, GdnBeginAllocate(s, prompt) PROVE GInv'
  BY <1>1, GdnBeginStep
<1>2. ASSUME NEW s \in Seqs, AllocateBlock(s) PROVE GInv'
  BY <1>2, AllocateBlockStep
<1>3. ASSUME NEW s \in Seqs, GdnEndAllocate(s) PROVE GInv'
  BY <1>3, GdnEndStep
<1>4. ASSUME NEW s \in Seqs, GdnContinuePrefill(s) PROVE GInv'
  BY <1>4, GdnContinueStep
<1>5. ASSUME NEW s \in Seqs, Decode(s) PROVE GInv'
  BY <1>5, DecodeStep
<1>6. ASSUME NEW s \in Seqs, GdnFree(s) PROVE GInv'
  BY <1>6, GdnFreeStep
<1>7. ASSUME NEW s \in Seqs, GdnExecute(s) PROVE GInv'
  BY <1>7, GdnExecuteStep
<1>8. CASE UNCHANGED gdnVars
  <2>1. UNCHANGED <<config, gdnOnly>> /\ UNCHANGED vars
    BY <1>8 DEF gdnVars
  <2>2. UNCHANGED <<tokens, numComputed, chunk, allocating>>
    BY <2>1 DEF vars
  <2>3. IInv'
    BY <2>1, NextIInv DEF GInv
  <2> QED
    BY <2>1, <2>2, <2>3, SameGdn
<1> QED
  BY <1>1, <1>2, <1>3, <1>4, <1>5, <1>6, <1>7, <1>8 DEF GdnNext

LEMMA GInvHolds == GdnSpec => []GInv
BY GdnInitInv, GdnNextInv, PTL DEF GdnSpec

\* An order without repetitions has as many keys as places.
LEMMA DistinctCount ==
  ASSUME NEW order \in Seq(Hashes), Distinct(order), NEW T, T = {order[i] : i \in DOMAIN order}
  PROVE  Cardinality(T) = Len(order)
<1>1. Len(order) \in Nat /\ DOMAIN order = 1 .. Len(order) /\ order \in [1 .. Len(order) -> Hashes]
  OBVIOUS
<1>2. order \in [1 .. Len(order) -> T]
  BY <1>1
<1>3. order \in Bijection(1 .. Len(order), T)
  <2>1. order \in Injection(1 .. Len(order), T)
    BY <1>1, <1>2 DEF Injection, IsInjective, Distinct
  <2>2. \A t \in T : \E i \in 1 .. Len(order) : order[i] = t
    BY <1>1
  <2>3. order \in Surjection(1 .. Len(order), T)
    BY <1>2, <2>2 DEF Surjection
  <2> QED
    BY <2>1, <2>3 DEF Bijection
<1>4. IsFiniteSet(1 .. Len(order)) /\ Cardinality(1 .. Len(order)) = Len(order)
  BY <1>1, FS_Interval
<1>5. ExistsBijection(1 .. Len(order), T)
  BY <1>3 DEF ExistsBijection
<1> QED
  BY <1>4, <1>5, FS_Bijection

LEMMA GInvTypes ==
  ASSUME GInv
  PROVE  GdnTypeOK
<1>1. TypeOK
  BY IInvTypes DEF GInv
<1>2. Resident \subseteq Hashes /\ Len(resident) <= GdnCapacity /\ DOMAIN saved \subseteq Hashes
  <2>1. resident \in Seq(Hashes) /\ DOMAIN saved = Resident /\ Len(resident) <= GdnCapacity
    BY DEF GInv, IndexInv
  <2> QED
    BY <2>1 DEF Resident
<1>3. ASSUME NEW s \in Seqs PROVE targets[s] \subseteq Hashes /\ Cardinality(targets[s]) <= 2
  <2>1. PICK a \in Hashes \cup {NoKey}, b \in Hashes \cup {NoKey} : targets[s] \subseteq {a, b}
    BY DEF GInv, SeqInv, KeysInv
  <2>2. IsFiniteSet({a}) /\ Cardinality({a}) = 1
    BY FS_Singleton
  <2>3. /\ IsFiniteSet({a} \cup {b})
        /\ Cardinality({a} \cup {b}) = IF b \in {a} THEN Cardinality({a}) ELSE Cardinality({a}) + 1
    BY <2>2, FS_AddElement
  <2>4. Cardinality({a} \cup {b}) \in Nat /\ Cardinality({a} \cup {b}) <= 2
    BY <2>2, <2>3
  <2>5. targets[s] \in SUBSET ({a} \cup {b})
    BY <2>1
  <2>6. IsFiniteSet(targets[s]) /\ Cardinality(targets[s]) <= Cardinality({a} \cup {b})
    BY <2>3, <2>5, FS_Subset
  <2>7. Cardinality(targets[s]) \in Nat
    BY <2>6, FS_CardinalityType
  <2>8. Cardinality(targets[s]) <= 2
    BY <2>4, <2>6, <2>7
  <2>9. targets[s] \subseteq Hashes
    BY DEF GInv
  <2> QED
    BY <2>8, <2>9
<1>4. /\ restoreKey \in [Seqs -> Hashes \cup {NoKey}] /\ stage \in [Seqs -> Stages]
      /\ historyLost \subseteq Seqs
  BY DEF GInv
<1> QED
  BY <1>1, <1>2, <1>3, <1>4 DEF GdnTypeOK

\* The keys GdnPrefixStatePolicy counts as resident are exactly the keys of the workers'
\* _gdn_prefix_cache, whatever is captured, refreshed and evicted, so that a restore
\* never meets "scheduler requested a missing GDN prefix state".
THEOREM WorkersFollowPolicy == GdnSpec => []WorkersMirrorPolicy
<1>1. GInv => WorkersMirrorPolicy
  <2> SUFFICES ASSUME GInv PROVE WorkersMirrorPolicy
    OBVIOUS
  <2>1. resident \in Seq(Hashes) /\ Distinct(resident) /\ DOMAIN saved = Resident
    BY DEF GInv, IndexInv
  <2>2. Cardinality(Resident) = Len(resident)
    BY <2>1, DistinctCount DEF Resident
  <2>3. GdnTypeOK
    BY GInvTypes
  <2> QED
    BY <2>1, <2>2, <2>3 DEF WorkersMirrorPolicy
<1> QED
  BY <1>1, GInvHolds, PTL

\* The keys schedule() admits with a step never push out the key the same step
\* restores: select_restore has moved it to the end of the order, and a step
\* captures at most one key.
THEOREM RestoredStateStays == GdnSpec => []RestoreSurvivesAdmission
<1>1. GInv => RestoreSurvivesAdmission
  <2> SUFFICES ASSUME GInv, NEW s \in Scheduled, Restores(s)
               PROVE  restoreKey[s] \in DOMAIN AfterEviction(s)
    BY DEF RestoreSurvivesAdmission
  <2>1. s \in Seqs /\ chunk[s] > 0
    BY DEF Scheduled
  <2>2. First(s)
    <3>1. First(s) \/ Later(s)
      BY <2>1, CaptureFacts
    <3> QED
      BY <3>1 DEF Restores, Later
  <2> QED
    BY <2>1, <2>2, AfterAdmission DEF Restores
<1> QED
  BY <1>1, GInvHolds, PTL

\* A state in _gdn_prefix_cache is the state that one unbroken pass over the prefix its
\* key names gives, the history of the convolution included, whichever chunks, restores
\* and captures it went through: the steps that lose the history never capture.
THEOREM SavedStatesAreRight == GdnSpec => []SavedStatesMatchKeys
<1>1. GInv => SavedStatesMatchKeys
  BY DEF GInv, IndexInv, SavedStatesMatchKeys
<1> QED
  BY <1>1, GInvHolds, PTL

\* Between steps the recurrent state of a request has folded exactly the tokens that it
\* counts as computed, in order and once each.  It is the state of one unbroken pass over
\* them, the history of the convolution included, unless a prefill step shorter than the
\* window zeroed that history (qwen3_5.py:1045); only the last step of a prompt can.
THEOREM RecurrentStateRight == GdnSpec => []RecurrentStateCurrent
<1>1. GInv => RecurrentStateCurrent
  <2> SUFFICES ASSUME GInv, NEW s \in Running, stage[s] \in {"prefill", "decode"}
               PROVE  /\ FoldsOnce(mamba[s], tokens[s], numComputed[s])
                      /\ s \notin historyLost => mamba[s] = StateOf(Prefix(tokens[s], numComputed[s]))
                      /\ s \in historyLost => stage[s] = "decode"
    BY DEF RecurrentStateCurrent
  <2>1. Later(s)
    BY LaterFacts DEF Running
  <2> QED
    BY <2>1 DEF Later
<1> QED
  BY <1>1, GInvHolds, PTL
=============================================================================
