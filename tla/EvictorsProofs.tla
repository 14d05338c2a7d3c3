--------------------------- MODULE EvictorsProofs ---------------------------
(***************************************************************************)
(* Proofs about the two eviction policies, for any blocks, hashes, depths  *)
(* and bounds: the order their searches rest on is maintained, evict()     *)
(* returns the least block of that order, and both implement Evictor.      *)
(***************************************************************************)
EXTENDS EvictionPolicies, SequenceTheorems, FiniteSetTheorems, WellFoundedInduction, TLAPS

Entry == [id : Blocks, hash : Hashes, depth : Depths, last : 0 .. MaxClock]

\* While every step stamps all running sequences they carry the time of the latest
\* step, and no entry of LRUEvictor a later one.
LruOrder ==
  /\ Lru!StampsInInsertionOrder
  /\ \A s \in Seqs : stamp[s] # None => stamp[s] = lruClock
  /\ \A i \in 1 .. Len(lruTable) : lruTable[i].last <= lruClock

\* LRUEvictor: a block is in the table once.
LruInv ==
  /\ Lru!TypeOK
  /\ \A i, j \in 1 .. Len(lruTable) : lruTable[i].id = lruTable[j].id => i = j
  /\ Chunked => LruOrder

\* FrequencyAwareEvictor: no entry is of a generation still to come, no content
\* was added more often than blocks were pushed.
HeapInv ==
  /\ Frequency!TypeOK /\ Frequency!HeapCoversTable /\ Frequency!HeapBounded
  /\ IsFiniteSet(heap) /\ IsFiniteSet(Frequency!Held)
  /\ \A e \in heap : e[5] <= nextGeneration
  /\ \A h \in Hashes : frequency[h] <= nextGeneration

IInv == LruInv /\ HeapInv

-----------------------------------------------------------------------------
\* Induction over 1 .. n, stated for sets.
LEMMA LeastNatural ==
  ASSUME NEW T \in SUBSET Nat, T # {}
  PROVE  \E x \in T : \A y \in T : x <= y
<1> DEFINE R == OpToRel(<, Nat)
<1>1. IsWellFoundedOn(R, Nat)
  BY NatLessThanWellFounded
<1>2. \A x, y \in Nat : y < x => <<y, x>> \in R
  BY DEF OpToRel
<1> HIDE DEF R
<1>3. PICK x \in T : \A y \in T : ~ (<<y, x>> \in R)
  BY <1>1, WFMin
<1>4. ASSUME NEW y \in T PROVE x <= y
  <2>1. x \in Nat /\ y \in Nat /\ ~ (<<y, x>> \in R)
    BY <1>3
  <2>2. ~ (y < x)
    BY <1>2, <2>1, Zenon
  <2> QED
    BY <2>1, <2>2
<1> QED
  BY <1>4

LEMMA IntervalInduction ==
  ASSUME NEW n \in Nat, NEW T \in SUBSET (1 .. n), n >= 1 => 1 \in T,
         \A i \in 1 .. n : i \in T /\ i < n => i + 1 \in T
  PROVE  \A i \in 1 .. n : i \in T
<1> SUFFICES ASSUME (1 .. n) \ T # {} PROVE FALSE
  OBVIOUS
<1>1. PICK x \in (1 .. n) \ T : \A y \in (1 .. n) \ T : x <= y
  <2>1. (1 .. n) \ T \in SUBSET Nat
    OBVIOUS
  <2> QED
    BY <2>1, LeastNatural
<1>2. x # 1 /\ x \in Nat
  BY <1>1
<1>3. x - 1 \in T /\ x - 1 \in 1 .. n /\ x - 1 < n
  BY <1>1, <1>2
<1>4. x - 1 + 1 \in T
  BY <1>3
<1> QED
  BY <1>1, <1>2, <1>4

-----------------------------------------------------------------------------
(* LRUEvictor *)

\* One turn of the loop in evict().
Turn(i, prev) ==
  IF prev.stop THEN prev
  ELSE IF lruTable[prev.best].last < lruTable[i].last THEN [prev EXCEPT !.stop = TRUE]
  ELSE IF lruTable[prev.best].depth < lruTable[i].depth THEN [prev EXCEPT !.best = i]
  ELSE prev

ScanStates == [best : 1 .. Len(lruTable), stop : BOOLEAN]

\* The loop is well defined.
LEMMA ScanTurns ==
  ASSUME lruTable \in Seq(Entry)
  PROVE  \A i \in 1 .. Len(lruTable) :
           Lru!Scan[i] = IF i = 1 THEN [best |-> 1, stop |-> FALSE] ELSE Turn(i, Lru!Scan[i - 1])
<1> DEFINE n == Len(lruTable)
           Upto(k, f) == \A i \in 1 .. k :
             f[i] = IF i = 1 THEN [best |-> 1, stop |-> FALSE] ELSE Turn(i, f[i - 1])
           T == {k \in 1 .. n : \E f \in [1 .. k -> ScanStates] : Upto(k, f)}
<1>0. n \in Nat
  BY LenProperties
<1>1. \A k \in 1 .. n : k \in T
  <2>1. n >= 1 => 1 \in T
    <3> SUFFICES ASSUME n >= 1 PROVE 1 \in T
      OBVIOUS
    <3> DEFINE f == [i \in 1 .. 1 |-> [best |-> 1, stop |-> FALSE]]
    <3>1. f \in [1 .. 1 -> ScanStates]
      BY <1>0 DEF ScanStates
    <3>2. Upto(1, f)
      OBVIOUS
    <3>3. 1 \in 1 .. n
      BY <1>0
    <3> HIDE DEF f, Upto, n
    <3> QED
      BY <3>1, <3>2, <3>3
  <2>2. ASSUME NEW k \in 1 .. n, k \in T, k < n PROVE k + 1 \in T
    <3>1. PICK f \in [1 .. k -> ScanStates] : Upto(k, f)
      BY <2>2
    <3> DEFINE g == [i \in 1 .. k + 1 |-> IF i = k + 1 THEN Turn(k + 1, f[k]) ELSE f[i]]
    <3>2. f[k] \in ScanStates /\ k + 1 \in 1 .. n
      BY <1>0, <2>2, <3>1
    <3>3. Turn(k + 1, f[k]) \in ScanStates
      BY <3>2 DEF Turn, ScanStates
    <3>4. g \in [1 .. k + 1 -> ScanStates]
      BY <3>1, <3>3
    <3>5. \A i \in 1 .. k : g[i] = f[i]
      OBVIOUS
    <3>6. g[k + 1] = Turn(k + 1, g[k])
      BY <3>5
    <3>7. Upto(k + 1, g)
      <4> SUFFICES ASSUME NEW i \in 1 .. k + 1
                   PROVE  g[i] = IF i = 1 THEN [best |-> 1, stop |-> FALSE] ELSE Turn(i, g[i - 1])
        OBVIOUS
      <4> HIDE DEF g
      <4>1. CASE i = k + 1
        BY <3>6, <4>1
      <4>2. CASE i # k + 1
        <5>1. i \in 1 .. k /\ (i # 1 => i - 1 \in 1 .. k)
          BY <4>2
        <5>2. g[i] = f[i] /\ (i # 1 => g[i - 1] = f[i - 1])
          BY <3>5, <5>1
        <5> QED
          BY <3>1, <5>1, <5>2
      <4> QED
        BY <4>1, <4>2
    <3> HIDE DEF g
    <3> QED
      BY <3>2, <3>4, <3>7
  <2>3. T \in SUBSET (1 .. n)
    OBVIOUS
  <2> HIDE DEF T, n
  <2> QED
    BY <1>0, <2>1, <2>2, <2>3, IntervalInduction
<1>2. CASE n = 0
  BY <1>2
<1>3. CASE n # 0
  <2>1. PICK f \in [1 .. n -> ScanStates] : Upto(n, f)
    <3>1. n \in 1 .. n
      BY <1>0, <1>3
    <3> QED
      BY <1>1, <3>1
  <2>2. f = [i \in 1 .. Len(lruTable) |-> IF i = 1 THEN [best |-> 1, stop |-> FALSE] ELSE Turn(i, f[i - 1])]
    BY <2>1
  <2>3. Lru!Scan = [i \in 1 .. Len(lruTable) |->
                      IF i = 1 THEN [best |-> 1, stop |-> FALSE] ELSE Turn(i, Lru!Scan[i - 1])]
    BY <2>2 DEF Lru!Scan, Turn
  <2> QED
    BY <2>3
<1> QED
  BY <1>2, <1>3

LEMMA ScanInRange ==
  ASSUME lruTable \in Seq(Entry), lruTable # << >>
  PROVE  Lru!Scan[Len(lruTable)].best \in 1 .. Len(lruTable)
<1> DEFINE n == Len(lruTable)
           T == {i \in 1 .. n : Lru!Scan[i] \in ScanStates}
<1>1. n \in Nat /\ n # 0
  BY LenProperties, EmptySeq
<1>2. 1 \in T
  <2>1. 1 \in 1 .. n /\ Lru!Scan[1] = [best |-> 1, stop |-> FALSE]
    BY <1>1, ScanTurns
  <2>2. [best |-> 1, stop |-> FALSE] \in ScanStates
    BY <2>1 DEF ScanStates
  <2> QED
    BY <2>1, <2>2
<1>3. ASSUME NEW i \in 1 .. n, i \in T, i < n PROVE i + 1 \in T
  <2>1. i + 1 \in 1 .. n /\ i + 1 # 1 /\ i + 1 - 1 = i
    BY <1>1, <1>3
  <2>2. Lru!Scan[i + 1] = Turn(i + 1, Lru!Scan[i]) /\ Lru!Scan[i] \in ScanStates
    BY <1>3, <2>1, ScanTurns
  <2>3. Turn(i + 1, Lru!Scan[i]) \in ScanStates
    BY <2>1, <2>2 DEF Turn, ScanStates
  <2> QED
    BY <2>1, <2>2, <2>3
<1>4. T \in SUBSET (1 .. n) /\ n \in 1 .. n
  BY <1>1
<1>5. n \in T
  <2> HIDE DEF T, n
  <2> QED
    BY <1>1, <1>2, <1>3, <1>4, IntervalInduction
<1> QED
  BY <1>5 DEF ScanStates

\* Entry k goes before entry i, or may go instead of it.
NotAfter(k, i) ==
  \/ lruTable[k].last < lruTable[i].last
  \/ lruTable[k].last = lruTable[i].last /\ lruTable[k].depth >= lruTable[i].depth

LEMMA LruFacts ==
  ASSUME LruInv
  PROVE  /\ lruTable \in Seq(Entry) /\ Len(lruTable) \in Nat /\ DOMAIN lruTable = 1 .. Len(lruTable)
         /\ \A i \in 1 .. Len(lruTable) :
              /\ lruTable[i] \in Entry
              /\ lruTable[i].id \in Blocks /\ lruTable[i].hash \in Hashes
              /\ lruTable[i].depth \in Nat /\ lruTable[i].last \in Nat
         /\ Chunked => \A i, j \in 1 .. Len(lruTable) : i < j => lruTable[i].last <= lruTable[j].last
<1>1. lruTable \in Seq(Entry) /\ Len(lruTable) \in Nat /\ DOMAIN lruTable = 1 .. Len(lruTable)
  BY LenProperties DEF LruInv, Lru!TypeOK, Entry
<1>2. \A i \in 1 .. Len(lruTable) : lruTable[i] \in Entry
  BY <1>1
<1>3. Depths \subseteq Nat /\ 0 .. MaxClock \subseteq Nat
  BY EvictorAssumption
<1> QED
  BY <1>1, <1>2, <1>3 DEF Entry, LruInv, LruOrder, Lru!StampsInInsertionOrder

\* evict() stops early at an entry that is not after any other: the entries are in
\* the order of their stamps.
LEMMA ScanLeast ==
  ASSUME LruInv, Chunked, lruTable # << >>
  PROVE  LET k == Lru!Scan[Len(lruTable)].best
         IN  k \in 1 .. Len(lruTable) /\ \A i \in 1 .. Len(lruTable) : NotAfter(k, i)
<1> DEFINE n == Len(lruTable)
           Found(i, c) ==
             /\ c \in ScanStates /\ c.best <= i
             /\ \A j \in 1 .. i : NotAfter(c.best, j)
             /\ c.stop => \E m \in 1 .. i : lruTable[c.best].last < lruTable[m].last
           T == {i \in 1 .. n : Found(i, Lru!Scan[i])}
<1>1. n \in Nat /\ n # 0
  BY LruFacts, EmptySeq
<1>2. \A i \in 1 .. n :
        Lru!Scan[i] = IF i = 1 THEN [best |-> 1, stop |-> FALSE] ELSE Turn(i, Lru!Scan[i - 1])
  BY LruFacts, ScanTurns
<1>3. 1 \in T
  <2>1. 1 \in 1 .. n /\ Lru!Scan[1] = [best |-> 1, stop |-> FALSE]
    BY <1>1, <1>2
  <2>2. NotAfter(1, 1)
    BY <2>1, LruFacts DEF NotAfter
  <2>3. Found(1, [best |-> 1, stop |-> FALSE])
    BY <2>1, <2>2 DEF ScanStates
  <2> HIDE DEF Found
  <2> QED
    BY <2>1, <2>3
<1>4. ASSUME NEW i \in 1 .. n, i \in T, i < n PROVE i + 1 \in T
  <2> DEFINE c == Lru!Scan[i]
  <2>1. /\ c \in ScanStates /\ c.best \in 1 .. n /\ c.best <= i /\ c.best < i + 1 /\ c.stop \in BOOLEAN
        /\ \A j \in 1 .. i : NotAfter(c.best, j)
        /\ c.stop => \E m \in 1 .. i : lruTable[c.best].last < lruTable[m].last
    BY <1>4 DEF ScanStates
  <2>2. i + 1 \in 1 .. n /\ Lru!Scan[i + 1] = Turn(i + 1, c) /\ \A j \in 1 .. i + 1 : j \in 1 .. i \/ j = i + 1
    BY <1>1, <1>2, <1>4
  <2> HIDE DEF c
  <2>3. /\ \A j \in 1 .. n : lruTable[j].last \in Nat /\ lruTable[j].depth \in Nat
        /\ lruTable[c.best].last <= lruTable[i + 1].last
        /\ \A j \in 1 .. i : j \in 1 .. n /\ lruTable[j].last <= lruTable[i + 1].last
    BY <1>1, <2>1, <2>2, LruFacts
  <2>4. Found(i + 1, Turn(i + 1, c))
    <3>1. CASE c.stop
      <4>1. Turn(i + 1, c) = c
        BY <3>1 DEF Turn
      <4>2. PICK m \in 1 .. i : lruTable[c.best].last < lruTable[m].last
        BY <2>1, <3>1
      <4>3. NotAfter(c.best, i + 1)
        BY <2>1, <2>2, <2>3, <4>2 DEF NotAfter
      <4>4. m \in 1 .. i + 1
        OBVIOUS
      <4> QED
        BY <2>1, <2>2, <4>1, <4>2, <4>3, <4>4
    <3>2. CASE ~ c.stop /\ lruTable[c.best].last < lruTable[i + 1].last
      <4>1. Turn(i + 1, c) = [best |-> c.best, stop |-> TRUE]
        BY <2>1, <3>2 DEF Turn, ScanStates
      <4>2. NotAfter(c.best, i + 1)
        BY <3>2 DEF NotAfter
      <4>3. i + 1 \in 1 .. i + 1
        OBVIOUS
      <4>4. \A j \in 1 .. i + 1 : NotAfter(c.best, j)
        BY <2>1, <2>2, <4>2
      <4>5. c.best <= i + 1 /\ [best |-> c.best, stop |-> TRUE] \in ScanStates
        BY <2>1 DEF ScanStates
      <4>6. Found(i + 1, [best |-> c.best, stop |-> TRUE])
        BY <3>2, <4>3, <4>4, <4>5
      <4> HIDE DEF Found
      <4> QED
        BY <4>1, <4>6
    <3>3. CASE /\ ~ c.stop /\ ~ (lruTable[c.best].last < lruTable[i + 1].last)
               /\ lruTable[c.best].depth < lruTable[i + 1].depth
      <4>1. Turn(i + 1, c) = [best |-> i + 1, stop |-> FALSE]
        BY <2>1, <3>3 DEF Turn, ScanStates
      <4>2. lruTable[c.best].last = lruTable[i + 1].last
        BY <2>1, <2>2, <2>3, <3>3
      <4>3. ASSUME NEW j \in 1 .. i PROVE NotAfter(i + 1, j)
        <5>1. NotAfter(c.best, j) /\ j \in 1 .. n
          BY <2>1, <2>3
        <5> QED
          BY <2>1, <2>2, <2>3, <3>3, <4>2, <5>1 DEF NotAfter
      <4>4. NotAfter(i + 1, i + 1)
        BY <2>2, <2>3 DEF NotAfter
      <4>5. \A j \in 1 .. i + 1 : NotAfter(i + 1, j)
        BY <2>2, <4>3, <4>4
      <4>6. Found(i + 1, [best |-> i + 1, stop |-> FALSE])
        BY <2>2, <4>5 DEF ScanStates
      <4> HIDE DEF Found
      <4> QED
        BY <4>1, <4>6
    <3>4. CASE /\ ~ c.stop /\ ~ (lruTable[c.best].last < lruTable[i + 1].last)
               /\ ~ (lruTable[c.best].depth < lruTable[i + 1].depth)
      <4>1. Turn(i + 1, c) = c
        BY <3>4 DEF Turn
      <4>2. NotAfter(c.best, i + 1)
        BY <2>1, <2>2, <2>3, <3>4 DEF NotAfter
      <4>3. \A j \in 1 .. i + 1 : NotAfter(c.best, j)
        BY <2>1, <2>2, <4>2
      <4>4. c.best <= i + 1
        BY <2>1
      <4> QED
        BY <2>1, <3>4, <4>1, <4>3, <4>4
    <3> QED
      BY <3>1, <3>2, <3>3, <3>4
  <2> HIDE DEF Found
  <2> QED
    BY <2>2, <2>4
<1>5. \A i \in 1 .. n : i \in T
  <2>1. T \in SUBSET (1 .. n)
    OBVIOUS
  <2> HIDE DEF T, n
  <2> QED
    BY <1>1, <1>3, <1>4, <2>1, IntervalInduction
<1>6. n \in 1 .. n
  BY <1>1
<1>7. Found(n, Lru!Scan[n])
  BY <1>5, <1>6
<1> QED
  BY <1>7 DEF ScanStates

\* OrderedDict.pop
LEMMA WithoutEntryFacts ==
  ASSUME LruInv, NEW k \in 1 .. Len(lruTable)
  PROVE  /\ Lru!WithoutEntry(k) \in Seq(Entry)
         /\ Len(Lru!WithoutEntry(k)) = Len(lruTable) - 1
         /\ DOMAIN Lru!WithoutEntry(k) = 1 .. Len(lruTable) - 1
         /\ \A j \in 1 .. Len(lruTable) - 1 :
              Lru!WithoutEntry(k)[j] = IF j < k THEN lruTable[j] ELSE lruTable[j + 1]
         /\ \A i \in 1 .. Len(lruTable) : i # k =>
              \E j \in 1 .. Len(lruTable) - 1 : Lru!WithoutEntry(k)[j] = lruTable[i]
<1> DEFINE n == Len(lruTable)
           q == Lru!WithoutEntry(k)
<1>1. n \in Nat /\ k \in Nat /\ n - 1 \in Nat
  BY LruFacts
<1>2. q = [j \in 1 .. n - 1 |-> IF j < k THEN lruTable[j] ELSE lruTable[j + 1]]
  BY DEF Lru!WithoutEntry
<1>3. \A j \in 1 .. n - 1 : q[j] = IF j < k THEN lruTable[j] ELSE lruTable[j + 1]
  BY <1>2
<1>4. ASSUME NEW j \in 1 .. n - 1 PROVE q[j] \in Entry
  <2>1. j \in 1 .. n /\ j + 1 \in 1 .. n
    BY <1>1
  <2> QED
    BY <1>3, <2>1, LruFacts
<1>5. q \in [1 .. n - 1 -> Entry]
  BY <1>2, <1>4
<1> HIDE DEF q
<1>6. q \in Seq(Entry) /\ Len(q) = n - 1 /\ DOMAIN q = 1 .. n - 1
  BY <1>1, <1>5
<1>7. ASSUME NEW i \in 1 .. n, i # k PROVE \E j \in 1 .. n - 1 : q[j] = lruTable[i]
  <2>1. CASE i < k
    <3>1. i \in 1 .. n - 1
      BY <1>1, <2>1
    <3> QED
      BY <1>3, <2>1, <3>1
  <2>2. CASE i > k
    <3>1. i - 1 \in 1 .. n - 1 /\ ~ (i - 1 < k) /\ i - 1 + 1 = i
      BY <1>1, <2>2
    <3> QED
      BY <1>3, <3>1
  <2> QED
    BY <1>1, <1>7, <2>1, <2>2
<1> QED
  BY <1>3, <1>6, <1>7 DEF q

LEMMA WithoutEntryLruInv ==
  ASSUME LruInv, NEW k \in 1 .. Len(lruTable), lruTable' = Lru!WithoutEntry(k),
         UNCHANGED <<stamp, lruClock, freeing>>, lruVictim' \in (Blocks \X Hashes) \cup {None}
  PROVE  LruInv'
<1> DEFINE n == Len(lruTable)
<1>1. /\ lruTable' \in Seq(Entry) /\ Len(lruTable') = n - 1 /\ DOMAIN lruTable' = 1 .. n - 1
      /\ \A j \in 1 .. n - 1 : lruTable'[j] = IF j < k THEN lruTable[j] ELSE lruTable[j + 1]
  BY WithoutEntryFacts
<1>2. n \in Nat /\ \A j \in 1 .. n - 1 : j \in 1 .. n /\ j + 1 \in 1 .. n
  BY LruFacts
<1>3. \A i \in 1 .. n : lruTable[i].last \in Nat
  BY LruFacts
<1>4. Lru!TypeOK'
  BY <1>1 DEF LruInv, Lru!TypeOK, Entry
<1>5. Chunked => Lru!StampsInInsertionOrder'
  <2> SUFFICES ASSUME Chunked, NEW i \in 1 .. n - 1, NEW j \in 1 .. n - 1, i < j
               PROVE  lruTable'[i].last <= lruTable'[j].last
    BY <1>1 DEF Lru!StampsInInsertionOrder
  <2> DEFINE a == IF i < k THEN i ELSE i + 1
             b == IF j < k THEN j ELSE j + 1
  <2>1. a \in 1 .. n /\ b \in 1 .. n /\ lruTable'[i] = lruTable[a] /\ lruTable'[j] = lruTable[b]
    BY <1>1, <1>2
  <2>2. a < b
    BY <1>2
  <2> HIDE DEF a, b
  <2> QED
    BY <2>1, <2>2, LruFacts
<1>6. Chunked => LruOrder'
  BY <1>1, <1>2, <1>5 DEF LruInv, LruOrder
<1>7. ASSUME NEW i \in 1 .. n - 1, NEW j \in 1 .. n - 1, lruTable'[i].id = lruTable'[j].id
      PROVE  i = j
  <2> DEFINE a == IF i < k THEN i ELSE i + 1
             b == IF j < k THEN j ELSE j + 1
  <2>1. a \in 1 .. n /\ b \in 1 .. n /\ lruTable'[i] = lruTable[a] /\ lruTable'[j] = lruTable[b]
    BY <1>1, <1>2
  <2>2. a = b
    BY <1>7, <2>1 DEF LruInv
  <2> QED
    BY <2>2, <1>2
<1> QED
  BY <1>1, <1>4, <1>6, <1>7 DEF LruInv

-----------------------------------------------------------------------------
\* Each operation keeps the order; chunked prefill stamps all running sequences.
LEMMA ScheduleLruInv ==
  ASSUME LruInv, NEW A \in SUBSET Seqs, Lru!Schedule(A)
  PROVE  LruInv'
<1> USE DEF Lru!Schedule, Lru!Batch, Lru!Running
<1>1. lruClock \in Nat /\ lruClock' = lruClock + 1 /\ lruClock' \in 1 .. MaxClock /\ UNCHANGED <<lruTable, freeing>>
  BY EvictorAssumption DEF LruInv, Lru!TypeOK
<1>2. Chunked => \A s \in Seqs : stamp'[s] = IF stamp[s] # None \/ s \in A THEN lruClock' ELSE None
  OBVIOUS
<1>3. Lru!TypeOK'
  BY <1>1 DEF LruInv, Lru!TypeOK
<1>4. Chunked => \A i \in 1 .. Len(lruTable) : lruTable[i].last <= lruClock'
  BY <1>1, LruFacts DEF LruInv, LruOrder
<1>5. Chunked => LruOrder'
  BY <1>1, <1>2, <1>4 DEF LruInv, LruOrder, Lru!StampsInInsertionOrder
<1> QED
  BY <1>1, <1>3, <1>5 DEF LruInv

LEMMA AddLruInv ==
  ASSUME LruInv, NEW s \in Seqs, NEW b \in Blocks, NEW h \in Hashes, NEW d \in Depths,
         Lru!Add(s, b, h, d)
  PROVE  LruInv'
<1> USE DEF Lru!Add
<1> DEFINE e == [id |-> b, hash |-> h, depth |-> d, last |-> stamp[s]]
           n == Len(lruTable)
<1>1. e \in Entry /\ (Chunked => stamp[s] = lruClock /\ e.last = lruClock) /\ lruClock \in Nat
  BY DEF LruInv, LruOrder, Lru!TypeOK, Entry
<1>2. /\ lruTable' \in Seq(Entry) /\ Len(lruTable') = n + 1 /\ n \in Nat
      /\ \A i \in 1 .. n : lruTable'[i] = lruTable[i]
      /\ lruTable'[n + 1] = e /\ DOMAIN lruTable' = 1 .. n + 1
  BY <1>1, LruFacts, AppendProperties, LenProperties
<1>3. \A i \in 1 .. n + 1 : i \in 1 .. n \/ i = n + 1
  BY <1>2
<1>4. \A i \in 1 .. n : lruTable[i].last \in Nat /\ lruTable[i].id # b
  BY LruFacts DEF Lru!Held
<1> HIDE DEF e
<1>5. Lru!TypeOK'
  BY <1>2 DEF LruInv, Lru!TypeOK, Entry
<1>6. ASSUME Chunked PROVE LruOrder'
  <2>1. \A i \in 1 .. n : lruTable[i].last <= lruClock
    BY <1>6 DEF LruInv, LruOrder
  <2>2. Lru!StampsInInsertionOrder'
    <3> SUFFICES ASSUME NEW i \in 1 .. n + 1, NEW j \in 1 .. n + 1, i < j
                 PROVE  lruTable'[i].last <= lruTable'[j].last
      BY <1>2 DEF Lru!StampsInInsertionOrder
    <3>1. i \in 1 .. n
      BY <1>2
    <3> QED
      BY <1>1, <1>2, <1>3, <1>4, <1>6, <2>1, <3>1, LruFacts
  <2>3. \A i \in 1 .. Len(lruTable') : lruTable'[i].last <= lruClock'
    BY <1>1, <1>2, <1>3, <1>4, <1>6, <2>1
  <2> QED
    BY <1>6, <2>2, <2>3 DEF LruInv, LruOrder
<1>7. ASSUME NEW i \in 1 .. n + 1, NEW j \in 1 .. n + 1, lruTable'[i].id = lruTable'[j].id
      PROVE  i = j
  BY <1>2, <1>3, <1>4, <1>7 DEF LruInv, e
<1> QED
  BY <1>2, <1>5, <1>6, <1>7 DEF LruInv

LEMMA OtherLruInv ==
  ASSUME LruInv,
         \/ \E s \in Seqs : Lru!EndFree(s)
         \/ \E b \in Blocks : Lru!Remove(b)
         \/ Lru!Evict
  PROVE  LruInv'
<1>1. ASSUME NEW s \in Seqs, Lru!EndFree(s) PROVE LruInv'
  <2>1. Lru!TypeOK' /\ UNCHANGED <<lruTable, lruClock>>
    BY <1>1 DEF LruInv, Lru!TypeOK, Lru!EndFree
  <2> QED
    BY <1>1, <2>1 DEF LruInv, LruOrder, Lru!TypeOK, Lru!EndFree, Lru!StampsInInsertionOrder
<1>2. ASSUME NEW b \in Blocks, Lru!Remove(b) PROVE LruInv'
  <2>1. PICK k \in 1 .. Len(lruTable) : lruTable' = Lru!WithoutEntry(k)
    BY <1>2, LruFacts DEF Lru!Remove
  <2> QED
    BY <1>2, <2>1, WithoutEntryLruInv DEF Lru!Remove
<1>3. CASE Lru!Evict
  <2> DEFINE k == Lru!Scan[Len(lruTable)].best
  <2>1. k \in 1 .. Len(lruTable)
    BY <1>3, LruFacts, ScanInRange DEF Lru!Evict
  <2>2. lruTable' = Lru!WithoutEntry(k) /\ lruVictim' = <<lruTable[k].id, lruTable[k].hash>>
        /\ UNCHANGED <<stamp, lruClock, freeing>>
    BY <1>3 DEF Lru!Evict
  <2> HIDE DEF k
  <2>3. lruVictim' \in Blocks \X Hashes
    BY <2>1, <2>2, LruFacts
  <2> QED
    BY <2>1, <2>2, <2>3, WithoutEntryLruInv
<1> QED
  BY <1>1, <1>2, <1>3

LEMMA NextLruInv ==
  ASSUME LruInv, Lru!Next \/ UNCHANGED lruVars
  PROVE  LruInv'
<1>1. CASE UNCHANGED lruVars
  BY <1>1 DEF LruInv, LruOrder, lruVars, Lru!TypeOK, Lru!StampsInInsertionOrder
<1>2. CASE Lru!Next
  BY <1>2, ScheduleLruInv, AddLruInv, OtherLruInv DEF Lru!Next
<1> QED
  BY <1>1, <1>2

-----------------------------------------------------------------------------
(* FrequencyAwareEvictor *)

Keys == (0 .. MaxPushes) \X (0 .. HeapClock) \X {-n : n \in Depths} \X HeapBlocks \X (1 .. MaxPushes)
Meta == [hash : Hashes, depth : Depths, last : 0 .. HeapClock]

\* What HeapCoversTable says of one block: e is the only entry of its generation.
Covers(hp, freq, tab, gens, b, e) ==
  /\ e \in hp /\ e[4] = b /\ e[5] = gens[b]
  /\ e[1] <= freq[tab[b].hash]
  /\ e[2] = tab[b].last /\ e[3] = -tab[b].depth
  /\ \A f \in hp : f[4] = b /\ f[5] = gens[b] => f = e

LEMMA HeapFacts ==
  ASSUME HeapInv
  PROVE  /\ table \in [HeapBlocks -> Meta \cup {None}] /\ frequency \in [Hashes -> 0 .. MaxPushes]
         /\ heap \subseteq Keys
         /\ generations \in [HeapBlocks -> 0 .. MaxPushes]
         /\ nextGeneration \in 0 .. MaxPushes /\ clock \in 0 .. HeapClock
         /\ \A b \in HeapBlocks : table[b] # None =>
              table[b] \in Meta /\ \E e \in heap : Covers(heap, frequency, table, generations, b, e)
         /\ None \notin Meta /\ Frequency!Held \subseteq HeapBlocks
BY HeapAssumption DEF HeapInv, Frequency!TypeOK, Frequency!Metadata, Frequency!HeapCoversTable,
   Frequency!Held, Covers, Keys, Meta

\* The components of a key.
LEMMA KeyFacts ==
  ASSUME NEW freq \in [Hashes -> 0 .. MaxPushes], NEW b \in HeapBlocks, NEW m \in Meta,
         NEW g \in 1 .. MaxPushes
  PROVE  LET k == Frequency!HeapKey(freq, b, m, g)
         IN  /\ k \in Keys /\ k[1] = freq[m.hash] /\ k[2] = m.last /\ k[3] = -m.depth
             /\ k[4] = b /\ k[5] = g
BY DEF Frequency!HeapKey, Keys, Meta

LEMMA SameCardinality == \A S : Frequency!Cardinality(S) = Cardinality(S)
BY DEF Frequency!Cardinality, Cardinality

\* _compact_if_needed keeps every current entry or makes new ones.
LEMMA CompactedFacts ==
  ASSUME NEW hp \in SUBSET Keys, IsFiniteSet(hp),
         NEW freq \in [Hashes -> 0 .. MaxPushes], NEW tab \in [HeapBlocks -> Meta \cup {None}],
         NEW gens \in [HeapBlocks -> 0 .. MaxPushes], NEW top,
         \A e \in hp : e[5] <= top,
         \A b \in HeapBlocks : tab[b] # None =>
           gens[b] \in 1 .. MaxPushes /\ gens[b] <= top /\ \E e \in hp : Covers(hp, freq, tab, gens, b, e),
         IsFiniteSet({b \in HeapBlocks : tab[b] # None})
  PROVE  LET held == {b \in HeapBlocks : tab[b] # None}
             new  == Frequency!Compacted(hp, freq, tab, gens)
         IN  /\ new \subseteq Keys /\ IsFiniteSet(new)
             /\ Cardinality(new) <= 2 * Cardinality(held) + 1
             /\ \A e \in new : e[5] <= top
             /\ \A b \in held : \E e \in new : Covers(new, freq, tab, gens, b, e)
<1> DEFINE held == {b \in HeapBlocks : tab[b] # None}
           new  == Frequency!Compacted(hp, freq, tab, gens)
           Key(b) == Frequency!HeapKey(freq, b, tab[b], gens[b])
           fresh == {Key(b) : b \in held}
<1>1. new = IF Cardinality(hp) <= 2 * Cardinality(held) + 1 THEN hp ELSE fresh
  BY SameCardinality DEF Frequency!Compacted, Frequency!CompactionFactor, Frequency!CompactionSlack
<1>2. CASE Cardinality(hp) <= 2 * Cardinality(held) + 1
  BY <1>1, <1>2
<1>3. CASE ~ (Cardinality(hp) <= 2 * Cardinality(held) + 1)
  <2>1. ASSUME NEW b \in held
        PROVE  /\ Key(b) \in Keys /\ Key(b)[1] = freq[tab[b].hash] /\ Key(b)[2] = tab[b].last
               /\ Key(b)[3] = -tab[b].depth /\ Key(b)[4] = b /\ Key(b)[5] = gens[b]
               /\ gens[b] <= top /\ freq[tab[b].hash] \in Nat
    <3>1. b \in HeapBlocks /\ tab[b] \in Meta /\ gens[b] \in 1 .. MaxPushes /\ gens[b] <= top
      OBVIOUS
    <3>2. freq[tab[b].hash] \in Nat
      BY <3>1 DEF Meta
    <3> QED
      BY <3>1, <3>2, KeyFacts
  <2> HIDE DEF Key
  <2>2. fresh \subseteq Keys /\ \A e \in fresh : e[5] <= top
    BY <2>1
  <2>3. IsFiniteSet(fresh) /\ Cardinality(fresh) <= Cardinality(held)
    <3> DEFINE f == [b \in held |-> Key(b)]
    <3>1. f \in Surjection(held, fresh)
      BY DEF Surjection
    <3>2. IsFiniteSet(held)
      OBVIOUS
    <3> HIDE DEF f, held, fresh
    <3> QED
      BY <3>1, <3>2, FS_Surjection
  <2>4. Cardinality(held) \in Nat /\ Cardinality(fresh) \in Nat
    BY <2>3, FS_CardinalityType
  <2>5. Cardinality(fresh) <= 2 * Cardinality(held) + 1
    BY <2>3, <2>4
  <2>6. ASSUME NEW b \in held PROVE Covers(fresh, freq, tab, gens, b, Key(b))
    <3>1. \A f \in fresh : f[4] = b => f = Key(b)
      BY <2>1
    <3>2. Key(b) \in fresh /\ Key(b)[1] <= freq[tab[b].hash]
      BY <2>1
    <3> QED
      BY <2>1, <3>1, <3>2 DEF Covers
  <2>7. \A b \in held : \E e \in fresh : Covers(fresh, freq, tab, gens, b, e)
    BY <2>6
  <2> QED
    BY <1>1, <1>3, <2>2, <2>3, <2>5, <2>7
<1> QED
  BY <1>2, <1>3

-----------------------------------------------------------------------------
LEMMA CurrentGenerations ==
  ASSUME HeapInv, NEW b \in HeapBlocks, table[b] # None
  PROVE  generations[b] \in 1 .. MaxPushes /\ generations[b] <= nextGeneration
<1>1. PICK e \in heap : Covers(heap, frequency, table, generations, b, e)
  BY HeapFacts
<1>2. e \in Keys /\ e[5] \in 1 .. MaxPushes
  BY HeapFacts DEF Keys
<1> QED
  BY <1>1, <1>2 DEF Covers, HeapInv

\* The conjuncts of HeapInv', gathered.
LEMMA HeapInvPrimed ==
  ASSUME table' \in [HeapBlocks -> Meta \cup {None}], frequency' \in [Hashes -> 0 .. MaxPushes],
         heap' \subseteq Keys, generations' \in [HeapBlocks -> 0 .. MaxPushes],
         nextGeneration' \in 0 .. MaxPushes, clock' \in 0 .. HeapClock, evicting' \in BOOLEAN,
         victim' \in (HeapBlocks \X Hashes) \cup {None},
         \A b \in HeapBlocks : table'[b] # None =>
           \E e \in heap' : Covers(heap', frequency', table', generations', b, e),
         IsFiniteSet(heap'), IsFiniteSet({b \in HeapBlocks : table'[b] # None}),
         ~ evicting' =>
           Cardinality(heap') <= 2 * Cardinality({b \in HeapBlocks : table'[b] # None}) + 1,
         \A e \in heap' : e[5] <= nextGeneration',
         \A h \in Hashes : frequency'[h] <= nextGeneration'
  PROVE  HeapInv'
<1>1. Frequency!TypeOK'
  BY DEF Frequency!TypeOK, Frequency!Metadata, Keys, Meta
<1>2. Frequency!HeapCoversTable'
  BY DEF Frequency!HeapCoversTable, Frequency!Held, Covers
<1>3. Frequency!HeapBounded'
  BY SameCardinality DEF Frequency!HeapBounded, Frequency!Held
<1> QED
  BY <1>1, <1>2, <1>3 DEF HeapInv, Frequency!Held

LEMMA PushHeapInv ==
  ASSUME HeapInv, NEW b \in HeapBlocks, NEW m \in Meta, NEW freq,
         freq \in [Hashes -> Nat],
         \A h \in Hashes : frequency[h] <= freq[h] /\ freq[h] <= nextGeneration + 1,
         Frequency!Push(b, m, freq), victim' = None, ~ evicting
  PROVE  HeapInv'
<1> DEFINE g == nextGeneration + 1
           key == Frequency!HeapKey(freq, b, m, g)
           hp == heap \cup {key}
<1>1. /\ nextGeneration < MaxPushes /\ nextGeneration' = g /\ frequency' = freq
      /\ table' = [table EXCEPT ![b] = m] /\ generations' = [generations EXCEPT ![b] = g]
      /\ heap' = Frequency!Compacted(hp, freq, table', generations')
      /\ UNCHANGED <<clock, evicting>>
  BY DEF Frequency!Push
<1>2. g \in 1 .. MaxPushes /\ nextGeneration \in Nat /\ g \in 0 .. MaxPushes /\ MaxPushes \in Nat
  BY <1>1, HeapFacts, EvictorAssumption
<1>3. /\ table' \in [HeapBlocks -> Meta \cup {None}] /\ freq \in [Hashes -> 0 .. MaxPushes]
      /\ generations' \in [HeapBlocks -> 0 .. MaxPushes]
  <2>1. \A h \in Hashes : freq[h] \in 0 .. MaxPushes
    BY <1>1, <1>2
  <2> QED
    BY <1>1, <1>2, <2>1, HeapFacts
<1>4. /\ key \in Keys /\ key[1] = freq[m.hash] /\ key[2] = m.last /\ key[3] = -m.depth
      /\ key[4] = b /\ key[5] = g /\ freq[m.hash] \in Nat
  <2>1. m.hash \in Hashes
    BY DEF Meta
  <2> QED
    BY <1>2, <1>3, <2>1, KeyFacts
<1> HIDE DEF key, g
<1>5. hp \in SUBSET Keys /\ IsFiniteSet(hp) /\ \A e \in hp : e[5] <= g
  <2>1. IsFiniteSet(hp)
    BY FS_AddElement DEF HeapInv
  <2>2. \A e \in heap : e[5] \in Nat /\ e[5] <= nextGeneration
    BY HeapFacts DEF HeapInv, Keys
  <2>3. \A e \in hp : e[5] <= g
    BY <1>2, <1>4, <2>2 DEF g
  <2> QED
    BY <1>4, <2>1, <2>3, HeapFacts
<1>6. ASSUME NEW c \in HeapBlocks, table'[c] # None
      PROVE  /\ generations'[c] \in 1 .. MaxPushes /\ generations'[c] <= g
             /\ \E e \in hp : Covers(hp, freq, table', generations', c, e)
  <2>1. CASE c = b
    <3>1. generations'[c] = g /\ table'[c] = m
      BY <1>1, <2>1, HeapFacts
    <3>2. \A e \in heap : e[5] # g
      BY <1>2, HeapFacts DEF HeapInv, g, Keys
    <3>3. Covers(hp, freq, table', generations', c, key)
      BY <1>4, <2>1, <3>1, <3>2 DEF Covers
    <3> QED
      BY <1>2, <3>1, <3>3
  <2>2. CASE c # b
    <3>1. generations'[c] = generations[c] /\ table'[c] = table[c] /\ table[c] # None /\ table[c] \in Meta
      BY <1>1, <1>6, <2>2, HeapFacts
    <3>2. generations[c] \in 1 .. MaxPushes /\ generations[c] <= nextGeneration
      BY <3>1, CurrentGenerations
    <3>3. PICK e \in heap : Covers(heap, frequency, table, generations, c, e)
      BY <3>1, HeapFacts
    <3>4. e[1] \in Nat /\ table[c].hash \in Hashes /\ frequency[table[c].hash] \in Nat
      BY <3>1, HeapFacts DEF Keys, Meta
    <3>5. e[1] <= freq[table[c].hash]
      <4>1. e[1] <= frequency[table[c].hash]
        BY <3>3 DEF Covers
      <4> QED
        BY <3>4, <4>1
    <3>6. Covers(hp, freq, table', generations', c, e)
      BY <1>4, <2>2, <3>1, <3>3, <3>5 DEF Covers
    <3> QED
      BY <1>2, <3>1, <3>2, <3>6 DEF g
  <2> QED
    BY <2>1, <2>2
<1>7. IsFiniteSet({c \in HeapBlocks : table'[c] # None})
  <2>1. {c \in HeapBlocks : table'[c] # None} \subseteq Frequency!Held \cup {b}
    BY <1>1, HeapFacts DEF Frequency!Held
  <2>2. IsFiniteSet(Frequency!Held \cup {b})
    BY FS_AddElement DEF HeapInv
  <2> QED
    BY <2>1, <2>2, FS_Subset
<1>8. /\ heap' \subseteq Keys /\ IsFiniteSet(heap')
      /\ Cardinality(heap') <= 2 * Cardinality({c \in HeapBlocks : table'[c] # None}) + 1
      /\ \A e \in heap' : e[5] <= g
      /\ \A c \in HeapBlocks : table'[c] # None =>
           \E e \in heap' : Covers(heap', freq, table', generations', c, e)
  <2> DEFINE tab == table'
             gens == generations'
             held == {c \in HeapBlocks : tab[c] # None}
             new == Frequency!Compacted(hp, freq, tab, gens)
  <2>1. /\ hp \in SUBSET Keys /\ IsFiniteSet(hp) /\ \A e \in hp : e[5] <= g
        /\ freq \in [Hashes -> 0 .. MaxPushes] /\ tab \in [HeapBlocks -> Meta \cup {None}]
        /\ gens \in [HeapBlocks -> 0 .. MaxPushes]
    BY <1>3, <1>5
  <2>2. \A c \in HeapBlocks : tab[c] # None =>
          gens[c] \in 1 .. MaxPushes /\ gens[c] <= g /\ \E e \in hp : Covers(hp, freq, tab, gens, c, e)
    BY <1>6
  <2>3. IsFiniteSet({c \in HeapBlocks : tab[c] # None})
    BY <1>7
  <2>4. heap' = new
    BY <1>1
  <2> HIDE DEF tab, gens, hp
  <2>5. /\ new \subseteq Keys /\ IsFiniteSet(new)
        /\ Cardinality(new) <= 2 * Cardinality(held) + 1
        /\ \A e \in new : e[5] <= g
        /\ \A c \in held : \E e \in new : Covers(new, freq, tab, gens, c, e)
    BY <2>1, <2>2, <2>3, CompactedFacts
  <2> QED
    BY <2>4, <2>5 DEF tab, gens
<1>9. clock' \in 0 .. HeapClock /\ evicting' \in BOOLEAN
  BY <1>1, HeapFacts DEF HeapInv, Frequency!TypeOK
<1>10. nextGeneration' \in 0 .. MaxPushes /\ \A h \in Hashes : frequency'[h] <= nextGeneration'
  BY <1>1, <1>2 DEF g
<1> QED
  BY <1>1, <1>3, <1>7, <1>8, <1>9, <1>10, HeapInvPrimed

\* Block b leaves the table: remove(), and the end of evict().
LEMMA DropHeapInv ==
  ASSUME HeapInv, NEW b \in HeapBlocks, NEW hp \in SUBSET heap,
         \A e \in heap : e[4] # b => e \in hp,
         table' = [table EXCEPT ![b] = None], generations' = [generations EXCEPT ![b] = 0],
         heap' = Frequency!Compacted(hp, frequency, table', generations'),
         UNCHANGED <<frequency, nextGeneration, clock>>, evicting' \in BOOLEAN,
         victim' \in (HeapBlocks \X Hashes) \cup {None}
  PROVE  HeapInv'
<1>1. /\ table' \in [HeapBlocks -> Meta \cup {None}]
      /\ generations' \in [HeapBlocks -> 0 .. MaxPushes]
  <2>1. 0 \in 0 .. MaxPushes
    BY EvictorAssumption
  <2> QED
    BY <2>1, HeapFacts
<1>2. hp \in SUBSET Keys /\ IsFiniteSet(hp) /\ \A e \in hp : e[5] <= nextGeneration
  BY HeapFacts, FS_Subset DEF HeapInv
<1>3. ASSUME NEW c \in HeapBlocks, table'[c] # None
      PROVE  /\ generations'[c] \in 1 .. MaxPushes /\ generations'[c] <= nextGeneration
             /\ \E e \in hp : Covers(hp, frequency, table', generations', c, e)
  <2>1. c # b /\ generations'[c] = generations[c] /\ table'[c] = table[c] /\ table[c] # None
    BY <1>3, HeapFacts
  <2>2. generations[c] \in 1 .. MaxPushes /\ generations[c] <= nextGeneration
    BY <2>1, CurrentGenerations
  <2>3. PICK e \in heap : Covers(heap, frequency, table, generations, c, e)
    BY <2>1, HeapFacts
  <2>4. Covers(hp, frequency, table', generations', c, e)
    BY <2>1, <2>3 DEF Covers
  <2> QED
    BY <2>1, <2>2, <2>4 DEF Covers
<1>4. IsFiniteSet({c \in HeapBlocks : table'[c] # None})
  <2>1. {c \in HeapBlocks : table'[c] # None} \subseteq Frequency!Held
    BY HeapFacts DEF Frequency!Held
  <2> QED
    BY <2>1, FS_Subset DEF HeapInv
<1>5. /\ heap' \subseteq Keys /\ IsFiniteSet(heap')
      /\ Cardinality(heap') <= 2 * Cardinality({c \in HeapBlocks : table'[c] # None}) + 1
      /\ \A e \in heap' : e[5] <= nextGeneration
      /\ \A c \in HeapBlocks : table'[c] # None =>
           \E e \in heap' : Covers(heap', frequency, table', generations', c, e)
  <2> DEFINE tab == table'
             gens == generations'
             held == {c \in HeapBlocks : tab[c] # None}
             new == Frequency!Compacted(hp, frequency, tab, gens)
  <2>1. /\ hp \in SUBSET Keys /\ IsFiniteSet(hp) /\ \A e \in hp : e[5] <= nextGeneration
        /\ frequency \in [Hashes -> 0 .. MaxPushes] /\ tab \in [HeapBlocks -> Meta \cup {None}]
        /\ gens \in [HeapBlocks -> 0 .. MaxPushes]
    BY <1>1, <1>2, HeapFacts
  <2>2. \A c \in HeapBlocks : tab[c] # None =>
          gens[c] \in 1 .. MaxPushes /\ gens[c] <= nextGeneration /\ \E e \in hp : Covers(hp, frequency, tab, gens, c, e)
    BY <1>3
  <2>3. IsFiniteSet({c \in HeapBlocks : tab[c] # None})
    BY <1>4
  <2>4. heap' = new
    OBVIOUS
  <2> HIDE DEF tab, gens
  <2>5. /\ new \subseteq Keys /\ IsFiniteSet(new)
        /\ Cardinality(new) <= 2 * Cardinality(held) + 1
        /\ \A e \in new : e[5] <= nextGeneration
        /\ \A c \in held : \E e \in new : Covers(new, frequency, tab, gens, c, e)
    BY <2>1, <2>2, <2>3, CompactedFacts
  <2> QED
    BY <2>4, <2>5 DEF tab, gens
<1>6. /\ frequency' \in [Hashes -> 0 .. MaxPushes] /\ nextGeneration' \in 0 .. MaxPushes
      /\ clock' \in 0 .. HeapClock /\ \A h \in Hashes : frequency'[h] <= nextGeneration'
  BY HeapFacts DEF HeapInv
<1> QED
  BY <1>1, <1>4, <1>5, <1>6, HeapInvPrimed

-----------------------------------------------------------------------------
LEMMA AddHeapInv ==
  ASSUME HeapInv, NEW b \in HeapBlocks, NEW h \in Hashes, NEW d \in Depths, Frequency!Add(b, h, d)
  PROVE  HeapInv'
<1> DEFINE freq == [frequency EXCEPT ![h] = @ + 1]
           m == [hash |-> h, depth |-> d, last |-> clock]
<1>1. m \in Meta
  BY HeapFacts DEF Meta
<1>2. \A x \in Hashes : frequency[x] \in Nat /\ frequency[x] <= nextGeneration
  BY HeapFacts DEF HeapInv
<1>3. nextGeneration \in Nat
  BY HeapFacts
<1>4. freq \in [Hashes -> Nat] /\ \A x \in Hashes : frequency[x] <= freq[x] /\ freq[x] <= nextGeneration + 1
  BY <1>2, <1>3, HeapFacts
<1>5. Frequency!Push(b, m, freq) /\ victim' = None /\ ~ evicting
  BY DEF Frequency!Add
<1> HIDE DEF freq, m
<1> QED
  BY <1>1, <1>4, <1>5, PushHeapInv

LEMMA UpdateHeapInv ==
  ASSUME HeapInv, NEW b \in HeapBlocks, Frequency!Update(b)
  PROVE  HeapInv'
<1> DEFINE m == [table[b] EXCEPT !.last = clock]
<1>1. m \in Meta
  <2>1. table[b] \in Meta /\ clock \in 0 .. HeapClock
    BY HeapFacts DEF Frequency!Update
  <2> QED
    BY <2>1 DEF Meta
<1>2. frequency \in [Hashes -> Nat] /\ nextGeneration \in Nat
  BY HeapFacts
<1>3. \A x \in Hashes : frequency[x] <= frequency[x] /\ frequency[x] <= nextGeneration + 1
  BY <1>2 DEF HeapInv
<1>4. Frequency!Push(b, m, frequency) /\ victim' = None /\ ~ evicting
  BY DEF Frequency!Update
<1> HIDE DEF m
<1> QED
  BY <1>1, <1>2, <1>3, <1>4, PushHeapInv

LEMMA RemoveHeapInv ==
  ASSUME HeapInv, NEW b \in HeapBlocks, Frequency!Remove(b)
  PROVE  HeapInv'
<1>1. /\ table' = [table EXCEPT ![b] = None] /\ generations' = [generations EXCEPT ![b] = 0]
      /\ heap' = Frequency!Compacted(heap, frequency, table', generations')
      /\ UNCHANGED <<frequency, nextGeneration, clock>> /\ evicting' \in BOOLEAN /\ victim' = None
  BY DEF Frequency!Remove, HeapInv, Frequency!TypeOK
<1> QED
  BY <1>1, DropHeapInv

\* The loop of evict().
LEMMA PopStaleHeapInv ==
  ASSUME HeapInv, NEW e \in heap, Frequency!PopStale(e)
  PROVE  HeapInv'
<1> USE DEF Frequency!PopStale
<1>1. IsFiniteSet(heap') /\ heap' \subseteq Keys
  BY FS_Subset, HeapFacts DEF HeapInv
<1>2. ASSUME NEW c \in HeapBlocks, table[c] # None
      PROVE  \E f \in heap' : Covers(heap', frequency, table, generations, c, f)
  <2>1. PICK f \in heap : Covers(heap, frequency, table, generations, c, f)
    BY <1>2, HeapFacts
  <2>2. f # e
    BY <1>2, <2>1 DEF Covers, Frequency!Stale
  <2> QED
    BY <2>1, <2>2 DEF Covers
<1>3. /\ UNCHANGED <<table, frequency, generations, nextGeneration, clock, victim, evicting>>
      /\ evicting' \in BOOLEAN /\ evicting' /\ victim' \in (HeapBlocks \X Hashes) \cup {None}
  BY DEF HeapInv, Frequency!TypeOK
<1>4. IsFiniteSet({b \in HeapBlocks : table[b] # None})
  BY DEF HeapInv, Frequency!Held
<1>5. (\A f \in heap' : f[5] <= nextGeneration) /\ \A h \in Hashes : frequency[h] <= nextGeneration
  BY DEF HeapInv
<1> QED
  BY <1>1, <1>2, <1>3, <1>4, <1>5, HeapFacts, HeapInvPrimed

LEMMA PopOutdatedHeapInv ==
  ASSUME HeapInv, NEW e \in heap, Frequency!PopOutdated(e)
  PROVE  HeapInv'
<1> USE DEF Frequency!PopOutdated
<1> DEFINE b == e[4]
           key == Frequency!HeapKey(frequency, b, table[b], e[5])
<1>1. e \in Keys /\ b \in HeapBlocks /\ e[5] \in 1 .. MaxPushes /\ e[5] <= nextGeneration
  BY HeapFacts DEF HeapInv, Keys
<1>2. table[b] \in Meta /\ table[b] # None /\ generations[b] = e[5]
  BY <1>1, HeapFacts DEF Frequency!Stale
<1>3. /\ key \in Keys /\ key[1] = frequency[table[b].hash] /\ key[2] = table[b].last
      /\ key[3] = -table[b].depth /\ key[4] = b /\ key[5] = e[5]
  BY <1>1, <1>2, HeapFacts, KeyFacts
<1>4. frequency[table[b].hash] \in Nat
  BY <1>2, HeapFacts DEF Meta
<1>5. heap' = (heap \ {e}) \cup {key}
  OBVIOUS
<1> HIDE DEF key
<1>6. IsFiniteSet(heap') /\ heap' \subseteq Keys
  <2>1. IsFiniteSet(heap \ {e})
    BY FS_Subset DEF HeapInv
  <2> QED
    BY <1>3, <1>5, <2>1, FS_AddElement, HeapFacts
<1>7. ASSUME NEW c \in HeapBlocks, table[c] # None
      PROVE  \E f \in heap' : Covers(heap', frequency, table, generations, c, f)
  <2>1. PICK f \in heap : Covers(heap, frequency, table, generations, c, f)
    BY <1>7, HeapFacts
  <2>2. CASE c = b
    <3>1. f = e
      BY <1>2, <2>1, <2>2 DEF Covers
    <3>2. \A x \in heap' : x[4] = b /\ x[5] = generations[b] => x = key
      BY <1>5, <2>1, <2>2, <3>1 DEF Covers
    <3>3. Covers(heap', frequency, table, generations, c, key)
      BY <1>2, <1>3, <1>4, <1>5, <2>2, <3>2 DEF Covers
    <3> QED
      BY <1>5, <3>3
  <2>3. CASE c # b
    <3>1. f # e
      BY <2>1, <2>3 DEF Covers
    <3>2. Covers(heap', frequency, table, generations, c, f)
      BY <1>3, <1>5, <2>1, <2>3, <3>1 DEF Covers
    <3> QED
      BY <1>5, <3>1, <3>2
  <2> QED
    BY <2>2, <2>3
<1>8. /\ UNCHANGED <<table, frequency, generations, nextGeneration, clock, victim, evicting>>
      /\ evicting' \in BOOLEAN /\ evicting' /\ victim' \in (HeapBlocks \X Hashes) \cup {None}
  BY DEF HeapInv, Frequency!TypeOK
<1>9. IsFiniteSet({c \in HeapBlocks : table[c] # None})
  BY DEF HeapInv, Frequency!Held
<1>10. (\A f \in heap' : f[5] <= nextGeneration) /\ \A h \in Hashes : frequency[h] <= nextGeneration
  BY <1>1, <1>3, <1>5 DEF HeapInv
<1> QED
  BY <1>6, <1>7, <1>8, <1>9, <1>10, HeapFacts, HeapInvPrimed

LEMMA PopVictimHeapInv ==
  ASSUME HeapInv, NEW e \in heap, Frequency!PopVictim(e)
  PROVE  HeapInv'
<1> DEFINE b == e[4]
           hp == heap \ {e}
<1>1. b \in HeapBlocks
  BY HeapFacts DEF Keys
<1>2. table[b] \in Meta
  BY <1>1, HeapFacts DEF Frequency!PopVictim, Frequency!Stale
<1>3. /\ table' = [table EXCEPT ![b] = None] /\ generations' = [generations EXCEPT ![b] = 0]
      /\ heap' = Frequency!Compacted(hp, frequency, table', generations')
      /\ UNCHANGED <<frequency, nextGeneration, clock>> /\ evicting' \in BOOLEAN
      /\ victim' = <<b, table[b].hash>>
  BY DEF Frequency!PopVictim
<1>4. victim' \in HeapBlocks \X Hashes
  BY <1>1, <1>2, <1>3 DEF Meta
<1>5. hp \in SUBSET heap /\ \A x \in heap : x[4] # b => x \in hp
  OBVIOUS
<1> HIDE DEF b, hp
<1> QED
  BY <1>1, <1>3, <1>4, <1>5, DropHeapInv

LEMMA NextHeapInv ==
  ASSUME HeapInv, Frequency!Next \/ UNCHANGED heapVars
  PROVE  HeapInv'
<1>1. CASE UNCHANGED heapVars
  BY <1>1 DEF HeapInv, heapVars, Frequency!TypeOK, Frequency!HeapCoversTable, Frequency!HeapBounded,
              Frequency!Held
<1>2. CASE Frequency!BeginEvict
  BY <1>2 DEF HeapInv, Frequency!BeginEvict, Frequency!TypeOK, Frequency!HeapCoversTable,
              Frequency!HeapBounded, Frequency!Held
<1>3. CASE Frequency!Tick
  <2>1. clock' \in 0 .. HeapClock
    BY <1>3, HeapFacts, HeapAssumption DEF Frequency!Tick
  <2> QED
    BY <1>3, <2>1 DEF HeapInv, Frequency!Tick, Frequency!TypeOK, Frequency!HeapCoversTable,
              Frequency!HeapBounded, Frequency!Held
<1>4. CASE Frequency!EvictLoop
  BY <1>4, PopStaleHeapInv, PopOutdatedHeapInv, PopVictimHeapInv DEF Frequency!EvictLoop
<1> QED
  BY <1>1, <1>2, <1>3, <1>4, AddHeapInv, UpdateHeapInv, RemoveHeapInv DEF Frequency!Next

-----------------------------------------------------------------------------
(* Both policies *)

LEMMA InitIInv == Init => IInv
<1> SUFFICES ASSUME Init PROVE IInv
  OBVIOUS
<1>1. Lru!TypeOK
  BY EvictorAssumption DEF Init, Lru!Init, Lru!TypeOK
<1>2. LruInv
  BY <1>1 DEF Init, Lru!Init, LruInv, LruOrder, Lru!StampsInInsertionOrder
<1>3. Frequency!TypeOK
  <2>1. 0 \in 0 .. MaxPushes /\ 0 \in 0 .. HeapClock
    BY EvictorAssumption, HeapAssumption
  <2> QED
    BY <2>1 DEF Init, Frequency!Init, Frequency!TypeOK
<1>4. Frequency!Held = {} /\ heap = {}
  BY DEF Init, Frequency!Init, Frequency!Held
<1>5. Frequency!HeapBounded
  BY <1>4, SameCardinality, FS_EmptySet DEF Frequency!HeapBounded
<1>6. HeapInv
  BY <1>3, <1>4, <1>5, FS_EmptySet DEF Init, Frequency!Init, HeapInv, Frequency!HeapCoversTable
<1> QED
  BY <1>2, <1>6 DEF IInv

LEMMA NextIInv == IInv /\ [Next]_vars => IInv'
<1> SUFFICES ASSUME IInv, [Next]_vars PROVE IInv'
  OBVIOUS
<1>1. Lru!Next \/ UNCHANGED lruVars
  BY DEF Next, vars, lruVars
<1>2. Frequency!Next \/ UNCHANGED heapVars
  BY DEF Next, vars, heapVars
<1> QED
  BY <1>1, <1>2, NextLruInv, NextHeapInv DEF IInv

LEMMA AlwaysIInv == Spec => []IInv
BY InitIInv, NextIInv, PTL DEF Spec

\* The premises of both searches hold in every reachable state: with chunked prefill,
\* which stamps every running sequence in every step, the insertion order of
\* LRUEvictor's free_table is the order of the stamps, and whatever was added, updated,
\* removed or half evicted, FrequencyAwareEvictor's heap has one current entry per
\* held block, not later than its true key, and stays within its bound.
THEOREM SearchesArePremised ==
  ASSUME Chunked PROVE Spec => []OrderMaintained
<1>1. IInv => OrderMaintained
  BY DEF IInv, LruInv, LruOrder, HeapInv, OrderMaintained
<1> QED
  BY <1>1, AlwaysIInv, PTL

-----------------------------------------------------------------------------
(* evict() returns the least block *)

LruVictimLeast ==
  lruVictim' # None =>
    \E v \in DOMAIN lruTable :
      /\ lruTable[v].id = lruVictim'[1]
      /\ \A i \in DOMAIN lruTable :
           \/ lruTable[v].last < lruTable[i].last
           \/ /\ lruTable[v].last = lruTable[i].last
              /\ lruTable[v].depth >= lruTable[i].depth

HeapVictimLeast ==
  evicting /\ ~evicting' =>
    /\ victim' # None
    /\ table[victim'[1]] # None
    /\ \A b \in Frequency!Held \ {victim'[1]} :
         Frequency!Before(Frequency!TrueKey(victim'[1]), Frequency!TrueKey(b))

LEMMA LruEvictsLeast ==
  ASSUME LruInv, Chunked, Lru!Next PROVE LruVictimLeast
<1>1. CASE Lru!Evict
  <2> DEFINE k == Lru!Scan[Len(lruTable)].best
  <2>1. k \in 1 .. Len(lruTable) /\ \A i \in 1 .. Len(lruTable) : NotAfter(k, i)
    BY <1>1, ScanLeast DEF Lru!Evict
  <2>2. lruVictim' = <<lruTable[k].id, lruTable[k].hash>>
    BY <1>1 DEF Lru!Evict
  <2> HIDE DEF k
  <2> QED
    BY <2>1, <2>2, LruFacts DEF LruVictimLeast, NotAfter
<1>2. CASE ~ Lru!Evict
  BY <1>2 DEF Lru!Next, Lru!Schedule, Lru!Add, Lru!EndFree, Lru!Remove, LruVictimLeast
<1> QED
  BY <1>1, <1>2

\* Python's order on tuples, spelt out.
LEMMA BeforeCases ==
  ASSUME NEW k, NEW l
  PROVE  Frequency!Before(k, l) <=>
           \/ k[1] < l[1]
           \/ k[1] = l[1] /\ k[2] < l[2]
           \/ k[1] = l[1] /\ k[2] = l[2] /\ k[3] < l[3]
           \/ k[1] = l[1] /\ k[2] = l[2] /\ k[3] = l[3] /\ k[4] < l[4]
           \/ k[1] = l[1] /\ k[2] = l[2] /\ k[3] = l[3] /\ k[4] = l[4] /\ k[5] < l[5]
<1>1. 1 .. 5 = {1, 2, 3, 4, 5} /\ 1 .. 1 - 1 = {} /\ 1 .. 2 - 1 = {1} /\ 1 .. 3 - 1 = {1, 2}
      /\ 1 .. 4 - 1 = {1, 2, 3} /\ 1 .. 5 - 1 = {1, 2, 3, 4}
  OBVIOUS
<1>2. Frequency!Before(k, l) <=>
        \E i \in {1, 2, 3, 4, 5} : k[i] < l[i] /\ \A j \in 1 .. i - 1 : k[j] = l[j]
  BY <1>1 DEF Frequency!Before
<1> QED
  BY <1>1, <1>2

LEMMA HeapEvictsLeast ==
  ASSUME HeapInv, Frequency!Next PROVE HeapVictimLeast
<1>1. ASSUME NEW e \in heap, Frequency!PopVictim(e) PROVE HeapVictimLeast
  <2> DEFINE v == e[4]
  <2>1. /\ Frequency!IsTop(e) /\ table[v] # None /\ generations[v] = e[5]
        /\ frequency[table[v].hash] = e[1] /\ victim' = <<v, table[v].hash>>
    BY <1>1 DEF Frequency!PopVictim, Frequency!Stale
  <2>2. e \in Keys /\ v \in HeapBlocks /\ e[5] \in Nat
    BY HeapFacts DEF Keys
  <2>3. e[1] = frequency[table[v].hash] /\ e[2] = table[v].last /\ e[3] = -table[v].depth
    <3>1. PICK f \in heap : Covers(heap, frequency, table, generations, v, f)
      BY <2>1, <2>2, HeapFacts
    <3>2. f = e
      BY <2>1, <3>1 DEF Covers
    <3> QED
      BY <2>1, <3>1, <3>2 DEF Covers
  <2>4. victim'[1] = v /\ victim' # None
    <3>1. table[v] \in Meta
      BY <2>1, <2>2, HeapFacts
    <3>2. victim' \in HeapBlocks \X Hashes
      BY <2>1, <2>2, <3>1 DEF Meta
    <3> QED
      BY <2>1, <3>2, HeapAssumption
  <2>5. ASSUME NEW b \in Frequency!Held \ {v}
        PROVE  Frequency!Before(Frequency!TrueKey(v), Frequency!TrueKey(b))
    <3>1. b \in HeapBlocks /\ table[b] # None /\ b # v
      BY DEF Frequency!Held
    <3>2. PICK f \in heap : Covers(heap, frequency, table, generations, b, f)
      BY <3>1, HeapFacts
    <3>3. f # e /\ f \in Keys
      BY <3>1, <3>2, HeapFacts DEF Covers
    <3>4. Frequency!Before(e, f)
      BY <2>1, <3>3 DEF Frequency!IsTop
    <3>5. /\ f[4] = b /\ f[1] <= frequency[table[b].hash]
          /\ f[2] = table[b].last /\ f[3] = -table[b].depth
      BY <3>2 DEF Covers
    <3>6. f[1] \in Nat /\ e[1] \in Nat /\ frequency[table[b].hash] \in Nat
      <4>1. table[b] \in Meta
        BY <3>1, HeapFacts
      <4>2. frequency[table[b].hash] \in Nat
        BY <4>1, HeapFacts DEF Meta
      <4> QED
        BY <2>2, <3>3, <4>2 DEF Keys
    <3> DEFINE x == Frequency!TrueKey(v)
               y == Frequency!TrueKey(b)
    <3>7. x[1] = e[1] /\ x[2] = e[2] /\ x[3] = e[3] /\ x[4] = e[4]
      BY <2>3 DEF Frequency!TrueKey, Frequency!HeapKey
    <3>8. y[1] = frequency[table[b].hash] /\ y[2] = f[2] /\ y[3] = f[3] /\ y[4] = f[4]
      BY <3>5 DEF Frequency!TrueKey, Frequency!HeapKey
    <3> HIDE DEF x, y
    <3>9. e[4] # f[4]
      BY <3>1, <3>5
    <3>10. Frequency!Before(x, y)
      BY <3>4, <3>5, <3>6, <3>7, <3>8, <3>9, BeforeCases
    <3> QED
      BY <3>10 DEF x, y
  <2> QED
    BY <2>1, <2>4, <2>5 DEF HeapVictimLeast
<1>2. CASE ~ \E e \in heap : Frequency!PopVictim(e)
  BY <1>2 DEF Frequency!Next, Frequency!EvictLoop, Frequency!Add, Frequency!Update, Frequency!Push,
     Frequency!Remove, Frequency!BeginEvict, Frequency!PopStale, Frequency!PopOutdated,
     Frequency!Tick, HeapVictimLeast
<1> QED
  BY <1>1, <1>2

\* evict() returns the least block of its policy's order: LRUEvictor's scan may stop at
\* the first later stamp, and FrequencyAwareEvictor may trust the first current
\* entry it pops, although other entries are ordered by older frequencies.
THEOREM EvictionIsLeast ==
  ASSUME Chunked PROVE Spec => EvictsLeast
<1>1. IInv /\ [Next]_vars => [LruVictimLeast]_lruVars
  <2> SUFFICES ASSUME IInv, [Next]_vars, ~ UNCHANGED lruVars PROVE LruVictimLeast
    OBVIOUS
  <2> QED
    BY LruEvictsLeast DEF IInv, Next, vars, lruVars
<1>2. IInv /\ [Next]_vars => [HeapVictimLeast]_heapVars
  <2> SUFFICES ASSUME IInv, [Next]_vars, ~ UNCHANGED heapVars PROVE HeapVictimLeast
    OBVIOUS
  <2> QED
    BY HeapEvictsLeast DEF IInv, Next, vars, heapVars
<1>3. Spec => [][LruVictimLeast]_lruVars /\ [][HeapVictimLeast]_heapVars
  BY <1>1, <1>2, AlwaysIInv, PTL DEF Spec
<1> QED
  BY <1>3 DEF EvictsLeast, Lru!EvictsLeastRecentlyUsed, Frequency!EvictsLeastKey, LruVictimLeast,
     HeapVictimLeast, lruVars, heapVars, Lru!vars, Frequency!vars

-----------------------------------------------------------------------------
(* Both policies implement Evictor *)

\* The blocks and hashes a table of LRUEvictor stands for, and one of
\* FrequencyAwareEvictor.
LruMap(q) ==
  [b \in Blocks |->
     IF \E i \in DOMAIN q : q[i].id = b
     THEN (CHOOSE e \in {q[i] : i \in DOMAIN q} : e.id = b).hash
     ELSE None]

HeapMap(t) == [b \in HeapBlocks |-> IF t[b] = None THEN None ELSE t[b].hash]

LEMMA LruMapFacts ==
  ASSUME NEW q, \A i, j \in DOMAIN q : q[i].id = q[j].id => i = j
  PROVE  /\ \A i \in DOMAIN q : q[i].id \in Blocks => LruMap(q)[q[i].id] = q[i].hash
         /\ \A b \in Blocks : (\A i \in DOMAIN q : q[i].id # b) => LruMap(q)[b] = None
<1>1. ASSUME NEW i \in DOMAIN q, q[i].id \in Blocks PROVE LruMap(q)[q[i].id] = q[i].hash
  <2> DEFINE e == CHOOSE x \in {q[j] : j \in DOMAIN q} : x.id = q[i].id
  <2>1. e \in {q[j] : j \in DOMAIN q} /\ e.id = q[i].id
    OBVIOUS
  <2>2. e = q[i]
    BY <2>1
  <2>3. LruMap(q)[q[i].id] = e.hash
    BY <1>1 DEF LruMap
  <2> QED
    BY <2>2, <2>3
<1>2. \A b \in Blocks : (\A i \in DOMAIN q : q[i].id # b) => LruMap(q)[b] = None
  BY DEF LruMap
<1> QED
  BY <1>1, <1>2

\* A table of FrequencyAwareEvictor with another entry for block b.
LEMMA HeapMapExcept ==
  ASSUME NEW b \in HeapBlocks, NEW meta, NEW h,
         \A c \in HeapBlocks : table'[c] = IF c = b THEN meta ELSE table[c],
         h = IF meta = None THEN None ELSE meta.hash
  PROVE  HeapMap(table') = [HeapMap(table) EXCEPT ![b] = h]
<1> DEFINE new == table'
<1>1. \A c \in HeapBlocks : HeapMap(new)[c] = IF new[c] = None THEN None ELSE new[c].hash
  BY DEF HeapMap
<1>2. \A c \in HeapBlocks : HeapMap(table)[c] = IF table[c] = None THEN None ELSE table[c].hash
  BY DEF HeapMap
<1>3. /\ HeapMap(new) = [c \in HeapBlocks |-> HeapMap(new)[c]]
      /\ HeapMap(table) = [c \in HeapBlocks |-> HeapMap(table)[c]]
  BY DEF HeapMap
<1>4. HeapMap(new)[b] = h
  BY <1>1
<1>5. \A c \in HeapBlocks : c # b => HeapMap(new)[c] = HeapMap(table)[c]
  BY <1>1, <1>2
<1> HIDE DEF new
<1>6. HeapMap(new) = [HeapMap(table) EXCEPT ![b] = h]
  BY <1>3, <1>4, <1>5
<1> QED
  BY <1>6 DEF new

\* OrderedDict.pop removes one block and leaves the others their hashes.
LEMMA LruMapWithoutEntry ==
  ASSUME LruInv, NEW k \in 1 .. Len(lruTable), lruTable' = Lru!WithoutEntry(k), LruInv'
  PROVE  /\ LruMap(lruTable)[lruTable[k].id] = lruTable[k].hash
         /\ LruMap(lruTable') = [LruMap(lruTable) EXCEPT ![lruTable[k].id] = None]
<1> DEFINE n == Len(lruTable)
           new == lruTable'
           m == LruMap(lruTable)
<1>1. /\ n \in Nat /\ DOMAIN lruTable = 1 .. n
      /\ \A i \in 1 .. n : lruTable[i].id \in Blocks
      /\ \A i, j \in DOMAIN lruTable : lruTable[i].id = lruTable[j].id => i = j
  BY LruFacts DEF LruInv
<1>2. /\ Len(new) = n - 1 /\ DOMAIN new = 1 .. n - 1
      /\ \A j \in 1 .. n - 1 : new[j] = IF j < k THEN lruTable[j] ELSE lruTable[j + 1]
      /\ \A i \in 1 .. n : i # k => \E j \in 1 .. n - 1 : new[j] = lruTable[i]
  BY WithoutEntryFacts
<1>3. \A i, j \in DOMAIN new : new[i].id = new[j].id => i = j
  BY <1>2 DEF LruInv
<1>4. \A j \in DOMAIN new : \E i \in 1 .. n : i # k /\ new[j] = lruTable[i]
  <2> SUFFICES ASSUME NEW j \in 1 .. n - 1 PROVE \E i \in 1 .. n : i # k /\ new[j] = lruTable[i]
    BY <1>2
  <2>1. j \in 1 .. n /\ j + 1 \in 1 .. n /\ (j < k => j # k) /\ (~ (j < k) => j + 1 # k)
    BY <1>1
  <2> QED
    BY <1>2, <2>1
<1> HIDE DEF new
<1>5. /\ \A i \in 1 .. n : m[lruTable[i].id] = lruTable[i].hash
      /\ \A b \in Blocks : (\A i \in 1 .. n : lruTable[i].id # b) => m[b] = None
  BY <1>1, LruMapFacts
<1>6. /\ \A i \in DOMAIN new : new[i].id \in Blocks => LruMap(new)[new[i].id] = new[i].hash
      /\ \A b \in Blocks : (\A i \in DOMAIN new : new[i].id # b) => LruMap(new)[b] = None
  BY <1>3, LruMapFacts
<1>7. ASSUME NEW b \in Blocks PROVE LruMap(new)[b] = IF b = lruTable[k].id THEN None ELSE m[b]
  <2>1. CASE b = lruTable[k].id
    <3>1. \A i \in DOMAIN new : new[i].id # b
      BY <1>1, <1>4, <2>1
    <3> QED
      BY <1>6, <2>1, <3>1
  <2>2. ASSUME b # lruTable[k].id, NEW i \in 1 .. n, lruTable[i].id = b PROVE LruMap(new)[b] = m[b]
    <3>1. PICK j \in 1 .. n - 1 : new[j] = lruTable[i]
      BY <1>2, <2>2
    <3>2. j \in DOMAIN new /\ new[j].id = b /\ new[j].hash = lruTable[i].hash
      BY <1>2, <2>2, <3>1
    <3>3. LruMap(new)[b] = new[j].hash
      BY <1>6, <3>2
    <3>4. m[b] = lruTable[i].hash
      BY <1>5, <2>2
    <3> QED
      BY <3>2, <3>3, <3>4
  <2>3. CASE \A i \in 1 .. n : lruTable[i].id # b
    <3>1. \A i \in DOMAIN new : new[i].id # b
      BY <1>4, <2>3
    <3> QED
      BY <1>5, <1>6, <2>3, <3>1
  <2> QED
    BY <2>1, <2>2, <2>3
<1>8. LruMap(new) = [b \in Blocks |-> LruMap(new)[b]] /\ m = [b \in Blocks |-> m[b]]
  BY DEF LruMap
<1> HIDE DEF m
<1>9. LruMap(new) = [m EXCEPT ![lruTable[k].id] = None]
  BY <1>7, <1>8
<1> QED
  BY <1>5, <1>9 DEF new, m

LEMMA LruAddSimulates ==
  ASSUME LruInv, LruInv', NEW s \in Seqs, NEW b \in Blocks, NEW h \in Hashes, NEW d \in Depths,
         Lru!Add(s, b, h, d)
  PROVE  Lru!Abstract!Add(b, h)
<1> DEFINE e == [id |-> b, hash |-> h, depth |-> d, last |-> stamp[s]]
           n == Len(lruTable)
           new == lruTable'
           m == LruMap(lruTable)
<1>0. e \in Entry
  BY DEF LruInv, Lru!Add, Lru!TypeOK, Entry
<1>1. /\ n \in Nat /\ DOMAIN lruTable = 1 .. n /\ e \in Entry /\ lruTable \in Seq(Entry)
      /\ \A i \in 1 .. n : lruTable[i].id \in Blocks
      /\ \A i, j \in DOMAIN lruTable : lruTable[i].id = lruTable[j].id => i = j
  BY <1>0, LruFacts DEF LruInv
<1>2. new = Append(lruTable, e) /\ lruVictim' = None /\ \A i \in 1 .. n : lruTable[i].id # b
  BY <1>1 DEF Lru!Add, Lru!Held
<1>3. /\ DOMAIN new = 1 .. n + 1 /\ Len(new) = n + 1 /\ new[n + 1] = e
      /\ \A i \in 1 .. n : new[i] = lruTable[i]
  BY <1>1, <1>2, AppendProperties, LenProperties
<1>4. e.id = b /\ e.hash = h
  OBVIOUS
<1>5. \A i, j \in DOMAIN new : new[i].id = new[j].id => i = j
  BY <1>3 DEF LruInv
<1> HIDE DEF new, e
<1>6. \A i \in DOMAIN new : i \in 1 .. n \/ i = n + 1
  BY <1>1, <1>3
<1>7. /\ \A i \in 1 .. n : m[lruTable[i].id] = lruTable[i].hash
      /\ \A c \in Blocks : (\A i \in 1 .. n : lruTable[i].id # c) => m[c] = None
  BY <1>1, LruMapFacts
<1>8. /\ \A i \in DOMAIN new : new[i].id \in Blocks => LruMap(new)[new[i].id] = new[i].hash
      /\ \A c \in Blocks : (\A i \in DOMAIN new : new[i].id # c) => LruMap(new)[c] = None
  BY <1>5, LruMapFacts
<1>9. n + 1 \in DOMAIN new /\ \A i \in 1 .. n : i \in DOMAIN new
  BY <1>1, <1>3
<1>10. ASSUME NEW c \in Blocks PROVE LruMap(new)[c] = IF c = b THEN h ELSE m[c]
  <2>1. CASE c = b
    BY <1>3, <1>4, <1>8, <1>9, <2>1
  <2>2. ASSUME c # b, NEW i \in 1 .. n, lruTable[i].id = c PROVE LruMap(new)[c] = m[c]
    BY <1>3, <1>7, <1>8, <1>9, <2>2
  <2>3. CASE c # b /\ \A i \in 1 .. n : lruTable[i].id # c
    <3>1. \A i \in DOMAIN new : new[i].id # c
      BY <1>3, <1>4, <1>6, <2>3
    <3> QED
      BY <1>7, <1>8, <2>3, <3>1
  <2> QED
    BY <2>1, <2>2, <2>3
<1>11. LruMap(new) = [c \in Blocks |-> LruMap(new)[c]] /\ m = [c \in Blocks |-> m[c]]
  BY DEF LruMap
<1> HIDE DEF m
<1>12. LruMap(new) = [m EXCEPT ![b] = h] /\ m[b] = None
  BY <1>2, <1>7, <1>10, <1>11
<1> QED
  BY <1>2, <1>12 DEF Lru!Abstract!Add, LruMap, new, m

LEMMA LruSimulates ==
  ASSUME LruInv, LruInv', Lru!Next
  PROVE  Lru!Abstract!Next \/ Lru!Abstract!Forget
<1>1. ASSUME NEW b \in Blocks, Lru!Remove(b) PROVE Lru!Abstract!Remove(b)
  <2>1. PICK k \in 1 .. Len(lruTable) : lruTable[k].id = b /\ lruTable' = Lru!WithoutEntry(k)
    BY <1>1, LruFacts DEF Lru!Remove
  <2>2. LruMap(lruTable)[b] # None
    BY <2>1, LruFacts, LruMapWithoutEntry, EvictorAssumption
  <2>3. LruMap(lruTable') = [LruMap(lruTable) EXCEPT ![b] = None] /\ lruVictim' = None
    BY <1>1, <2>1, LruMapWithoutEntry DEF Lru!Remove
  <2> QED
    BY <2>2, <2>3 DEF Lru!Abstract!Remove, LruMap
<1>2. ASSUME Lru!Evict PROVE \E b \in Blocks : Lru!Abstract!Evict(b)
  <2> DEFINE k == Lru!Scan[Len(lruTable)].best
             b == lruTable[k].id
  <2>1. k \in 1 .. Len(lruTable)
    BY <1>2, LruFacts, ScanInRange DEF Lru!Evict
  <2>2. lruTable' = Lru!WithoutEntry(k) /\ lruVictim' = <<b, lruTable[k].hash>>
    BY <1>2 DEF Lru!Evict
  <2> HIDE DEF k
  <2>3. /\ LruMap(lruTable)[b] = lruTable[k].hash /\ LruMap(lruTable)[b] # None /\ b \in Blocks
        /\ LruMap(lruTable') = [LruMap(lruTable) EXCEPT ![b] = None]
    BY <2>1, <2>2, LruFacts, LruMapWithoutEntry, EvictorAssumption
  <2> HIDE DEF b
  <2>4. lruVictim' = <<b, LruMap(lruTable)[b]>>
    BY <2>2, <2>3
  <2> QED
    BY <2>3, <2>4 DEF Lru!Abstract!Evict, LruMap
<1>3. ASSUME NEW A \in SUBSET Seqs, Lru!Schedule(A) PROVE Lru!Abstract!Forget
  BY <1>3 DEF Lru!Schedule, Lru!Abstract!Forget
<1>4. ASSUME NEW s \in Seqs, Lru!EndFree(s) PROVE Lru!Abstract!Forget
  BY <1>4 DEF Lru!EndFree, Lru!Abstract!Forget
<1> QED
  BY <1>1, <1>2, <1>3, <1>4, LruAddSimulates DEF Lru!Next, Lru!Abstract!Next

LEMMA HeapSimulates ==
  ASSUME HeapInv, Frequency!Next
  PROVE  \/ Frequency!Abstract!Next \/ Frequency!Abstract!Forget
         \/ UNCHANGED <<HeapMap(table), victim>>
<1>1. ASSUME NEW b \in HeapBlocks, NEW h \in Hashes, NEW d \in Depths, Frequency!Add(b, h, d)
      PROVE  Frequency!Abstract!Add(b, h)
  <2> DEFINE meta == [hash |-> h, depth |-> d, last |-> clock]
  <2>1. table' = [table EXCEPT ![b] = meta] /\ table[b] = None /\ victim' = None
    BY <1>1 DEF Frequency!Add, Frequency!Push
  <2>2. meta \in Meta /\ meta # None /\ meta.hash = h
    BY HeapFacts DEF Meta
  <2> HIDE DEF meta
  <2>3. \A c \in HeapBlocks : table'[c] = IF c = b THEN meta ELSE table[c]
    BY <2>1, HeapFacts
  <2>4. HeapMap(table') = [HeapMap(table) EXCEPT ![b] = h]
    BY <2>2, <2>3, HeapMapExcept
  <2>5. HeapMap(table)[b] = None
    BY <2>1 DEF HeapMap
  <2> QED
    BY <2>1, <2>4, <2>5 DEF Frequency!Abstract!Add, HeapMap
<1>2. ASSUME NEW b \in HeapBlocks, Frequency!Update(b) PROVE Frequency!Abstract!Forget
  <2> DEFINE meta == [table[b] EXCEPT !.last = clock]
  <2>1. table' = [table EXCEPT ![b] = meta] /\ table[b] # None /\ victim' = None
    BY <1>2 DEF Frequency!Update, Frequency!Push
  <2>2. meta \in Meta /\ meta.hash = table[b].hash
    BY <2>1, HeapFacts DEF Meta
  <2> HIDE DEF meta
  <2>3. \A c \in HeapBlocks : table'[c] = IF c = b THEN meta ELSE table[c]
    BY <2>1, HeapFacts
  <2>4. HeapMap(table') = HeapMap(table)
    BY <2>1, <2>2, <2>3, HeapFacts DEF HeapMap
  <2> QED
    BY <2>1, <2>4 DEF Frequency!Abstract!Forget, HeapMap
\* Two ways for a block to leave.
<1>3. ASSUME NEW b \in HeapBlocks, table[b] # None, table' = [table EXCEPT ![b] = None]
      PROVE  /\ HeapMap(table)[b] = table[b].hash /\ HeapMap(table)[b] # None
             /\ HeapMap(table') = [HeapMap(table) EXCEPT ![b] = None]
  <2>1. table[b] \in Meta /\ table[b].hash \in Hashes
    BY <1>3, HeapFacts DEF Meta
  <2>2. \A c \in HeapBlocks : table'[c] = IF c = b THEN None ELSE table[c]
    BY <1>3, HeapFacts
  <2>3. HeapMap(table)[b] = table[b].hash /\ HeapMap(table)[b] # None
    BY <1>3, <2>1, EvictorAssumption DEF HeapMap
  <2>4. HeapMap(table') = [HeapMap(table) EXCEPT ![b] = None]
    BY <2>2, HeapMapExcept
  <2> QED
    BY <2>3, <2>4
<1>4. ASSUME NEW b \in HeapBlocks, Frequency!Remove(b) PROVE Frequency!Abstract!Remove(b)
  <2>1. table[b] # None /\ table' = [table EXCEPT ![b] = None] /\ victim' = None
    BY <1>4 DEF Frequency!Remove
  <2>2. HeapMap(table)[b] # None /\ HeapMap(table') = [HeapMap(table) EXCEPT ![b] = None]
    BY <1>3, <2>1
  <2> QED
    BY <2>1, <2>2 DEF Frequency!Abstract!Remove, HeapMap
<1>5. ASSUME NEW e \in heap, Frequency!PopVictim(e) PROVE \E b \in HeapBlocks : Frequency!Abstract!Evict(b)
  <2> DEFINE b == e[4]
  <2>1. b \in HeapBlocks
    BY HeapFacts DEF Keys
  <2>2. table[b] # None /\ table' = [table EXCEPT ![b] = None] /\ victim' = <<b, table[b].hash>>
    BY <1>5 DEF Frequency!PopVictim, Frequency!Stale
  <2> HIDE DEF b
  <2>3. /\ HeapMap(table)[b] = table[b].hash /\ HeapMap(table)[b] # None
        /\ HeapMap(table') = [HeapMap(table) EXCEPT ![b] = None]
    BY <1>3, <2>1, <2>2
  <2>4. victim' = <<b, HeapMap(table)[b]>>
    BY <2>2, <2>3
  <2> QED
    BY <2>1, <2>3, <2>4 DEF Frequency!Abstract!Evict, HeapMap
<1>6. ASSUME NEW e \in heap, Frequency!PopStale(e) \/ Frequency!PopOutdated(e)
      PROVE  UNCHANGED <<HeapMap(table), victim>>
  BY <1>6 DEF Frequency!PopStale, Frequency!PopOutdated, HeapMap
<1>7. ASSUME Frequency!Tick PROVE UNCHANGED <<HeapMap(table), victim>>
  BY <1>7 DEF Frequency!Tick, HeapMap
<1>8. ASSUME Frequency!BeginEvict PROVE Frequency!Abstract!Forget
  BY <1>8 DEF Frequency!BeginEvict, Frequency!Abstract!Forget
<1> QED
  BY <1>1, <1>2, <1>4, <1>5, <1>6, <1>7, <1>8
     DEF Frequency!Next, Frequency!EvictLoop, Frequency!Abstract!Next

\* Whatever the policy, the order in which it hands blocks out and the scheduling mode,
\* evict() returns each held block once, with the hash it was added under: what
\* _maybe_allocate_evicted_block_id of the allocator takes for granted when it drops
\* that hash from its index.
THEOREM PoliciesImplementEvictor == Spec => ImplementsEvictor
<1>1. Init => Lru!Abstract!Init /\ Frequency!Abstract!Init
  <2> SUFFICES ASSUME Init PROVE Lru!Abstract!Init /\ Frequency!Abstract!Init
    OBVIOUS
  <2>1. Lru!Abstract!Init
    BY DEF Init, Lru!Init, Lru!Abstract!Init
  <2>2. Frequency!Abstract!Init
    BY DEF Init, Frequency!Init, Frequency!Abstract!Init
  <2> QED
    BY <2>1, <2>2
<1>2. IInv /\ IInv' /\ [Next]_vars =>
        [Lru!Abstract!Next \/ Lru!Abstract!Forget]_<<LruMap(lruTable), lruVictim>>
  <2> SUFFICES ASSUME IInv, IInv', [Next]_vars
               PROVE  \/ Lru!Abstract!Next \/ Lru!Abstract!Forget
                      \/ UNCHANGED <<LruMap(lruTable), lruVictim>>
    BY Zenon
  <2>1. CASE Lru!Next
    BY <2>1, LruSimulates DEF IInv
  <2>2. CASE UNCHANGED lruVars
    BY <2>2 DEF lruVars, LruMap
  <2> QED
    BY <2>1, <2>2 DEF Next, vars, lruVars
<1>3. IInv /\ [Next]_vars =>
        [Frequency!Abstract!Next \/ Frequency!Abstract!Forget]_<<HeapMap(table), victim>>
  <2> SUFFICES ASSUME IInv, [Next]_vars
               PROVE  \/ Frequency!Abstract!Next \/ Frequency!Abstract!Forget
                      \/ UNCHANGED <<HeapMap(table), victim>>
    BY Zenon
  <2>1. CASE Frequency!Next
    BY <2>1, HeapSimulates DEF IInv
  <2>2. CASE UNCHANGED heapVars
    BY <2>2 DEF heapVars, HeapMap
  <2> QED
    BY <2>1, <2>2 DEF Next, vars, heapVars
<1>4. Spec => Lru!Abstract!Init
              /\ [][Lru!Abstract!Next \/ Lru!Abstract!Forget]_<<LruMap(lruTable), lruVictim>>
  BY <1>1, <1>2, AlwaysIInv, PTL DEF Spec
<1>5. Spec => Frequency!Abstract!Init
              /\ [][Frequency!Abstract!Next \/ Frequency!Abstract!Forget]_<<HeapMap(table), victim>>
  BY <1>1, <1>3, AlwaysIInv, PTL DEF Spec
<1> QED
  BY <1>4, <1>5, PTL DEF ImplementsEvictor, Lru!ImplementsEvictor, Frequency!ImplementsEvictor,
     Lru!Abstract!Spec, Frequency!Abstract!Spec, LruMap, HeapMap
=============================================================================
