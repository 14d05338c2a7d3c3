-------------------------- MODULE MambaCacheProofs --------------------------
(***************************************************************************)
(* Proofs about the slots of the recurrent states, for any number of slots *)
(* and any requests of any number of sequences: a sequence and its state   *)
(* stay together through all moves, swaps and copies, and under the        *)
(* default policy a slot is free whenever one is needed.                   *)
(***************************************************************************)
EXTENDS MambaCache, FiniteSetTheorems, NaturalsInduction, WellFoundedInduction, TLAPS

-----------------------------------------------------------------------------
(* The inductive invariant, one named part per idea.                       *)

TypeInv ==
  /\ TypeOK
  /\ state \in [Slots -> Seq(Seqs)]
  /\ expect \in [Seqs -> Seq(Seqs)]

\* The mapping is one to one.
IndexInv == \A s, t \in Seqs : index[s] # None /\ index[s] = index[t] => s = t

\* Before its first pass is over a request has at most its first sequence
\* mapped; after it the first sequence is, and the log of a sibling still
\* without a slot is the first sequence's.
RequestOK(r) ==
  /\ r \notin forked =>
       /\ status[r] \in {"new", "running"}
       /\ status[r] = "running" => Parent(r) \in ToSet(batch)
       /\ \A s \in ToSet(Family[r]) :
            /\ expect[s] = << >>
            /\ index[s] # None => s = Parent(r) /\ status[r] = "running"
  /\ r \in forked =>
       /\ status[r] # "new"
       /\ index[Parent(r)] # None
       /\ status[r] # "finished" =>
            \A s \in ToSet(Family[r]) : index[s] = None => expect[s] = expect[Parent(r)]
  /\ status[r] = "finished" => \A s \in ToSet(Family[r]) : expect[s] = << >>

RequestInv == \A r \in Requests : RequestOK(r)

\* A batch is made of all live sequences of some running requests, each once,
\* and the first pos of them are in place.
BatchedOK(s) ==
  /\ status[RequestOf(s)] = "running"
  /\ s \in ToSet(LiveSeqs(RequestOf(s)))
  /\ ToSet(LiveSeqs(RequestOf(s))) \subseteq ToSet(batch)
  /\ index[s] # None => Len(state[index[s]]) < MaxForwards
BatchInv ==
  /\ IsInjective(batch)
  /\ Len(batch) <= NumSlots
  /\ batch # << >> => With("finished") = {}
  /\ \A s \in ToSet(batch) : BatchedOK(s)
  /\ \A i \in 1 .. pos : index[batch[i]] = i - 1

\* What admission leaves room for.
RoomInv ==
  /\ NumSeqs(With("running")) <= NumSlots
  /\ ~Priority => NumSeqs(With("running") \cup With("preempted")) <= NumSlots

IInv ==
  /\ TypeInv
  /\ IndexInv
  /\ RequestInv
  /\ BatchInv
  /\ RoomInv
  /\ StatesFollowSequences

-----------------------------------------------------------------------------
(* Requests and their sequences.                                           *)

LEMMA FamilyFacts ==
  ASSUME NEW r \in Requests
  PROVE  /\ Family[r] \in Seq(Seqs) /\ Family[r] # << >> /\ IsInjective(Family[r])
         /\ ToSet(Family[r]) \subseteq Seqs
         /\ Parent(r) \in ToSet(Family[r])
         /\ \A s \in ToSet(Family[r]) : RequestOf(s) = r
<1>1. Family[r] \in Seq(Seqs) /\ Family[r] # << >> /\ IsInjective(Family[r])
  BY MambaAssumption
<1>2. ToSet(Family[r]) \subseteq Seqs
  BY DEF Seqs
<1>3. Parent(r) \in ToSet(Family[r])
  <2>1. 1 \in DOMAIN Family[r] /\ Parent(r) = Family[r][1]
    BY <1>1 DEF Parent
  <2> QED BY <2>1 DEF ToSet
<1>4. ASSUME NEW s \in ToSet(Family[r]) PROVE RequestOf(s) = r
  <2>1. \A q \in Requests : s \in ToSet(Family[q]) => q = r
    BY MambaAssumption
  <2> QED BY <2>1 DEF RequestOf
<1> QED BY <1>1, <1>2, <1>3, <1>4

LEMMA RequestOfFacts ==
  ASSUME NEW s \in Seqs
  PROVE  RequestOf(s) \in Requests /\ s \in ToSet(Family[RequestOf(s)])
<1>1. \E r \in Requests : s \in ToSet(Family[r])
  BY DEF Seqs
<1> QED BY <1>1 DEF RequestOf

LEMMA LiveFacts ==
  ASSUME NEW r \in Requests
  PROVE  /\ LiveSeqs(r) \in Seq(Seqs) /\ IsInjective(LiveSeqs(r))
         /\ ToSet(LiveSeqs(r)) = IF r \in forked THEN ToSet(Family[r]) ELSE {Parent(r)}
         /\ ToSet(LiveSeqs(r)) \subseteq ToSet(Family[r])
         /\ Parent(r) \in ToSet(LiveSeqs(r))
<1>1. CASE r \in forked
  BY <1>1, FamilyFacts DEF LiveSeqs
<1>2. CASE r \notin forked
  <2>1. LiveSeqs(r) = <<Parent(r)>> /\ Parent(r) \in Seqs
    BY <1>2, FamilyFacts DEF LiveSeqs
  <2>2. DOMAIN <<Parent(r)>> = {1} /\ <<Parent(r)>>[1] = Parent(r) /\ <<Parent(r)>> \in Seq(Seqs)
    BY <2>1
  <2>3. ToSet(<<Parent(r)>>) = {Parent(r)} /\ IsInjective(<<Parent(r)>>)
    BY <2>2 DEF ToSet, IsInjective
  <2> QED BY <1>2, <2>1, <2>2, <2>3, FamilyFacts
<1> QED BY <1>1, <1>2

-----------------------------------------------------------------------------
(* Flattening a sequence of sequences.                                     *)

LEMMA LeastNatural ==
  ASSUME NEW T \in SUBSET Nat, T # {}
  PROVE  \E x \in T : \A y \in T : x <= y
<1> DEFINE R == OpToRel(<, Nat)
<1>1. IsWellFoundedOn(R, Nat)
  BY NatLessThanWellFounded
<1>2. \A x, y \in Nat : y < x => <<y, x>> \in R
  BY DEF OpToRel
<1> HIDE DEF R
<1>3. PICK x \in T : \A y \in T : ~ (<<y, x>> \in R)
  BY <1>1, WFMin
<1>4. ASSUME NEW y \in T PROVE x <= y
  <2>1. x \in Nat /\ y \in Nat /\ ~ (<<y, x>> \in R)
    BY <1>3
  <2>2. ~ (y < x)
    BY <1>2, <2>1, Zenon
  <2> QED BY <2>1, <2>2
<1> QED BY <1>4

LEMMA IntervalInduction ==
  ASSUME NEW n \in Nat, NEW T \in SUBSET (1 .. n), n >= 1 => 1 \in T,
         \A i \in 1 .. n : i \in T /\ i < n => i + 1 \in T
  PROVE  \A i \in 1 .. n : i \in T
<1> SUFFICES ASSUME (1 .. n) \ T # {} PROVE FALSE
  OBVIOUS
<1>1. PICK x \in (1 .. n) \ T : \A y \in (1 .. n) \ T : x <= y
  <2>1. (1 .. n) \ T \in SUBSET Nat
    OBVIOUS
  <2> QED BY <2>1, LeastNatural
<1>2. x # 1 /\ x \in Nat
  BY <1>1
<1>3. x - 1 \in T /\ x - 1 \in 1 .. n /\ x - 1 < n
  BY <1>1, <1>2
<1>4. x - 1 + 1 \in T
  BY <1>3
<1> QED BY <1>1, <1>2, <1>4

\* f is the sequence of the concatenations of the first parts of q.
Concatenates(f, q) ==
  /\ \A i \in 1 .. Len(q) : f[i] = IF i = 1 THEN q[i] ELSE f[i - 1] \o q[i]

\* FlattenSeq is well defined.
LEMMA Flattening ==
  ASSUME NEW S, NEW q \in Seq(Seq(S)), q # << >>
  PROVE  \E f : Concatenates(f, q) /\ FlattenSeq(q) = f[Len(q)]
<1> DEFINE n == Len(q)
           Upto(k, f) == \A i \in 1 .. k : f[i] = IF i = 1 THEN q[i] ELSE f[i - 1] \o q[i]
           T == {k \in 1 .. n : \E f \in [1 .. k -> Seq(S)] : Upto(k, f)}
<1>0. n \in Nat /\ n # 0 /\ \A i \in 1 .. n : q[i] \in Seq(S)
  OBVIOUS
<1>1. \A k \in 1 .. n : k \in T
  <2>1. 1 \in T
    <3> DEFINE f == [i \in 1 .. 1 |-> q[1]]
    <3>1. 1 \in 1 .. n
      BY <1>0
    <3>2. f \in [1 .. 1 -> Seq(S)]
      BY <1>0, <3>1
    <3>3. Upto(1, f)
      OBVIOUS
    <3> HIDE DEF f, Upto, n
    <3> QED BY <3>1, <3>2, <3>3
  <2>2. ASSUME NEW k \in 1 .. n, k \in T, k < n PROVE k + 1 \in T
    <3>1. PICK f \in [1 .. k -> Seq(S)] : Upto(k, f)
      BY <2>2
    <3> DEFINE new == f[k] \o q[k + 1]
               g == [i \in 1 .. k + 1 |-> IF i = k + 1 THEN new ELSE f[i]]
    <3>2. f[k] \in Seq(S) /\ k + 1 \in 1 .. n /\ q[k + 1] \in Seq(S)
      BY <1>0, <2>2, <3>1
    <3>3. new \in Seq(S)
      BY <3>2
    <3>4. g \in [1 .. k + 1 -> Seq(S)]
      BY <3>1, <3>3
    <3>5. \A i \in 1 .. k : g[i] = f[i]
      OBVIOUS
    <3>6. g[k + 1] = g[k] \o q[k + 1]
      <4>1. k \in 1 .. k /\ k + 1 \in 1 .. k + 1
        BY <1>0
      <4>2. g[k] = f[k] /\ g[k + 1] = new
        BY <4>1, <3>5
      <4> HIDE DEF g
      <4> QED BY <4>2
    <3>7. Upto(k + 1, g)
      <4> SUFFICES ASSUME NEW i \in 1 .. k + 1
                   PROVE  g[i] = IF i = 1 THEN q[i] ELSE g[i - 1] \o q[i]
        OBVIOUS
      <4> HIDE DEF g
      <4>1. CASE i = k + 1
        <5>1. i # 1 /\ i - 1 = k
          BY <1>0, <4>1
        <5> QED BY <3>6, <4>1, <5>1
      <4>2. CASE i # k + 1
        <5>1. i \in 1 .. k /\ (i # 1 => i - 1 \in 1 .. k)
          BY <4>2
        <5>2. g[i] = f[i] /\ (i # 1 => g[i - 1] = f[i - 1])
          BY <3>5, <5>1
        <5> QED BY <3>1, <5>1, <5>2
      <4> QED BY <4>1, <4>2
    <3> HIDE DEF g
    <3> QED BY <3>2, <3>4, <3>7
  <2>3. T \in SUBSET (1 .. n)
    OBVIOUS
  <2> HIDE DEF T, n
  <2> QED BY <1>0, <2>1, <2>2, <2>3, IntervalInduction
<1>2. PICK f \in [1 .. n -> Seq(S)] : Upto(n, f)
  <2>1. n \in 1 .. n
    BY <1>0
  <2> QED BY <1>1, <2>1
<1>3. f = [i \in 1 .. Len(q) |-> IF i = 1 THEN q[i] ELSE f[i - 1] \o q[i]]
  BY <1>2
<1> DEFINE h == CHOOSE h : h = [i \in 1 .. Len(q) |-> IF i = 1 THEN q[i] ELSE h[i - 1] \o q[i]]
<1>4. h = [i \in 1 .. Len(q) |-> IF i = 1 THEN q[i] ELSE h[i - 1] \o q[i]]
  BY <1>3
<1>5. FlattenSeq(q) = h[Len(q)]
  BY <1>0 DEF FlattenSeq
<1> HIDE DEF h
<1> QED BY <1>4, <1>5 DEF Concatenates


\* The elements of a flattened sequence are those of its parts, and each is
\* there once if it is once in one part.
LEMMA FlattenFacts ==
  ASSUME NEW S, NEW q \in Seq(Seq(S)), q # << >>,
         \A i \in 1 .. Len(q) : IsInjective(q[i]),
         \A i, j \in 1 .. Len(q) : i # j => ToSet(q[i]) \cap ToSet(q[j]) = {}
  PROVE  /\ FlattenSeq(q) \in Seq(S)
         /\ IsInjective(FlattenSeq(q))
         /\ \A x : x \in ToSet(FlattenSeq(q)) <=> \E i \in 1 .. Len(q) : x \in ToSet(q[i])
<1> DEFINE n == Len(q)
<1>1. n \in Nat /\ n # 0 /\ \A i \in 1 .. n : q[i] \in Seq(S)
  OBVIOUS
<1>2. PICK f : Concatenates(f, q) /\ FlattenSeq(q) = f[n]
  BY Flattening
<1> DEFINE Right(i) ==
             /\ f[i] \in Seq(S)
             /\ IsInjective(f[i])
             /\ \A x : x \in ToSet(f[i]) <=> \E j \in 1 .. i : x \in ToSet(q[j])
           T == {i \in 1 .. n : Right(i)}
<1>3. 1 \in T
  <2>1. 1 \in 1 .. n /\ f[1] = q[1] /\ 1 .. 1 = {1}
    BY <1>1, <1>2 DEF Concatenates
  <2> QED BY <1>1, <2>1
<1>4. ASSUME NEW i \in 1 .. n, i \in T, i < n PROVE i + 1 \in T
  <2>1. /\ i + 1 \in 1 .. n /\ f[i + 1] = f[i] \o q[i + 1]
        /\ 1 .. i + 1 = (1 .. i) \cup {i + 1} /\ i + 1 \notin 1 .. i
        /\ \A j \in 1 .. i : j \in 1 .. n
    <3>1. i + 1 \in 1 .. n /\ i + 1 # 1 /\ i + 1 - 1 = i
      BY <1>1, <1>4
    <3>2. f[i + 1] = f[i] \o q[i + 1]
      <4>1. PICK m \in 1 .. n : m = i + 1
        BY <3>1
      <4>2. m # 1 /\ m - 1 = i
        BY <1>1, <1>4, <4>1
      <4>3. f[m] = IF m = 1 THEN q[m] ELSE f[m - 1] \o q[m]
        BY <1>2 DEF Concatenates
      <4> QED BY <4>1, <4>2, <4>3
    <3> QED BY <1>1, <3>1, <3>2
  <2>2. PICK a \in Seq(S) : a = f[i]
    BY <1>4
  <2>3. PICK b \in Seq(S) : b = q[i + 1]
    BY <1>1, <2>1
  <2>4. /\ IsInjective(a) /\ IsInjective(b)
        /\ \A x : x \in ToSet(a) <=> \E j \in 1 .. i : x \in ToSet(q[j])
    BY <1>4, <2>1, <2>2, <2>3
  <2>5. ToSet(a) \cap ToSet(b) = {}
    <3> SUFFICES ASSUME NEW x \in ToSet(a), x \in ToSet(b) PROVE FALSE
      OBVIOUS
    <3>1. PICK j \in 1 .. i : x \in ToSet(q[j])
      BY <2>4
    <3>2. j \in 1 .. n /\ i + 1 \in 1 .. n /\ j # i + 1
      BY <2>1, <3>1
    <3>3. ToSet(q[j]) \cap ToSet(q[i + 1]) = {}
      BY <3>2
    <3> QED BY <2>3, <3>1, <3>3
  <2>6. PICK c \in Seq(S) : c = a \o b
    <3>1. a \o b \in Seq(S)
      OBVIOUS
    <3> QED BY <3>1
  <2>7. /\ DOMAIN a = 1 .. Len(a) /\ Len(a) \in Nat /\ DOMAIN b = 1 .. Len(b) /\ Len(b) \in Nat
        /\ DOMAIN c = 1 .. Len(a) + Len(b)
        /\ \A k \in 1 .. Len(a) : c[k] = a[k]
        /\ \A k \in 1 .. Len(b) : c[Len(a) + k] = b[k]
    BY <2>6
  <2>8. \A k \in DOMAIN c :
          \/ k \in DOMAIN a /\ c[k] = a[k]
          \/ k - Len(a) \in DOMAIN b /\ c[k] = b[k - Len(a)]
    <3> SUFFICES ASSUME NEW k \in DOMAIN c, k \notin DOMAIN a
                 PROVE  k - Len(a) \in DOMAIN b /\ c[k] = b[k - Len(a)]
      BY <2>7
    <3>1. k - Len(a) \in 1 .. Len(b) /\ Len(a) + (k - Len(a)) = k
      BY <2>7
    <3> QED BY <2>7, <3>1
  <2>9. \A x : x \in ToSet(c) <=> x \in ToSet(a) \/ x \in ToSet(b)
    <3>1. ASSUME NEW x \in ToSet(c) PROVE x \in ToSet(a) \/ x \in ToSet(b)
      BY <2>8 DEF ToSet
    <3>2. ASSUME NEW x \in ToSet(a) PROVE x \in ToSet(c)
      <4>1. PICK k \in DOMAIN a : x = a[k]
        BY DEF ToSet
      <4>2. k \in DOMAIN c /\ c[k] = x
        BY <2>7, <4>1
      <4> QED BY <4>2 DEF ToSet
    <3>3. ASSUME NEW x \in ToSet(b) PROVE x \in ToSet(c)
      <4>1. PICK k \in DOMAIN b : x = b[k]
        BY DEF ToSet
      <4>2. Len(a) + k \in DOMAIN c /\ c[Len(a) + k] = x
        BY <2>7, <4>1
      <4> QED BY <4>2 DEF ToSet
    <3> QED BY <3>1, <3>2, <3>3
  <2>10. IsInjective(c)
    <3> SUFFICES ASSUME NEW k \in DOMAIN c, NEW l \in DOMAIN c, c[k] = c[l]
                 PROVE  k = l
      BY DEF IsInjective
    <3>1. CASE k \in DOMAIN a /\ l \in DOMAIN a /\ c[k] = a[k] /\ c[l] = a[l]
      BY <2>4, <3>1 DEF IsInjective
    <3>2. CASE k \notin DOMAIN a /\ l \notin DOMAIN a
      <4>1. /\ k - Len(a) \in DOMAIN b /\ l - Len(a) \in DOMAIN b
            /\ b[k - Len(a)] = b[l - Len(a)]
        BY <2>8, <3>2
      <4>2. k - Len(a) = l - Len(a)
        BY <2>4, <4>1 DEF IsInjective
      <4> QED BY <2>7, <4>2
    <3>3. ASSUME NEW x \in DOMAIN c, NEW y \in DOMAIN c, x \in DOMAIN a, y \notin DOMAIN a,
                 c[x] = c[y]
          PROVE  FALSE
      <4>1. c[x] = a[x] /\ y - Len(a) \in DOMAIN b /\ c[y] = b[y - Len(a)]
        BY <2>7, <2>8, <3>3
      <4>2. a[x] \in ToSet(a) /\ a[x] \in ToSet(b)
        BY <3>3, <4>1 DEF ToSet
      <4> QED BY <2>5, <4>2
    <3> QED BY <2>7, <3>1, <3>2, <3>3
  <2>11. f[i + 1] = c
    BY <2>1, <2>2, <2>3, <2>6
  <2>12. \A x : x \in ToSet(c) <=> \E j \in 1 .. i + 1 : x \in ToSet(q[j])
    BY <2>1, <2>3, <2>4, <2>9
  <2>13. Right(i + 1)
    BY <2>6, <2>10, <2>11, <2>12
  <2> HIDE DEF Right, n
  <2> QED BY <2>1, <2>13
<1>5. n \in T
  <2>1. T \in SUBSET (1 .. n) /\ n \in 1 .. n
    BY <1>1
  <2> HIDE DEF T, n
  <2> QED BY <1>1, <1>3, <1>4, <2>1, IntervalInduction
<1> QED BY <1>2, <1>5


-----------------------------------------------------------------------------
(* Counting sequences.                                                     *)

SeqsOf(rs) == UNION {ToSet(Family[r]) : r \in rs}

LEMMA FamiliesFinite ==
  ASSUME NEW rs \in SUBSET Requests
  PROVE  IsFiniteSet(SeqsOf(rs)) /\ NumSeqs(rs) \in Nat /\ NumSeqs(rs) = Cardinality(SeqsOf(rs))
<1> DEFINE parts == {ToSet(Family[r]) : r \in rs}
           f == [r \in rs |-> ToSet(Family[r])]
<1>1. f \in Surjection(rs, parts)
  BY DEF Surjection
<1>2. IsFiniteSet(rs)
  BY MambaAssumption, FS_Subset
<1>3. IsFiniteSet(parts)
  <2> HIDE DEF f, parts
  <2> QED BY <1>1, <1>2, FS_Surjection
<1>4. ASSUME NEW r \in rs PROVE IsFiniteSet(ToSet(Family[r]))
  <2>1. Family[r] \in Seq(Seqs)
    BY FamilyFacts
  <2>2. Len(Family[r]) \in Nat /\ DOMAIN Family[r] = 1 .. Len(Family[r])
    BY <2>1
  <2>3. IsFiniteSet(DOMAIN Family[r])
    BY <2>2, FS_Interval
  <2> DEFINE g == [i \in DOMAIN Family[r] |-> Family[r][i]]
  <2>4. g \in Surjection(DOMAIN Family[r], ToSet(Family[r]))
    BY DEF Surjection, ToSet
  <2> HIDE DEF g
  <2> QED BY <2>3, <2>4, FS_Surjection
<1>5. \A T \in parts : IsFiniteSet(T)
  BY <1>4
<1>6. IsFiniteSet(UNION parts)
  <2> HIDE DEF parts
  <2> QED BY <1>3, <1>5, FS_UNION
<1>7. SeqsOf(rs) = UNION parts
  BY DEF SeqsOf
<1>8. NumSeqs(rs) = Cardinality(SeqsOf(rs))
  BY DEF NumSeqs, SeqsOf
<1> QED BY <1>6, <1>7, <1>8, FS_CardinalityType

LEMMA FewerRequests ==
  ASSUME NEW qs \in SUBSET Requests, NEW rs \in SUBSET qs
  PROVE  NumSeqs(rs) <= NumSeqs(qs) /\ SeqsOf(rs) \subseteq SeqsOf(qs)
<1>1. SeqsOf(rs) \subseteq SeqsOf(qs)
  BY DEF SeqsOf
<1>2. IsFiniteSet(SeqsOf(qs)) /\ NumSeqs(qs) = Cardinality(SeqsOf(qs))
  BY FamiliesFinite
<1>3. rs \in SUBSET Requests
  OBVIOUS
<1>4. NumSeqs(rs) = Cardinality(SeqsOf(rs))
  BY <1>3, FamiliesFinite
<1>5. Cardinality(SeqsOf(rs)) <= Cardinality(SeqsOf(qs))
  BY <1>1, <1>2, FS_Subset
<1> QED BY <1>1, <1>2, <1>4, <1>5

LEMMA InjectiveLength ==
  ASSUME NEW T, IsFiniteSet(T), NEW b \in Seq(T), IsInjective(b)
  PROVE  Len(b) <= Cardinality(T)
<1>1. Len(b) \in Nat /\ DOMAIN b = 1 .. Len(b) /\ b \in [1 .. Len(b) -> T]
  OBVIOUS
<1>2. b \in Injection(1 .. Len(b), T)
  BY <1>1 DEF Injection
<1>3. Cardinality(1 .. Len(b)) <= Cardinality(T)
  BY <1>2, FS_Injection
<1>4. Cardinality(1 .. Len(b)) = Len(b)
  BY <1>1, FS_Interval
<1> QED BY <1>3, <1>4

\* An order of a set of requests names each of them once.
LEMMA OrderFacts ==
  ASSUME NEW rs \in SUBSET Requests, rs # {}, NEW o \in Orders(rs)
  PROVE  /\ o \in Seq(rs) /\ o # << >> /\ IsInjective(o)
         /\ \A r \in rs : \E i \in 1 .. Len(o) : o[i] = r
<1>1. IsFiniteSet(rs)
  BY MambaAssumption, FS_Subset
<1>2. PICK n \in Nat : n = Cardinality(rs)
  BY <1>1, FS_CardinalityType
<1>3. n # 0
  BY <1>1, <1>2, FS_EmptySet
<1>4. o \in [1 .. n -> rs] /\ IsInjective(o)
  BY <1>2 DEF Orders
<1>5. o \in Seq(rs) /\ Len(o) = n /\ o # << >>
  BY <1>3, <1>4
<1>6. o \in Injection(1 .. n, rs)
  BY <1>4 DEF Injection
<1>7. Cardinality(1 .. n) = n
  BY FS_Interval
<1>8. o \in Surjection(1 .. n, rs)
  BY <1>1, <1>2, <1>6, <1>7, FS_Injection
<1>9. \A r \in rs : \E i \in 1 .. n : o[i] = r
  BY <1>8 DEF Surjection
<1> QED BY <1>4, <1>5, <1>9

\* The batch of a pass over rs.
BatchOf(o) == FlattenSeq([i \in DOMAIN o |-> LiveSeqs(o[i])])

LEMMA BatchOfFacts ==
  ASSUME NEW rs \in SUBSET Requests, rs # {}, NEW o \in Orders(rs)
  PROVE  /\ BatchOf(o) \in Seq(Seqs)
         /\ IsInjective(BatchOf(o))
         /\ \A x : x \in ToSet(BatchOf(o)) <=> \E r \in rs : x \in ToSet(LiveSeqs(r))
         /\ Len(BatchOf(o)) <= NumSeqs(rs)
<1>1. /\ o \in Seq(rs) /\ o # << >> /\ IsInjective(o)
      /\ \A r \in rs : \E i \in 1 .. Len(o) : o[i] = r
  BY OrderFacts
<1>2. Len(o) \in Nat /\ DOMAIN o = 1 .. Len(o) /\ \A i \in 1 .. Len(o) : o[i] \in rs
  BY <1>1
<1>3. PICK q : q = [i \in DOMAIN o |-> LiveSeqs(o[i])]
  OBVIOUS
<1>4. \A i \in 1 .. Len(o) : q[i] = LiveSeqs(o[i])
  BY <1>2, <1>3
<1>5. \A r \in rs : LiveSeqs(r) \in Seq(Seqs) /\ IsInjective(LiveSeqs(r))
                    /\ ToSet(LiveSeqs(r)) \subseteq ToSet(Family[r])
  BY LiveFacts
<1>6. q \in Seq(Seq(Seqs)) /\ Len(q) = Len(o) /\ q # << >>
  <2>1. q \in [1 .. Len(o) -> Seq(Seqs)]
    BY <1>2, <1>3, <1>5
  <2>2. q \in Seq(Seq(Seqs)) /\ Len(q) = Len(o)
    BY <1>2, <2>1
  <2>3. Len(o) # 0
    BY <1>1
  <2> QED BY <2>2, <2>3
<1>7. \A i \in 1 .. Len(q) : IsInjective(q[i])
  BY <1>2, <1>4, <1>5, <1>6
<1>8. ASSUME NEW i \in 1 .. Len(q), NEW j \in 1 .. Len(q), i # j
      PROVE  ToSet(q[i]) \cap ToSet(q[j]) = {}
  <2>1. o[i] \in rs /\ o[j] \in rs /\ o[i] # o[j]
    BY <1>1, <1>2, <1>6, <1>8 DEF IsInjective
  <2>2. ToSet(Family[o[i]]) \cap ToSet(Family[o[j]]) = {}
    BY <2>1, MambaAssumption
  <2> QED BY <1>4, <1>5, <1>6, <2>1, <2>2
<1>9. /\ FlattenSeq(q) \in Seq(Seqs)
      /\ IsInjective(FlattenSeq(q))
      /\ \A x : x \in ToSet(FlattenSeq(q)) <=> \E i \in 1 .. Len(q) : x \in ToSet(q[i])
  BY <1>6, <1>7, <1>8, FlattenFacts
<1>10. BatchOf(o) = FlattenSeq(q)
  BY <1>3 DEF BatchOf
<1>11. \A x : x \in ToSet(BatchOf(o)) <=> \E r \in rs : x \in ToSet(LiveSeqs(r))
  <2>1. ASSUME NEW x \in ToSet(BatchOf(o)) PROVE \E r \in rs : x \in ToSet(LiveSeqs(r))
    <3>1. PICK i \in 1 .. Len(o) : x \in ToSet(q[i])
      BY <1>6, <1>9, <1>10
    <3>2. o[i] \in rs /\ q[i] = LiveSeqs(o[i])
      BY <1>2, <1>4
    <3> QED BY <3>1, <3>2
  <2>2. ASSUME NEW r \in rs, NEW x \in ToSet(LiveSeqs(r)) PROVE x \in ToSet(BatchOf(o))
    <3>1. PICK i \in 1 .. Len(o) : o[i] = r
      BY <1>1
    <3>2. x \in ToSet(q[i])
      BY <1>4, <3>1
    <3> QED BY <1>6, <1>9, <1>10, <3>2
  <2> QED BY <2>1, <2>2
<1>12. Len(BatchOf(o)) <= NumSeqs(rs)
  <2>1. PICK b \in Seq(Seqs) : b = BatchOf(o)
    BY <1>9, <1>10
  <2>2. \A i \in DOMAIN b : b[i] \in SeqsOf(rs)
    <3>1. \A i \in DOMAIN b : b[i] \in ToSet(b)
      BY DEF ToSet
    <3>2. \A i \in DOMAIN b : \E r \in rs : b[i] \in ToSet(LiveSeqs(r))
      BY <1>11, <2>1, <3>1
    <3> QED BY <1>5, <3>2 DEF SeqsOf
  <2>3. b \in Seq(SeqsOf(rs))
    BY <2>2
  <2>4. IsFiniteSet(SeqsOf(rs)) /\ NumSeqs(rs) = Cardinality(SeqsOf(rs))
    BY FamiliesFinite
  <2>5. IsInjective(b)
    BY <1>9, <1>10, <2>1
  <2> QED BY <2>1, <2>3, <2>4, <2>5, InjectiveLength
<1> QED BY <1>9, <1>10, <1>11, <1>12


-----------------------------------------------------------------------------
(* The initial states, and the steps of the scheduler.                     *)

LEMMA InitIInv ==
  Init => IInv
<1> SUFFICES ASSUME Init PROVE IInv
  OBVIOUS
<1>1. /\ \A s \in Seqs : index[s] = None /\ expect[s] = << >>
      /\ \A i \in Slots : state[i] = << >>
      /\ \A r \in Requests : status[r] = "new"
      /\ forked = {} /\ preempted = {} /\ batch = << >> /\ pos = 0
  BY DEF Init
<1>2. TypeInv
  <2>1. index \in [Seqs -> Slots \cup {None}]
    BY DEF Init
  <2>2. << >> \in Seq(Seqs) /\ Len(<< >>) = 0
    OBVIOUS
  <2>3. state \in [Slots -> Seq(Seqs)] /\ expect \in [Seqs -> Seq(Seqs)]
    BY <2>2 DEF Init
  <2>4. \A i \in Slots : Len(state[i]) <= MaxForwards
    BY <1>1, <2>2, MambaAssumption
  <2>5. status \in [Requests -> Statuses]
    BY DEF Init, Statuses
  <2> QED BY <1>1, <2>1, <2>2, <2>3, <2>4, <2>5 DEF TypeInv, TypeOK
<1>3. IndexInv
  BY <1>1 DEF IndexInv
<1>4. RequestInv
  <2> SUFFICES ASSUME NEW r \in Requests PROVE RequestOK(r)
    BY DEF RequestInv
  <2>1. \A s \in ToSet(Family[r]) : s \in Seqs
    BY FamilyFacts
  <2> QED BY <1>1, <2>1 DEF RequestOK
<1>5. BatchInv
  <2>1. DOMAIN << >> = {} /\ Len(<< >>) = 0
    OBVIOUS
  <2>2. IsInjective(batch)
    BY <1>1, <2>1 DEF IsInjective
  <2>3. Len(batch) <= NumSlots
    BY <1>1, <2>1, MambaAssumption
  <2>4. \A i \in 1 .. pos : FALSE
    BY <1>1
  <2>5. ToSet(batch) = {}
    BY <1>1, <2>1 DEF ToSet
  <2> QED BY <1>1, <2>2, <2>3, <2>4, <2>5 DEF BatchInv
<1>6. RoomInv
  <2>1. With("running") = {} /\ With("preempted") = {}
    BY <1>1 DEF With
  <2>2. NumSeqs({}) = 0
    <3>1. UNION {ToSet(Family[r]) : r \in {}} = {}
      OBVIOUS
    <3> QED BY <3>1, FS_EmptySet DEF NumSeqs
  <2>3. With("running") \cup With("preempted") = {}
    BY <2>1
  <2>4. 0 <= NumSlots
    BY MambaAssumption
  <2> QED BY <2>1, <2>2, <2>3, <2>4 DEF RoomInv
<1>7. StatesFollowSequences
  BY <1>1 DEF StatesFollowSequences
<1> QED BY <1>2, <1>3, <1>4, <1>5, <1>6, <1>7 DEF IInv

\* The batch of a new pass takes the place of none.
LEMMA BeginForwardInv ==
  ASSUME IInv, NEW rs \in SUBSET Requests, NEW o \in Orders(rs), BeginForward(rs, o)
  PROVE  IInv'
<1>1. /\ TypeOK /\ state \in [Slots -> Seq(Seqs)] /\ expect \in [Seqs -> Seq(Seqs)]
      /\ IndexInv /\ RequestInv /\ BatchInv /\ RoomInv /\ StatesFollowSequences
  BY DEF IInv, TypeInv
<1>2. /\ batch = << >>
      /\ \A s \in Seqs : index'[s] = IF status[RequestOf(s)] # "finished" THEN index[s] ELSE None
      /\ \A r \in Requests : status'[r] = CASE r \in rs -> "running"
                                            [] status[r] = "finished" -> "new"
                                            [] OTHER -> status[r]
      /\ forked' = forked \ With("finished")
      /\ preempted' = preempted \ With("finished")
      /\ batch' = BatchOf(o)
      /\ pos' = 0
      /\ state' = state /\ expect' = expect
  BY DEF BeginForward, BatchOf
<1>3. rs # {} /\ \A r \in rs : status[r] # "finished"
  BY DEF BeginForward, Admissible, With
<1>4. \A r \in Requests :
        /\ r \in rs => status'[r] = "running"
        /\ r \notin rs /\ status[r] = "finished" => status'[r] = "new"
        /\ r \notin rs /\ status[r] # "finished" => status'[r] = status[r]
  <2> SUFFICES ASSUME NEW r \in Requests
               PROVE  /\ r \in rs => status'[r] = "running"
                      /\ r \notin rs /\ status[r] = "finished" => status'[r] = "new"
                      /\ r \notin rs /\ status[r] # "finished" => status'[r] = status[r]
    OBVIOUS
  <2>1. status'[r] = CASE r \in rs -> "running"
                       [] status[r] = "finished" -> "new"
                       [] OTHER -> status[r]
    BY <1>2
  <2> QED BY <1>3, <2>1
<1>5. \A r \in Requests : r \in With("finished") <=> status[r] = "finished"
  BY DEF With
<1>6. /\ BatchOf(o) \in Seq(Seqs)
      /\ IsInjective(BatchOf(o))
      /\ \A x : x \in ToSet(BatchOf(o)) <=> \E r \in rs : x \in ToSet(LiveSeqs(r))
      /\ Len(BatchOf(o)) <= NumSeqs(rs)
  BY <1>3, BatchOfFacts
<1>7. /\ With("running")' = rs \cup With("running")
      /\ With("preempted")' = With("preempted") \ rs
      /\ With("finished")' = {}
  <2>1. \A r \in Requests : status'[r] = "running" <=> r \in rs \/ status[r] = "running"
    BY <1>4
  <2>2. \A r \in Requests : status'[r] = "preempted" <=> r \notin rs /\ status[r] = "preempted"
    BY <1>4
  <2>3. \A r \in Requests : status'[r] # "finished"
    BY <1>4
  <2> QED BY <2>1, <2>2, <2>3 DEF With
<1>8. NumSeqs(rs \cup With("running")) <= NumSlots
  <2>1. CASE Admissible(rs)
    BY <2>1 DEF Admissible
  <2>2. CASE rs = With("running")
    <3>1. rs \cup With("running") = With("running")
      BY <2>2
    <3> QED BY <1>1, <3>1 DEF RoomInv
  <2> QED BY <2>1, <2>2 DEF BeginForward
<1>9. RoomInv'
  <2>1. NumSeqs(With("running")') <= NumSlots
    BY <1>7, <1>8
  <2>2. ASSUME ~Priority
        PROVE  NumSeqs(With("running")' \cup With("preempted")') <= NumSlots
    <3>1. CASE rs \cap With("new") = {} \/ rs = With("running")
      <4>1. rs \subseteq With("running") \cup With("preempted")
        BY <3>1 DEF BeginForward, Admissible
      <4>2. With("running")' \cup With("preempted")' = With("running") \cup With("preempted")
        BY <1>7, <4>1
      <4> QED BY <1>1, <2>2, <4>2 DEF RoomInv
    <3>2. CASE With("preempted") \subseteq rs
      <4>1. With("running")' \cup With("preempted")' = rs \cup With("running")
        BY <1>7, <3>2
      <4> QED BY <1>8, <4>1
    <3> QED BY <2>2, <3>1, <3>2 DEF BeginForward, Admissible
  <2> QED BY <2>1, <2>2 DEF RoomInv, NumSeqs
<1>10. ASSUME NEW s \in Seqs
       PROVE  /\ index'[s] # None => index'[s] = index[s] /\ status[RequestOf(s)] # "finished"
              /\ status[RequestOf(s)] # "finished" => index'[s] = index[s]
              /\ status[RequestOf(s)] = "finished" => index'[s] = None
  BY <1>2
<1>11. TypeInv'
  <2>1. index' \in [Seqs -> Slots \cup {None}]
    <3>1. index' = [s \in Seqs |-> IF status[RequestOf(s)] # "finished" THEN index[s] ELSE None]
      BY DEF BeginForward
    <3> QED BY <1>1, <3>1 DEF TypeOK
  <2>2. status' \in [Requests -> Statuses]
    <3>1. \A r \in Requests : status'[r] \in Statuses
      BY <1>1, <1>4 DEF TypeOK, Statuses
    <3>2. status' = [r \in Requests |-> status'[r]]
      BY DEF BeginForward
    <3> QED BY <3>1, <3>2
  <2>3. pos' \in 0 .. Len(batch')
    <3>1. Len(batch') \in Nat
      BY <1>2, <1>6
    <3> QED BY <1>2, <3>1
  <2>4. forked' \subseteq Requests /\ preempted' \subseteq Requests
    BY <1>1, <1>2 DEF TypeOK
  <2> QED BY <1>1, <1>2, <1>6, <2>1, <2>2, <2>3, <2>4 DEF TypeOK, TypeInv
<1>12. IndexInv'
  BY <1>1, <1>10 DEF IndexInv
<1>13. \A r \in rs : LiveSeqs(r)' = LiveSeqs(r)
  BY <1>2, <1>3, <1>5 DEF LiveSeqs, Parent
<1>14. ASSUME NEW r \in Requests PROVE RequestOK(r)'
  <2>0. RequestOK(r)
    BY <1>1 DEF RequestInv
  <2>1. /\ Parent(r) \in ToSet(Family[r])
        /\ \A s \in ToSet(Family[r]) : s \in Seqs /\ RequestOf(s) = r
    BY FamilyFacts
  <2>2. ToSet(batch) = {}
    <3>1. DOMAIN << >> = {}
      OBVIOUS
    <3> QED BY <1>2, <3>1 DEF ToSet
  <2>3. \A s \in ToSet(Family[r]) :
          /\ index'[s] # None => index'[s] = index[s] /\ status[r] # "finished"
          /\ status[r] # "finished" => index'[s] = index[s]
          /\ status[r] = "finished" => index'[s] = None
    BY <1>10, <2>1
  <2>4. CASE status[r] = "finished"
    <3>1. r \notin rs /\ status'[r] = "new" /\ r \notin forked'
      BY <1>2, <1>3, <1>4, <1>5, <2>4
    <3>2. \A s \in ToSet(Family[r]) : index'[s] = None /\ expect'[s] = << >>
      BY <1>2, <2>0, <2>3, <2>4 DEF RequestOK
    <3> QED BY <3>1, <3>2 DEF RequestOK
  <2>5. CASE status[r] # "finished" /\ r \in forked
    <3>1. status[r] # "new" /\ index[Parent(r)] # None
          /\ \A s \in ToSet(Family[r]) : index[s] = None => expect[s] = expect[Parent(r)]
      BY <2>0, <2>5 DEF RequestOK
    <3>2. r \in forked' /\ status'[r] # "new" /\ status'[r] # "finished"
      BY <1>2, <1>4, <1>5, <2>5, <3>1
    <3>3. \A s \in ToSet(Family[r]) : index'[s] = index[s] /\ expect'[s] = expect[s]
      BY <1>2, <2>3, <2>5
    <3>4. index'[Parent(r)] # None
      BY <2>1, <3>1, <3>3
    <3>5. \A s \in ToSet(Family[r]) : index'[s] = None => expect'[s] = expect'[Parent(r)]
      BY <2>1, <3>1, <3>3
    <3> QED BY <3>2, <3>4, <3>5 DEF RequestOK, Parent
  <2>6. CASE status[r] # "finished" /\ r \notin forked
    <3>1. /\ status[r] = "new"
          /\ \A s \in ToSet(Family[r]) : expect[s] = << >> /\ index[s] = None
      BY <2>0, <2>2, <2>6 DEF RequestOK
    <3>2. r \notin forked' /\ status'[r] \in {"new", "running"}
      BY <1>2, <1>4, <2>6, <3>1
    <3>3. status'[r] = "running" => Parent(r) \in ToSet(batch')
      <4> SUFFICES ASSUME status'[r] = "running" PROVE Parent(r) \in ToSet(batch')
        OBVIOUS
      <4>1. r \in rs
        BY <1>4, <2>6, <3>1
      <4>2. Parent(r) \in ToSet(LiveSeqs(r))
        BY LiveFacts
      <4> QED BY <1>2, <1>6, <4>1, <4>2
    <3>4. \A s \in ToSet(Family[r]) : expect'[s] = << >> /\ index'[s] = None
      BY <1>2, <2>3, <2>6, <3>1
    <3> QED BY <3>2, <3>3, <3>4 DEF RequestOK, Parent
  <2> QED BY <2>4, <2>5, <2>6
<1>15. ASSUME NEW s \in ToSet(batch') PROVE BatchedOK(s)'
  <2>1. s \in Seqs
    BY <1>2, <1>6 DEF ToSet
  <2>2. PICK r \in rs : s \in ToSet(LiveSeqs(r))
    BY <1>2, <1>6, <2>1
  <2>3. r \in Requests /\ RequestOf(s) = r
    <3>1. s \in ToSet(Family[r])
      BY <2>2, LiveFacts
    <3> QED BY <3>1, FamilyFacts
  <2>4. status'[r] = "running"
    BY <1>4, <2>3
  <2>5. ToSet(LiveSeqs(r)) \subseteq ToSet(batch')
    BY <1>2, <1>6
  <2>6. index'[s] # None => Len(state'[index'[s]]) < MaxForwards
    <3>1. PICK j \in DOMAIN BatchOf(o) : BatchOf(o)[j] = s
      BY <1>2 DEF ToSet
    <3>2. index[s] # None => Len(state[index[s]]) < MaxForwards
      BY <3>1 DEF BeginForward, BatchOf
    <3> QED BY <1>2, <1>10, <2>1, <3>2
  <2>7. ToSet(LiveSeqs(r)') = ToSet(LiveSeqs(r))
    BY <1>13
  <2> QED BY <2>1, <2>2, <2>3, <2>4, <2>5, <2>6, <2>7 DEF BatchedOK
<1>16. BatchInv'
  <2>1. Len(batch') <= NumSlots
    <3>1. rs \cup With("running") \in SUBSET Requests /\ rs \in SUBSET (rs \cup With("running"))
      BY DEF With
    <3>2. NumSeqs(rs) <= NumSeqs(rs \cup With("running"))
      BY <3>1, FewerRequests
    <3>3. NumSeqs(rs) \in Nat /\ NumSeqs(rs \cup With("running")) \in Nat
      BY <3>1, FamiliesFinite
    <3>4. Len(batch') \in Nat /\ Len(batch') <= NumSeqs(rs)
      BY <1>2, <1>6
    <3> QED BY <1>8, <3>2, <3>3, <3>4, MambaAssumption
  <2>2. \A i \in 1 .. pos' : FALSE
    BY <1>2
  <2>3. IsInjective(batch')
    BY <1>2, <1>6
  <2> QED BY <1>7, <1>15, <2>1, <2>2, <2>3 DEF BatchInv, IsInjective
<1>17. StatesFollowSequences'
  <2> SUFFICES ASSUME NEW s \in Seqs, index'[s] # None, status'[RequestOf(s)] # "finished",
                      RequestOf(s) \notin preempted'
               PROVE  state'[index'[s]] = expect'[s]
    BY DEF StatesFollowSequences, RequestOf
  <2>1. index'[s] = index[s] /\ status[RequestOf(s)] # "finished"
    BY <1>10
  <2>2. RequestOf(s) \notin preempted
    BY <1>2, <1>5, <2>1, RequestOfFacts
  <2>3. state[index[s]] = expect[s]
    BY <1>1, <2>1, <2>2 DEF StatesFollowSequences
  <2> QED BY <1>2, <2>1, <2>3
<1>18. RequestInv'
  BY <1>14 DEF RequestInv
<1> QED BY <1>9, <1>11, <1>12, <1>16, <1>17, <1>18 DEF IInv


LEMMA FinishInv ==
  ASSUME IInv, NEW r \in Requests, Finish(r)
  PROVE  IInv'
<1>1. /\ TypeOK /\ state \in [Slots -> Seq(Seqs)] /\ expect \in [Seqs -> Seq(Seqs)]
      /\ IndexInv /\ RequestInv /\ BatchInv /\ RoomInv /\ StatesFollowSequences
  BY DEF IInv, TypeInv
<1>2. /\ batch = << >> /\ status[r] \in {"running", "preempted"}
      /\ status' = [status EXCEPT ![r] = "finished"]
      /\ expect' = [s \in Seqs |-> IF s \in ToSet(Family[r]) THEN << >> ELSE expect[s]]
      /\ index' = index /\ state' = state /\ forked' = forked /\ preempted' = preempted
      /\ batch' = batch /\ pos' = pos
  BY DEF Finish
<1>3. \A q \in Requests : status'[q] = IF q = r THEN "finished" ELSE status[q]
  BY <1>1, <1>2 DEF TypeOK
<1>4. ToSet(batch) = {}
  <2>1. DOMAIN << >> = {}
    OBVIOUS
  <2> QED BY <1>2, <2>1 DEF ToSet
<1>5. r \in forked
  <2>1. RequestOK(r)
    BY <1>1 DEF RequestInv
  <2> QED BY <1>2, <1>4, <2>1 DEF RequestOK
<1>6. TypeInv'
  <2>1. status' \in [Requests -> Statuses]
    BY <1>1, <1>2 DEF TypeOK, Statuses
  <2>2. << >> \in Seq(Seqs)
    OBVIOUS
  <2>3. expect' \in [Seqs -> Seq(Seqs)]
    BY <1>1, <1>2, <2>2
  <2> QED BY <1>1, <1>2, <2>1, <2>3 DEF TypeOK, TypeInv
<1>7. IndexInv'
  BY <1>1, <1>2 DEF IndexInv
<1>8. ASSUME NEW q \in Requests PROVE RequestOK(q)'
  <2>1. RequestOK(q) /\ \A s \in ToSet(Family[q]) : s \in Seqs /\ RequestOf(s) = q
    BY <1>1, FamilyFacts DEF RequestInv
  <2>2. Parent(q) \in ToSet(Family[q])
    BY FamilyFacts
  <2>3. CASE q = r
    <3>1. \A s \in ToSet(Family[q]) : expect'[s] = << >>
      BY <1>2, <2>1, <2>3
    <3> QED BY <1>2, <1>3, <1>5, <2>1, <2>3, <3>1 DEF RequestOK, Parent
  <2>4. CASE q # r
    <3>1. \A s \in ToSet(Family[q]) : s \notin ToSet(Family[r])
      BY <2>4, MambaAssumption
    <3>2. \A s \in ToSet(Family[q]) : expect'[s] = expect[s]
      BY <1>2, <2>1, <3>1
    <3>3. status'[q] = status[q]
      BY <1>3, <2>4
    <3> QED BY <1>2, <2>1, <2>2, <3>2, <3>3 DEF RequestOK, Parent
  <2> QED BY <2>3, <2>4
<1>9. BatchInv'
  BY <1>1, <1>2, <1>4 DEF BatchInv
<1>10. RoomInv'
  <2>1. /\ With("running")' \subseteq With("running")
        /\ With("preempted")' \subseteq With("preempted")
    BY <1>3 DEF With
  <2>2. PICK run \in SUBSET Requests : run = With("running")
    BY DEF With
  <2>3. PICK pre \in SUBSET Requests : pre = With("preempted")
    BY DEF With
  <2>4. PICK run2 \in SUBSET run : run2 = With("running")'
    BY <2>1, <2>2
  <2>5. PICK pre2 \in SUBSET pre : pre2 = With("preempted")'
    BY <2>1, <2>3
  <2>6. NumSeqs(run2) <= NumSeqs(run) /\ NumSeqs(run2) \in Nat /\ NumSeqs(run) \in Nat
    BY FewerRequests, FamiliesFinite
  <2>7. run2 \cup pre2 \in SUBSET (run \cup pre) /\ run \cup pre \in SUBSET Requests
    OBVIOUS
  <2>8. NumSeqs(run2 \cup pre2) <= NumSeqs(run \cup pre)
        /\ NumSeqs(run2 \cup pre2) \in Nat /\ NumSeqs(run \cup pre) \in Nat
    BY <2>7, FewerRequests, FamiliesFinite
  <2>9. NumSeqs(run) <= NumSlots /\ (~Priority => NumSeqs(run \cup pre) <= NumSlots)
    BY <1>1, <2>2, <2>3 DEF RoomInv
  <2>10. NumSeqs(run2) <= NumSlots /\ (~Priority => NumSeqs(run2 \cup pre2) <= NumSlots)
    BY <2>6, <2>8, <2>9, MambaAssumption
  <2> QED BY <2>4, <2>5, <2>10 DEF RoomInv
<1>11. StatesFollowSequences'
  <2> SUFFICES ASSUME NEW s \in Seqs, index'[s] # None, status'[RequestOf(s)] # "finished",
                      RequestOf(s) \notin preempted'
               PROVE  state'[index'[s]] = expect'[s]
    BY DEF StatesFollowSequences
  <2>1. RequestOf(s) \in Requests
    BY RequestOfFacts
  <2>2. RequestOf(s) # r /\ status'[RequestOf(s)] = status[RequestOf(s)]
    BY <1>3, <2>1
  <2>3. s \notin ToSet(Family[r])
    BY <2>2, FamilyFacts
  <2>4. expect'[s] = expect[s]
    BY <1>2, <2>3
  <2> QED BY <1>1, <1>2, <2>2, <2>4 DEF StatesFollowSequences
<1>12. RequestInv'
  BY <1>8 DEF RequestInv
<1> QED BY <1>6, <1>7, <1>9, <1>10, <1>11, <1>12 DEF IInv

LEMMA PreemptInv ==
  ASSUME IInv, NEW r \in Requests, Preempt(r)
  PROVE  IInv'
<1>1. /\ TypeOK /\ state \in [Slots -> Seq(Seqs)] /\ expect \in [Seqs -> Seq(Seqs)]
      /\ IndexInv /\ RequestInv /\ BatchInv /\ RoomInv /\ StatesFollowSequences
  BY DEF IInv, TypeInv
<1>2. /\ batch = << >> /\ status[r] = "running" /\ Len(Family[r]) = 1
      /\ status' = [status EXCEPT ![r] = "preempted"]
      /\ preempted' = preempted \cup {r}
      /\ expect' = [expect EXCEPT ![Parent(r)] = << >>]
      /\ index' = index /\ state' = state /\ forked' = forked
      /\ batch' = batch /\ pos' = pos
  BY DEF Preempt
<1>3. \A q \in Requests : status'[q] = IF q = r THEN "preempted" ELSE status[q]
  BY <1>1, <1>2 DEF TypeOK
<1>4. ToSet(batch) = {}
  <2>1. DOMAIN << >> = {}
    OBVIOUS
  <2> QED BY <1>2, <2>1 DEF ToSet
<1>5. r \in forked
  <2>1. RequestOK(r)
    BY <1>1 DEF RequestInv
  <2> QED BY <1>2, <1>4, <2>1 DEF RequestOK
<1>6. Parent(r) \in Seqs /\ Parent(r) \in ToSet(Family[r])
  BY FamilyFacts
<1>7. ToSet(Family[r]) = {Parent(r)}
  <2>1. DOMAIN Family[r] = {1}
    <3>1. DOMAIN Family[r] = 1 .. 1
      BY <1>2, FamilyFacts
    <3> QED BY <3>1
  <2>2. ToSet(Family[r]) = {Family[r][1]}
    BY <2>1 DEF ToSet
  <2> QED BY <1>6, <2>2
<1>8. TypeInv'
  <2>1. status' \in [Requests -> Statuses]
    BY <1>1, <1>2 DEF TypeOK, Statuses
  <2>2. << >> \in Seq(Seqs)
    OBVIOUS
  <2>3. expect' \in [Seqs -> Seq(Seqs)]
    BY <1>1, <1>2, <1>6, <2>2
  <2>4. preempted' \subseteq Requests
    BY <1>1, <1>2 DEF TypeOK
  <2> QED BY <1>1, <1>2, <2>1, <2>3, <2>4 DEF TypeOK, TypeInv
<1>9. IndexInv'
  BY <1>1, <1>2 DEF IndexInv
<1>10. \A s \in Seqs : s # Parent(r) => expect'[s] = expect[s]
  BY <1>1, <1>2
<1>11. ASSUME NEW q \in Requests PROVE RequestOK(q)'
  <2>1. RequestOK(q) /\ \A s \in ToSet(Family[q]) : s \in Seqs /\ RequestOf(s) = q
    BY <1>1, FamilyFacts DEF RequestInv
  <2>2. Parent(q) \in ToSet(Family[q])
    BY FamilyFacts
  <2>3. CASE q = r
    <3>1. \A s \in ToSet(Family[q]) : s = Parent(q)
      BY <1>7, <2>3
    <3>2. status'[q] = "preempted" /\ q \in forked'
      BY <1>2, <1>3, <1>5, <2>3
    <3>3. index'[Parent(q)] # None
      BY <1>2, <1>5, <2>1, <2>3 DEF RequestOK
    <3> QED BY <3>1, <3>2, <3>3 DEF RequestOK, Parent
  <2>4. CASE q # r
    <3>1. \A s \in ToSet(Family[q]) : s \notin ToSet(Family[r])
      BY <2>4, MambaAssumption
    <3>2. \A s \in ToSet(Family[q]) : expect'[s] = expect[s]
      BY <1>6, <1>10, <2>1, <3>1
    <3>3. status'[q] = status[q]
      BY <1>3, <2>4
    <3> QED BY <1>2, <2>1, <2>2, <3>2, <3>3 DEF RequestOK, Parent
  <2> QED BY <2>3, <2>4
<1>12. BatchInv'
  BY <1>1, <1>2, <1>4 DEF BatchInv
<1>13. RoomInv'
  <2>1. /\ With("running")' = With("running") \ {r}
        /\ With("preempted")' = With("preempted") \cup {r}
        /\ r \in With("running")
    BY <1>2, <1>3 DEF With
  <2>2. With("running")' \cup With("preempted")' = With("running") \cup With("preempted")
    BY <2>1
  <2>3. PICK run \in SUBSET Requests : run = With("running")
    BY DEF With
  <2>4. NumSeqs(run \ {r}) <= NumSeqs(run)
    BY FewerRequests
  <2>5. NumSeqs(run \ {r}) \in Nat /\ NumSeqs(run) \in Nat
    BY FamiliesFinite
  <2>6. NumSeqs(run) <= NumSlots
    BY <1>1, <2>3 DEF RoomInv
  <2>7. NumSeqs(With("running")') <= NumSlots
    <3>1. NumSeqs(run \ {r}) <= NumSlots
      BY <2>4, <2>5, <2>6, MambaAssumption
    <3>2. With("running")' = run \ {r}
      BY <2>1, <2>3
    <3> QED BY <3>1, <3>2
  <2>8. ~Priority => NumSeqs(With("running")' \cup With("preempted")') <= NumSlots
    BY <1>1, <2>2 DEF RoomInv
  <2> QED BY <2>7, <2>8 DEF RoomInv
<1>14. StatesFollowSequences'
  <2> SUFFICES ASSUME NEW s \in Seqs, index'[s] # None, status'[RequestOf(s)] # "finished",
                      RequestOf(s) \notin preempted'
               PROVE  state'[index'[s]] = expect'[s]
    BY DEF StatesFollowSequences
  <2>1. RequestOf(s) \in Requests
    BY RequestOfFacts
  <2>2. RequestOf(s) # r /\ RequestOf(s) \notin preempted
    BY <1>2
  <2>3. status'[RequestOf(s)] = status[RequestOf(s)]
    BY <1>3, <2>1, <2>2
  <2>4. s # Parent(r)
    BY <1>6, <2>2, FamilyFacts
  <2>5. expect'[s] = expect[s]
    BY <1>10, <2>4
  <2> QED BY <1>1, <1>2, <2>2, <2>3, <2>5 DEF StatesFollowSequences
<1>15. RequestInv'
  BY <1>11 DEF RequestInv
<1> QED BY <1>8, <1>9, <1>12, <1>13, <1>14, <1>15 DEF IInv


-----------------------------------------------------------------------------
(* Bringing the sequences of a batch to their slots.                       *)

LEMMA PlaceFacts ==
  ASSUME IInv, Assigning
  PROVE  /\ pos \in Nat /\ Len(batch) \in Nat /\ Dest \in Slots /\ Dest # None
         /\ pos + 1 \in 1 .. Len(batch) /\ pos + 1 \in DOMAIN batch
         /\ Current \in Seqs /\ Current \in ToSet(batch)
         /\ RequestOf(Current) \in Requests
         /\ Current \in ToSet(Family[RequestOf(Current)])
         /\ BatchedOK(Current)
         /\ \A i \in 1 .. pos : /\ i \in DOMAIN batch /\ batch[i] \in Seqs /\ batch[i] # Current
                                /\ index[batch[i]] = i - 1
                                /\ index[batch[i]] # Dest
<1>1. TypeOK /\ BatchInv
  BY DEF IInv, TypeInv
<1>2. batch \in Seq(Seqs) /\ pos \in 0 .. Len(batch) /\ pos < Len(batch)
  BY <1>1 DEF Assigning, TypeOK
<1>3. Len(batch) \in Nat /\ DOMAIN batch = 1 .. Len(batch) /\ pos \in Nat
  BY <1>2
<1>4. Dest \in Slots /\ Dest # None
  <2>1. Len(batch) <= NumSlots
    BY <1>1 DEF BatchInv
  <2>2. Dest \in Slots
    BY <1>2, <1>3, <2>1, MambaAssumption DEF Dest, Slots
  <2> QED BY <2>2, MambaAssumption
<1>5. pos + 1 \in 1 .. Len(batch) /\ pos + 1 \in DOMAIN batch
  BY <1>2, <1>3
<1>6. Current \in Seqs /\ Current \in ToSet(batch)
  BY <1>2, <1>5 DEF Current, ToSet
<1>7. BatchedOK(Current)
  BY <1>1, <1>6 DEF BatchInv
<1>8. ASSUME NEW i \in 1 .. pos
      PROVE  /\ i \in DOMAIN batch /\ batch[i] \in Seqs /\ batch[i] # Current
             /\ index[batch[i]] = i - 1
             /\ index[batch[i]] # Dest
  <2>1. i \in DOMAIN batch /\ i # pos + 1 /\ i \in Nat
    BY <1>2, <1>3
  <2>2. batch[i] \in Seqs
    BY <1>2, <2>1
  <2>3. batch[i] # Current
    BY <1>1, <1>5, <2>1 DEF BatchInv, IsInjective, Current
  <2>4. index[batch[i]] = i - 1
    BY <1>1 DEF BatchInv
  <2>5. i - 1 # Dest
    BY <1>3 DEF Dest
  <2> QED BY <2>1, <2>2, <2>3, <2>4, <2>5
<1> QED BY <1>3, <1>4, <1>5, <1>6, <1>7, <1>8, RequestOfFacts

\* What every placement has to do: only the current sequence gains or changes
\* a slot of its own; the others' states go where they go.
LEMMA PlacementInv ==
  ASSUME IInv, Assigning,
         UNCHANGED <<status, forked, preempted, batch, expect>>, pos' = pos + 1,
         index' \in [Seqs -> Slots \cup {None}], state' \in [Slots -> Seq(Seqs)],
         \A i \in Slots : Len(state'[i]) <= MaxForwards,
         \A s, t \in Seqs : index'[s] # None /\ index'[s] = index'[t] => s = t,
         index'[Current] = Dest,
         \A s \in Seqs : s # Current => (index[s] = None <=> index'[s] = None),
         \A s \in Seqs : s # Current /\ index[s] # None => state'[index'[s]] = state[index[s]],
         \A i \in 1 .. pos : index'[batch[i]] = index[batch[i]],
         Len(state'[Dest]) < MaxForwards,
         RequestOf(Current) \notin preempted => state'[Dest] = expect[Current]
  PROVE  IInv'
<1>1. /\ TypeOK /\ state \in [Slots -> Seq(Seqs)] /\ expect \in [Seqs -> Seq(Seqs)]
      /\ IndexInv /\ RequestInv /\ BatchInv /\ RoomInv /\ StatesFollowSequences
  BY DEF IInv, TypeInv
<1>2. /\ status' = status /\ forked' = forked /\ preempted' = preempted
      /\ batch' = batch /\ expect' = expect
  OBVIOUS
<1>3. /\ pos \in Nat /\ Len(batch) \in Nat /\ Dest \in Slots /\ Dest # None
      /\ pos + 1 \in 1 .. Len(batch)
      /\ Current \in Seqs /\ Current \in ToSet(batch)
      /\ RequestOf(Current) \in Requests
      /\ Current \in ToSet(Family[RequestOf(Current)])
      /\ BatchedOK(Current)
      /\ \A i \in 1 .. pos : batch[i] \in Seqs /\ batch[i] # Current /\ index[batch[i]] = i - 1
  BY PlaceFacts
<1>4. PICK c \in Seqs : c = Current
  BY <1>3
<1>5. PICK d \in Slots : d = Dest /\ d # None
  BY <1>3
<1>6. TypeInv'
  <2>1. pos' \in 0 .. Len(batch')
    BY <1>2, <1>3
  <2> QED BY <1>1, <1>2, <2>1 DEF TypeInv, TypeOK
<1>7. IndexInv'
  BY DEF IndexInv
<1>8. ASSUME NEW r \in Requests PROVE RequestOK(r)'
  <2>1. RequestOK(r) /\ \A s \in ToSet(Family[r]) : s \in Seqs /\ RequestOf(s) = r
    BY <1>1, FamilyFacts DEF RequestInv
  <2>2. Parent(r) \in ToSet(Family[r])
    BY FamilyFacts
  <2>3. \A s \in ToSet(Family[r]) : index[s] # None => index'[s] # None
    BY <1>3, <2>1
  <2>4. \A s \in ToSet(Family[r]) : index'[s] # None => index[s] # None \/ s = c
    BY <1>4, <2>1
  <2>5. ASSUME r \notin forked, c \in ToSet(Family[r]) PROVE c = Parent(r) /\ status[r] = "running"
    <3>1. RequestOf(c) = r
      BY <2>1, <2>5
    <3>2. status[r] = "running" /\ c \in ToSet(LiveSeqs(r))
      BY <1>3, <1>4, <3>1 DEF BatchedOK
    <3> QED BY <2>5, <3>2, LiveFacts
  <2>6. r \notin forked =>
          \A s \in ToSet(Family[r]) : index'[s] # None => s = Parent(r) /\ status[r] = "running"
    BY <2>1, <2>4, <2>5 DEF RequestOK
  <2> QED BY <1>2, <2>1, <2>2, <2>3, <2>6 DEF RequestOK, Parent
<1>9. ASSUME NEW s \in ToSet(batch) PROVE BatchedOK(s)'
  <2>1. BatchedOK(s)
    BY <1>1 DEF BatchInv
  <2>2. s \in Seqs
    <3>1. batch \in Seq(Seqs)
      BY <1>1 DEF TypeOK
    <3> QED BY <3>1 DEF ToSet
  <2>3. LiveSeqs(RequestOf(s))' = LiveSeqs(RequestOf(s))
    BY <1>2 DEF LiveSeqs, Parent
  <2>4. index'[s] # None => Len(state'[index'[s]]) < MaxForwards
    <3>1. CASE s = c
      BY <1>4, <3>1
    <3>2. CASE s # c
      <4> SUFFICES ASSUME index'[s] # None PROVE Len(state'[index'[s]]) < MaxForwards
        OBVIOUS
      <4>1. index[s] # None /\ state'[index'[s]] = state[index[s]]
        BY <1>4, <2>2, <3>2
      <4> QED BY <2>1, <4>1 DEF BatchedOK
    <3> QED BY <3>1, <3>2
  <2> QED BY <1>2, <2>1, <2>3, <2>4 DEF BatchedOK
<1>10. BatchInv'
  <2>1. ASSUME NEW i \in 1 .. pos' PROVE index'[batch'[i]] = i - 1
    <3>1. CASE i = pos + 1
      <4>1. batch'[i] = Current
        BY <1>2, <3>1 DEF Current
      <4>2. i - 1 = Dest
        BY <1>3, <3>1 DEF Dest
      <4> QED BY <4>1, <4>2
    <3>2. CASE i # pos + 1
      <4>1. i \in 1 .. pos
        BY <1>3, <3>2
      <4> QED BY <1>2, <1>3, <4>1
    <3> QED BY <3>1, <3>2
  <2>2. With("finished")' = With("finished")
    BY <1>2 DEF With
  <2> QED BY <1>1, <1>2, <1>9, <2>1, <2>2 DEF BatchInv
<1>11. RoomInv'
  BY <1>1, <1>2 DEF RoomInv, With
<1>12. StatesFollowSequences'
  <2> SUFFICES ASSUME NEW s \in Seqs, index'[s] # None, status[RequestOf(s)] # "finished",
                      RequestOf(s) \notin preempted
               PROVE  state'[index'[s]] = expect[s]
    BY <1>2 DEF StatesFollowSequences
  <2>1. CASE s = Current
    BY <2>1
  <2>2. CASE s # Current
    <3>1. index[s] # None /\ state'[index'[s]] = state[index[s]]
      BY <2>2
    <3> QED BY <1>1, <3>1 DEF StatesFollowSequences
  <2> QED BY <2>1, <2>2
<1>13. RequestInv'
  BY <1>8 DEF RequestInv
<1> QED BY <1>6, <1>7, <1>10, <1>11, <1>12, <1>13 DEF IInv

\* Moving the occupant away separates nobody from his state, and frees Dest.
LEMMA Moved ==
  ASSUME IInv, Assigning, NEW to \in Slots, MoveTarget(to)
  PROVE  /\ MovedIndex(to) \in [Seqs -> Slots \cup {None}]
         /\ MovedState(to) \in [Slots -> Seq(Seqs)]
         /\ \A i \in Slots : Len(MovedState(to)[i]) <= MaxForwards
         /\ \A s \in Seqs :
              /\ MovedIndex(to)[s] # Dest
              /\ MovedIndex(to)[s] = None <=> index[s] = None
              /\ index[s] # Dest => MovedIndex(to)[s] = index[s]
              /\ index[s] # None => MovedState(to)[MovedIndex(to)[s]] = state[index[s]]
         /\ \A s, t \in Seqs :
              MovedIndex(to)[s] # None /\ MovedIndex(to)[s] = MovedIndex(to)[t] => s = t
<1>1. /\ index \in [Seqs -> Slots \cup {None}] /\ state \in [Slots -> Seq(Seqs)]
      /\ \A i \in Slots : Len(state[i]) <= MaxForwards
      /\ \A s, t \in Seqs : index[s] # None /\ index[s] = index[t] => s = t
  BY DEF IInv, TypeInv, TypeOK, IndexInv
<1>2. Dest \in Slots /\ Dest # None /\ to # None
  BY PlaceFacts, MambaAssumption
<1>3. \A s \in Seqs : index[s] # None => index[s] \in Occupied
  BY DEF Occupied
<1>4. CASE Dest \in Occupied
  <2>1. to \notin Occupied
    BY <1>4 DEF MoveTarget, IsFirstFree
  <2>2. to # Dest
    BY <1>4, <2>1
  <2>3. \A s \in Seqs : index[s] # to
    BY <1>2, <1>3, <2>1
  <2>4. MovedIndex(to) \in [Seqs -> Slots \cup {None}]
    BY <1>1 DEF MovedIndex
  <2>5. \A s \in Seqs : MovedIndex(to)[s] = IF index[s] = Dest THEN to ELSE index[s]
    BY DEF MovedIndex
  <2>6. MovedState(to) = [state EXCEPT ![to] = state[Dest]]
    BY <1>4 DEF MovedState
  <2>7. MovedState(to) \in [Slots -> Seq(Seqs)]
    BY <1>1, <1>2, <2>6
  <2>8. \A i \in Slots : MovedState(to)[i] = IF i = to THEN state[Dest] ELSE state[i]
    BY <1>1, <2>6
  <2>9. \A i \in Slots : Len(MovedState(to)[i]) <= MaxForwards
    BY <1>1, <1>2, <2>8
  <2>10. ASSUME NEW s \in Seqs
         PROVE  /\ MovedIndex(to)[s] # Dest
                /\ MovedIndex(to)[s] = None <=> index[s] = None
                /\ index[s] # Dest => MovedIndex(to)[s] = index[s]
                /\ index[s] # None => MovedState(to)[MovedIndex(to)[s]] = state[index[s]]
    <3>1. index[s] # None => index[s] \in Slots
      BY <1>1
    <3> QED BY <1>2, <2>2, <2>3, <2>5, <2>8, <3>1
  <2>11. ASSUME NEW s \in Seqs, NEW t \in Seqs, MovedIndex(to)[s] # None,
                MovedIndex(to)[s] = MovedIndex(to)[t]
         PROVE  s = t
    <3>1. index[s] # None /\ index[s] = index[t]
      BY <1>2, <2>3, <2>5, <2>11
    <3> QED BY <1>1, <3>1
  <2> QED BY <2>4, <2>7, <2>9, <2>10, <2>11
<1>5. CASE Dest \notin Occupied
  <2>1. \A s \in Seqs : index[s] # Dest
    BY <1>2, <1>3, <1>5
  <2>2. MovedState(to) = state
    BY <1>5 DEF MovedState
  <2>3. \A s \in Seqs : MovedIndex(to)[s] = index[s]
    BY <2>1 DEF MovedIndex
  <2>4. MovedIndex(to) \in [Seqs -> Slots \cup {None}]
    BY <1>1 DEF MovedIndex
  <2> QED BY <1>1, <2>1, <2>2, <2>3, <2>4
<1> QED BY <1>4, <1>5

\* A sequence without slot gets Dest with the log it should have.
LEMMA NewPlaceInv ==
  ASSUME IInv, Assigning, NEW to \in Slots, MoveTarget(to), NEW log \in Seq(Seqs),
         UNCHANGED <<status, forked, preempted, batch, expect>>, pos' = pos + 1,
         index[Current] = None,
         index' = [MovedIndex(to) EXCEPT ![Current] = Dest],
         state' = [MovedState(to) EXCEPT ![Dest] = log],
         Len(log) < MaxForwards,
         RequestOf(Current) \notin preempted => log = expect[Current]
  PROVE  IInv'
<1>1. /\ MovedIndex(to) \in [Seqs -> Slots \cup {None}]
      /\ MovedState(to) \in [Slots -> Seq(Seqs)]
      /\ \A i \in Slots : Len(MovedState(to)[i]) <= MaxForwards
      /\ \A s \in Seqs :
           /\ MovedIndex(to)[s] # Dest
           /\ MovedIndex(to)[s] = None <=> index[s] = None
           /\ index[s] # Dest => MovedIndex(to)[s] = index[s]
           /\ index[s] # None => MovedState(to)[MovedIndex(to)[s]] = state[index[s]]
      /\ \A s, t \in Seqs :
           MovedIndex(to)[s] # None /\ MovedIndex(to)[s] = MovedIndex(to)[t] => s = t
  BY Moved
<1>2. /\ Dest \in Slots /\ Dest # None /\ Current \in Seqs
      /\ \A i \in 1 .. pos : /\ batch[i] \in Seqs /\ batch[i] # Current
                             /\ index[batch[i]] # Dest
  BY PlaceFacts
<1>3. PICK mi \in [Seqs -> Slots \cup {None}] : mi = MovedIndex(to)
  BY <1>1
<1>4. PICK ms \in [Slots -> Seq(Seqs)] : ms = MovedState(to)
  BY <1>1
<1>5. index' \in [Seqs -> Slots \cup {None}] /\ state' \in [Slots -> Seq(Seqs)]
  BY <1>2, <1>3, <1>4
<1>6. /\ index'[Current] = Dest
      /\ \A s \in Seqs : s # Current => index'[s] = mi[s]
  BY <1>2, <1>3
<1>7. /\ state'[Dest] = log
      /\ \A i \in Slots : i # Dest => state'[i] = ms[i]
  BY <1>2, <1>4
<1>8. \A i \in Slots : Len(state'[i]) <= MaxForwards
  <2> SUFFICES ASSUME NEW i \in Slots PROVE Len(state'[i]) <= MaxForwards
    OBVIOUS
  <2>1. CASE i = Dest
    <3>1. Len(log) \in Nat
      OBVIOUS
    <3>2. Len(log) <= MaxForwards
      BY <3>1, MambaAssumption
    <3> QED BY <1>7, <2>1, <3>2
  <2>2. CASE i # Dest
    BY <1>1, <1>4, <1>7, <2>2
  <2> QED BY <2>1, <2>2
<1>9. \A s, t \in Seqs : index'[s] # None /\ index'[s] = index'[t] => s = t
  BY <1>1, <1>2, <1>3, <1>6
<1>10. \A s \in Seqs : s # Current => (index[s] = None <=> index'[s] = None)
  BY <1>1, <1>3, <1>6
<1>11. ASSUME NEW s \in Seqs, s # Current, index[s] # None
       PROVE  state'[index'[s]] = state[index[s]]
  <2>1. index'[s] = mi[s] /\ mi[s] # Dest /\ mi[s] # None
    BY <1>1, <1>3, <1>6, <1>11
  <2>2. mi[s] \in Slots
    BY <2>1
  <2>3. ms[mi[s]] = state[index[s]]
    BY <1>1, <1>3, <1>4, <1>11
  <2> QED BY <1>7, <2>1, <2>2, <2>3
<1>12. \A i \in 1 .. pos : index'[batch[i]] = index[batch[i]]
  BY <1>1, <1>2, <1>3, <1>6
<1>13. Len(state'[Dest]) < MaxForwards
  BY <1>7
<1>14. RequestOf(Current) \notin preempted => state'[Dest] = expect[Current]
  BY <1>7
<1> QED BY <1>5, <1>6, <1>8, <1>9, <1>10, <1>11, <1>12, <1>13, <1>14, PlacementInv


LEMMA AssignNewInv ==
  ASSUME IInv, NEW to \in Slots, AssignNew(to)
  PROVE  IInv'
<1>1. /\ Assigning /\ MoveTarget(to) /\ Mapped(RequestOf(Current)) = {}
      /\ index' = [MovedIndex(to) EXCEPT ![Current] = Dest]
      /\ state' = [MovedState(to) EXCEPT ![Dest] = << >>]
      /\ pos' = pos + 1
      /\ UNCHANGED <<status, forked, preempted, batch, expect>>
  BY DEF AssignNew
<1>2. PICK r \in Requests : r = RequestOf(Current)
  BY <1>1, PlaceFacts
<1>3. Current \in ToSet(Family[r]) /\ Parent(r) \in ToSet(Family[r])
  BY <1>1, <1>2, PlaceFacts, FamilyFacts
<1>4. \A s \in ToSet(Family[r]) : index[s] = None
  BY <1>1, <1>2 DEF Mapped
<1>5. RequestOK(r)
  BY DEF IInv, RequestInv
<1>6. expect[Current] = << >>
  BY <1>3, <1>4, <1>5 DEF RequestOK
<1>7. << >> \in Seq(Seqs) /\ Len(<< >>) < MaxForwards
  BY MambaAssumption
<1>8. index[Current] = None
  BY <1>3, <1>4
<1> QED BY <1>1, <1>6, <1>7, <1>8, NewPlaceInv

LEMMA AssignSiblingInv ==
  ASSUME IInv, NEW to \in Slots, AssignSibling(to)
  PROVE  IInv'
<1>1. /\ Assigning /\ MoveTarget(to) /\ Mapped(RequestOf(Current)) # {}
      /\ index[Current] = None
      /\ index' = [MovedIndex(to) EXCEPT ![Current] = Dest]
      /\ state' = [MovedState(to) EXCEPT
                     ![Dest] = MovedState(to)[MovedIndex(to)[Parent(RequestOf(Current))]]]
      /\ pos' = pos + 1
      /\ UNCHANGED <<status, forked, preempted, batch, expect>>
  BY DEF AssignSibling
<1>2. PICK r \in Requests : r = RequestOf(Current)
  BY <1>1, PlaceFacts
<1>3. /\ Current \in ToSet(Family[r]) /\ Parent(r) \in ToSet(Family[r]) /\ Parent(r) \in Seqs
      /\ RequestOf(Parent(r)) = r
  BY <1>1, <1>2, PlaceFacts, FamilyFacts
<1>4. /\ RequestOK(r) /\ StatesFollowSequences
      /\ index \in [Seqs -> Slots \cup {None}] /\ state \in [Slots -> Seq(Seqs)]
  BY DEF IInv, TypeInv, TypeOK, RequestInv
<1>5. BatchedOK(Current)
  BY <1>1, PlaceFacts
<1>6. status[r] = "running" /\ Current \in ToSet(LiveSeqs(r)) /\ ToSet(LiveSeqs(r)) \subseteq ToSet(batch)
  BY <1>2, <1>5 DEF BatchedOK
<1>7. r \in forked
  <2> SUFFICES ASSUME r \notin forked PROVE FALSE
    OBVIOUS
  <2>1. Current = Parent(r)
    BY <1>6, LiveFacts
  <2>2. \A s \in ToSet(Family[r]) : index[s] # None => s = Parent(r)
    BY <1>4 DEF RequestOK
  <2> QED BY <1>1, <1>2, <2>1, <2>2 DEF Mapped
<1>8. index[Parent(r)] # None /\ expect[Current] = expect[Parent(r)]
  BY <1>1, <1>3, <1>4, <1>6, <1>7 DEF RequestOK
<1>9. PICK log : log = MovedState(to)[MovedIndex(to)[Parent(r)]]
  OBVIOUS
<1>10. log = state[index[Parent(r)]] /\ log \in Seq(Seqs)
  <2>1. log = state[index[Parent(r)]]
    BY <1>1, <1>3, <1>8, <1>9, Moved
  <2> QED BY <1>3, <1>4, <1>8, <2>1
<1>11. Len(log) < MaxForwards
  <2>1. Parent(r) \in ToSet(batch)
    BY <1>6, LiveFacts
  <2>2. BatchedOK(Parent(r))
    BY <2>1 DEF IInv, BatchInv
  <2> QED BY <1>8, <1>10, <2>2 DEF BatchedOK
<1>12. RequestOf(Current) \notin preempted => log = expect[Current]
  BY <1>2, <1>3, <1>4, <1>6, <1>8, <1>10 DEF StatesFollowSequences
<1>13. state' = [MovedState(to) EXCEPT ![Dest] = log]
  BY <1>1, <1>2, <1>9
<1> QED BY <1>1, <1>10, <1>11, <1>12, <1>13, NewPlaceInv

LEMMA AssignExistingInv ==
  ASSUME IInv, AssignExisting
  PROVE  IInv'
<1>1. /\ Assigning /\ index[Current] # None
      /\ index' = SwappedIndex(index[Current], Dest)
      /\ state' = [state EXCEPT ![Dest] = state[index[Current]], ![index[Current]] = state[Dest]]
      /\ pos' = pos + 1
      /\ UNCHANGED <<status, forked, preempted, batch, expect>>
  BY DEF AssignExisting
<1>2. /\ index \in [Seqs -> Slots \cup {None}] /\ state \in [Slots -> Seq(Seqs)]
      /\ \A i \in Slots : Len(state[i]) <= MaxForwards
      /\ \A s, t \in Seqs : index[s] # None /\ index[s] = index[t] => s = t
      /\ StatesFollowSequences
  BY DEF IInv, TypeInv, TypeOK, IndexInv
<1>3. /\ Dest \in Slots /\ Dest # None /\ Current \in Seqs /\ BatchedOK(Current)
      /\ \A i \in 1 .. pos : batch[i] \in Seqs /\ batch[i] # Current /\ index[batch[i]] # Dest
  BY <1>1, PlaceFacts
<1>4. PICK from \in Slots : from = index[Current]
  BY <1>1, <1>2, <1>3
<1>5. PICK d \in Slots : d = Dest /\ d # None /\ from # None
  BY <1>1, <1>3, <1>4
<1>6. ASSUME NEW s \in Seqs
      PROVE  /\ index[s] = from => index'[s] = d
             /\ index[s] = d => index'[s] = from
             /\ index[s] # from /\ index[s] # d => index'[s] = index[s]
  <2>1. index'[s] = CASE index[s] = from -> d
                      [] index[s] = d -> from
                      [] OTHER -> index[s]
    BY <1>1, <1>4, <1>5 DEF SwappedIndex
  <2> QED BY <2>1
<1>7. index' \in [Seqs -> Slots \cup {None}]
  <2>1. index' = [s \in Seqs |-> index'[s]]
    BY <1>1 DEF SwappedIndex
  <2>2. \A s \in Seqs : index'[s] \in Slots \cup {None}
    BY <1>2, <1>6
  <2> QED BY <2>1, <2>2
<1>8. state' \in [Slots -> Seq(Seqs)]
  BY <1>1, <1>2, <1>4, <1>5
<1>9. \A i \in Slots : state'[i] = IF i = from THEN state[d] ELSE IF i = d THEN state[from] ELSE state[i]
  BY <1>1, <1>2, <1>4, <1>5
<1>10. \A i \in Slots : Len(state'[i]) <= MaxForwards
  BY <1>2, <1>9
<1>11. \A s, t \in Seqs : index'[s] # None /\ index'[s] = index'[t] => s = t
  <2> SUFFICES ASSUME NEW s \in Seqs, NEW t \in Seqs, index'[s] # None, index'[s] = index'[t]
               PROVE  s = t
    OBVIOUS
  <2>1. index[s] # None /\ index[s] = index[t]
    BY <1>5, <1>6
  <2> QED BY <1>2, <2>1
<1>12. index'[Current] = Dest
  BY <1>3, <1>4, <1>5, <1>6
<1>13. \A s \in Seqs : s # Current => (index[s] = None <=> index'[s] = None)
  BY <1>5, <1>6
<1>14. ASSUME NEW s \in Seqs, index[s] # None PROVE state'[index'[s]] = state[index[s]]
  <2>1. index[s] \in Slots
    BY <1>2, <1>14
  <2> QED BY <1>6, <1>9, <2>1
<1>15. ASSUME NEW i \in 1 .. pos PROVE index'[batch[i]] = index[batch[i]]
  <2>1. batch[i] \in Seqs /\ index[batch[i]] # d /\ index[batch[i]] # from
    BY <1>1, <1>2, <1>3, <1>4, <1>5
  <2> QED BY <1>6, <2>1
<1>16. state'[Dest] = state[index[Current]]
  BY <1>1, <1>3, <1>12, <1>14
<1>17. Len(state'[Dest]) < MaxForwards
  BY <1>1, <1>3, <1>16 DEF BatchedOK
<1>18. RequestOf(Current) \notin preempted => state'[Dest] = expect[Current]
  BY <1>1, <1>2, <1>3, <1>16 DEF BatchedOK, StatesFollowSequences
<1>19. \A s \in Seqs : s # Current /\ index[s] # None => state'[index'[s]] = state[index[s]]
  BY <1>14
<1>20. \A i \in 1 .. pos : index'[batch[i]] = index[batch[i]]
  BY <1>15
<1> QED BY <1>1, <1>7, <1>8, <1>10, <1>11, <1>12, <1>13, <1>17, <1>18, <1>19, <1>20, PlacementInv

\* The pass writes to the slots of its batch, and to no other sequence's.
LEMMA RunInv ==
  ASSUME IInv, Run
  PROVE  IInv'
<1>1. /\ TypeOK /\ state \in [Slots -> Seq(Seqs)] /\ expect \in [Seqs -> Seq(Seqs)]
      /\ IndexInv /\ RequestInv /\ BatchInv /\ RoomInv /\ StatesFollowSequences
  BY DEF IInv, TypeInv
<1>2. /\ batch # << >> /\ pos = Len(batch) /\ batch' = << >> /\ pos' = 0
      /\ index' = index /\ status' = status /\ preempted' = preempted
  BY DEF Run, Ready
<1>3. batch \in Seq(Seqs) /\ Len(batch) \in Nat /\ DOMAIN batch = 1 .. Len(batch)
  BY <1>1 DEF TypeOK
<1>4. PICK started : started = {RequestOf(s) : s \in ToSet(batch)}
  OBVIOUS
<1>5. /\ state' = [i \in Slots |-> IF i < Len(batch) THEN Append(state[i], batch[i + 1]) ELSE state[i]]
      /\ forked' = forked \cup started
  BY <1>4 DEF Run
<1>6. \A s \in ToSet(batch) : s \in Seqs /\ BatchedOK(s) /\ RequestOf(s) \in started
  <2>1. \A s \in ToSet(batch) : s \in Seqs
    BY <1>3 DEF ToSet
  <2>2. \A s \in ToSet(batch) : BatchedOK(s)
    BY <1>1 DEF BatchInv
  <2> QED BY <1>4, <2>1, <2>2
<1>7. started \subseteq Requests
  BY <1>4, <1>6, RequestOfFacts
<1>8. \A i \in DOMAIN batch : batch[i] \in ToSet(batch) /\ index[batch[i]] = i - 1
  BY <1>1, <1>2, <1>3 DEF BatchInv, ToSet
<1>9. \A s \in ToSet(batch) : \E i \in DOMAIN batch : s = batch[i] /\ index[s] = i - 1
  BY <1>8 DEF ToSet
<1>10. PICK logOf \in [Seqs -> Seq(Seqs)] :
         \A s \in Seqs : logOf[s] = IF s \in ToSet(batch) THEN Append(expect[s], s) ELSE expect[s]
  <2> DEFINE f == [s \in Seqs |-> IF s \in ToSet(batch) THEN Append(expect[s], s) ELSE expect[s]]
  <2>1. \A s \in Seqs : Append(expect[s], s) \in Seq(Seqs)
    BY <1>1
  <2>2. f \in [Seqs -> Seq(Seqs)]
    BY <1>1, <2>1
  <2>3. \A s \in Seqs : f[s] = IF s \in ToSet(batch) THEN Append(expect[s], s) ELSE expect[s]
    OBVIOUS
  <2> HIDE DEF f
  <2> QED BY <2>2, <2>3
<1>11. \A s \in Seqs : RequestOf(s) \in Requests /\ Parent(RequestOf(s)) \in Seqs
  BY RequestOfFacts, FamilyFacts
<1>12. expect' = [s \in Seqs |-> IF RequestOf(s) \in started \ forked
                                 THEN logOf[Parent(RequestOf(s))] ELSE logOf[s]]
  <2>1. expect' = [s \in Seqs |->
                    IF RequestOf(s) \in started \ forked
                    THEN IF Parent(RequestOf(s)) \in ToSet(batch)
                         THEN Append(expect[Parent(RequestOf(s))], Parent(RequestOf(s)))
                         ELSE expect[Parent(RequestOf(s))]
                    ELSE IF s \in ToSet(batch) THEN Append(expect[s], s) ELSE expect[s]]
    BY <1>4 DEF Run
  <2> QED BY <1>10, <1>11, <2>1
<1>13. expect' \in [Seqs -> Seq(Seqs)]
  BY <1>10, <1>11, <1>12
<1>14. \A i \in Slots : i < Len(batch) => /\ i + 1 \in DOMAIN batch
                                          /\ batch[i + 1] \in ToSet(batch) /\ batch[i + 1] \in Seqs
                                          /\ index[batch[i + 1]] = i
                                          /\ Len(state[i]) < MaxForwards
  <2> SUFFICES ASSUME NEW i \in Slots, i < Len(batch)
               PROVE  /\ i + 1 \in DOMAIN batch
                      /\ batch[i + 1] \in ToSet(batch) /\ batch[i + 1] \in Seqs
                      /\ index[batch[i + 1]] = i
                      /\ Len(state[i]) < MaxForwards
    OBVIOUS
  <2>1. i \in Nat /\ i + 1 \in DOMAIN batch /\ (i + 1) - 1 = i
    BY <1>3, MambaAssumption DEF Slots
  <2>2. batch[i + 1] \in ToSet(batch) /\ index[batch[i + 1]] = i
    BY <1>8, <2>1
  <2>3. i # None
    BY MambaAssumption
  <2>4. Len(state[i]) < MaxForwards
    BY <1>6, <2>2, <2>3 DEF BatchedOK
  <2> QED BY <1>6, <2>1, <2>2, <2>4
<1>15. \A i \in Slots : /\ i < Len(batch) => state'[i] = Append(state[i], batch[i + 1])
                        /\ ~(i < Len(batch)) => state'[i] = state[i]
  BY <1>5
<1>16. \A i \in Slots : state'[i] \in Seq(Seqs) /\ Len(state'[i]) <= MaxForwards
  <2> SUFFICES ASSUME NEW i \in Slots PROVE state'[i] \in Seq(Seqs) /\ Len(state'[i]) <= MaxForwards
    OBVIOUS
  <2>1. state[i] \in Seq(Seqs) /\ Len(state[i]) \in Nat /\ Len(state[i]) <= MaxForwards
    BY <1>1 DEF TypeOK
  <2>2. CASE i < Len(batch)
    <3>1. batch[i + 1] \in Seqs /\ Len(state[i]) < MaxForwards
      BY <1>14, <2>2
    <3>2. Append(state[i], batch[i + 1]) \in Seq(Seqs)
          /\ Len(Append(state[i], batch[i + 1])) = Len(state[i]) + 1
      BY <2>1, <3>1
    <3>3. Len(state[i]) + 1 <= MaxForwards
      BY <2>1, <3>1, MambaAssumption
    <3> QED BY <1>15, <2>2, <3>2, <3>3
  <2>3. CASE ~(i < Len(batch))
    BY <1>15, <2>1, <2>3
  <2> QED BY <2>2, <2>3
<1>17. TypeInv'
  <2>1. state' \in [Slots -> Seq(Seqs)]
    <3>1. state' = [i \in Slots |-> state'[i]]
      BY <1>5
    <3> QED BY <1>16, <3>1
  <2>2. batch' \in Seq(Seqs) /\ pos' \in 0 .. Len(batch')
    BY <1>2
  <2>3. forked' \subseteq Requests
    BY <1>1, <1>5, <1>7 DEF TypeOK
  <2> QED BY <1>1, <1>2, <1>13, <1>16, <2>1, <2>2, <2>3 DEF TypeInv, TypeOK
<1>18. IndexInv'
  BY <1>1, <1>2 DEF IndexInv
<1>19. ASSUME NEW r \in started
       PROVE  /\ r \in Requests /\ status[r] = "running"
              /\ ToSet(LiveSeqs(r)) \subseteq ToSet(batch)
              /\ Parent(r) \in ToSet(batch)
  <2>1. PICK s \in ToSet(batch) : r = RequestOf(s)
    BY <1>4
  <2>2. BatchedOK(s)
    BY <1>6
  <2>3. ToSet(LiveSeqs(r)) \subseteq ToSet(batch) /\ status[r] = "running" /\ r \in Requests
    BY <1>7, <2>1, <2>2 DEF BatchedOK
  <2> QED BY <2>3, LiveFacts
<1>20. \A s \in ToSet(batch) : index[s] # None
  <2> SUFFICES ASSUME NEW s \in ToSet(batch) PROVE index[s] # None
    OBVIOUS
  <2>1. PICK i \in DOMAIN batch : s = batch[i] /\ index[s] = i - 1
    BY <1>9
  <2>2. i - 1 \in Slots
    <3>1. Len(batch) <= NumSlots
      BY <1>1 DEF BatchInv
    <3> QED BY <1>3, <3>1, MambaAssumption DEF Slots
  <2> QED BY <2>1, <2>2, MambaAssumption
<1>21. With("finished") = {}
  BY <1>1, <1>2 DEF BatchInv
<1>22. ASSUME NEW r \in Requests PROVE RequestOK(r)'
  <2>1. RequestOK(r) /\ \A s \in ToSet(Family[r]) : s \in Seqs /\ RequestOf(s) = r
    BY <1>1, FamilyFacts DEF RequestInv
  <2>2. Parent(r) \in ToSet(Family[r])
    BY FamilyFacts
  <2>3. status[r] # "finished"
    BY <1>21 DEF With
  <2>4. CASE r \in started
    <3>1. r \in forked' /\ status'[r] = "running"
      BY <1>2, <1>5, <1>19, <2>4
    <3>2. index'[Parent(r)] # None
      BY <1>2, <1>19, <1>20, <2>4
    <3>3. ASSUME NEW s \in ToSet(Family[r]), index'[s] = None
          PROVE  expect'[s] = expect'[Parent(r)]
      <4>1. r \notin forked
        <5> SUFFICES ASSUME r \in forked PROVE FALSE
          OBVIOUS
        <5>1. s \in ToSet(LiveSeqs(r))
          BY LiveFacts
        <5> QED BY <1>2, <1>19, <1>20, <2>4, <3>3, <5>1
      <4>2. expect'[s] = logOf[Parent(r)] /\ expect'[Parent(r)] = logOf[Parent(r)]
        BY <1>12, <2>1, <2>2, <2>4, <4>1
      <4> QED BY <4>2
    <3> QED BY <3>1, <3>2, <3>3 DEF RequestOK, Parent
  <2>5. CASE r \notin started
    <3>1. \A s \in ToSet(Family[r]) : s \notin ToSet(batch)
      BY <1>6, <2>1, <2>5
    <3>2. \A s \in ToSet(Family[r]) : expect'[s] = expect[s]
      <4>1. \A s \in ToSet(Family[r]) : logOf[s] = expect[s]
        BY <1>10, <2>1, <3>1
      <4> QED BY <1>12, <2>1, <2>5, <4>1
    <3>3. r \in forked' <=> r \in forked
      BY <1>5, <2>5
    <3>4. r \notin forked => status[r] = "new"
      BY <2>1, <2>2, <3>1 DEF RequestOK
    <3> QED BY <1>2, <2>1, <2>2, <2>3, <3>2, <3>3, <3>4 DEF RequestOK, Parent
  <2> QED BY <2>4, <2>5
<1>23. BatchInv'
  <2>1. DOMAIN << >> = {} /\ Len(<< >>) = 0
    OBVIOUS
  <2>2. IsInjective(batch')
    BY <1>2, <2>1 DEF IsInjective
  <2>3. Len(batch') <= NumSlots
    BY <1>2, <2>1, MambaAssumption
  <2>4. \A i \in 1 .. pos' : FALSE
    BY <1>2
  <2>5. ToSet(batch') = {}
    BY <1>2, <2>1 DEF ToSet
  <2> QED BY <1>2, <2>2, <2>3, <2>4, <2>5 DEF BatchInv
<1>24. RoomInv'
  BY <1>1, <1>2 DEF RoomInv, With
<1>25. StatesFollowSequences'
  <2> SUFFICES ASSUME NEW s \in Seqs, index[s] # None, status[RequestOf(s)] # "finished",
                      RequestOf(s) \notin preempted
               PROVE  state'[index[s]] = expect'[s]
    BY <1>2 DEF StatesFollowSequences
  <2>1. PICK r \in Requests : r = RequestOf(s) /\ s \in ToSet(Family[r])
    BY RequestOfFacts
  <2>2. state[index[s]] = expect[s] /\ index[s] \in Slots
    BY <1>1 DEF StatesFollowSequences, TypeOK
  <2>3. CASE s \in ToSet(batch)
    <3>1. PICK i \in DOMAIN batch : s = batch[i] /\ index[s] = i - 1
      BY <1>9, <2>3
    <3>2. PICK j \in Slots : j = i - 1 /\ j < Len(batch) /\ j + 1 = i
      BY <1>3, <2>2, <3>1
    <3>3. state'[j] = Append(state[j], s)
      BY <1>15, <3>1, <3>2
    <3>4. state'[index[s]] = Append(expect[s], s)
      BY <2>2, <3>1, <3>2, <3>3
    <3>5. logOf[s] = Append(expect[s], s)
      BY <1>10, <2>3
    <3>6. r \notin forked => s = Parent(r)
      <4>1. s \in ToSet(LiveSeqs(r))
        BY <1>6, <2>1, <2>3 DEF BatchedOK
      <4> QED BY <4>1, LiveFacts
    <3>7. expect'[s] = logOf[s]
      BY <1>12, <2>1, <3>6
    <3> QED BY <3>4, <3>5, <3>7
  <2>4. CASE s \notin ToSet(batch)
    <3>1. ~(index[s] < Len(batch))
      <4> SUFFICES ASSUME index[s] < Len(batch) PROVE FALSE
        OBVIOUS
      <4>1. PICK j \in Slots : j = index[s]
        BY <2>2
      <4>2. batch[j + 1] \in ToSet(batch) /\ batch[j + 1] \in Seqs /\ index[batch[j + 1]] = j
        BY <1>14, <4>1
      <4>3. batch[j + 1] = s
        BY <1>1, <4>1, <4>2 DEF IndexInv
      <4> QED BY <2>4, <4>2, <4>3
    <3>2. state'[index[s]] = expect[s]
      BY <1>15, <2>2, <3>1
    <3>3. r \notin started \ forked
      <4> SUFFICES ASSUME r \in started, r \notin forked PROVE FALSE
        OBVIOUS
      <4>1. s = Parent(r)
        BY <1>1, <2>1 DEF RequestInv, RequestOK
      <4> QED BY <1>19, <2>4, <4>1
    <3>4. expect'[s] = expect[s]
      BY <1>10, <1>12, <2>1, <2>4, <3>3
    <3> QED BY <3>2, <3>4
  <2> QED BY <2>3, <2>4
<1>26. RequestInv'
  BY <1>22 DEF RequestInv
<1> QED BY <1>17, <1>18, <1>23, <1>24, <1>25, <1>26 DEF IInv


-----------------------------------------------------------------------------
(* The theorems.                                                           *)

LEMMA StepIInv ==
  IInv /\ [Next]_vars => IInv'
<1> SUFFICES ASSUME IInv, [Next]_vars PROVE IInv'
  OBVIOUS
<1>1. ASSUME NEW rs \in SUBSET Requests, NEW o \in Orders(rs), BeginForward(rs, o) PROVE IInv'
  BY <1>1, BeginForwardInv
<1>2. ASSUME NEW r \in Requests, Finish(r) PROVE IInv'
  BY <1>2, FinishInv
<1>3. ASSUME NEW r \in Requests, Preempt(r) PROVE IInv'
  BY <1>3, PreemptInv
<1>4. ASSUME NEW to \in Slots, AssignNew(to) PROVE IInv'
  BY <1>4, AssignNewInv
<1>5. ASSUME NEW to \in Slots, AssignSibling(to) PROVE IInv'
  BY <1>5, AssignSiblingInv
<1>6. CASE AssignExisting
  BY <1>6, AssignExistingInv
<1>7. CASE Run
  BY <1>7, RunInv
<1>8. CASE UNCHANGED vars
  <2>1. /\ index' = index /\ state' = state /\ status' = status /\ forked' = forked
        /\ preempted' = preempted /\ batch' = batch /\ pos' = pos /\ expect' = expect
    BY <1>8 DEF vars
  <2>2. TypeInv' /\ IndexInv' /\ StatesFollowSequences'
    BY <2>1 DEF IInv, TypeInv, TypeOK, IndexInv, StatesFollowSequences
  <2>3. RequestInv'
    BY <2>1 DEF IInv, RequestInv, RequestOK, Parent
  <2>4. BatchInv'
    BY <2>1 DEF IInv, BatchInv, BatchedOK, LiveSeqs, Parent, With
  <2>5. RoomInv'
    BY <2>1 DEF IInv, RoomInv, With
  <2> QED BY <2>2, <2>3, <2>4, <2>5 DEF IInv
<1> QED BY <1>1, <1>2, <1>3, <1>4, <1>5, <1>6, <1>7, <1>8 DEF Next

\* IInv holds of every reachable state.
THEOREM InductiveInvariance ==
  Spec => []IInv
<1>1. Init => IInv
  BY InitIInv
<1>2. IInv /\ [Next]_vars => IInv'
  BY StepIInv
<1> QED BY <1>1, <1>2, PTL DEF Spec

\* No two sequences ever share a slot, and those already placed in a batch stay
\* in place, for any number of slots, requests and sequences per request.
THEOREM SlotsAlwaysDistinct ==
  Spec => []SlotsDistinct
<1>1. IInv => SlotsDistinct
  BY DEF IInv, TypeInv, IndexInv, BatchInv, SlotsDistinct
<1> QED BY <1>1, InductiveInvariance, PTL

\* A sequence of a request that was not preempted always has its own state.
THEOREM StatesAlwaysFollow ==
  Spec => []StatesFollowSequences
<1>1. IInv => StatesFollowSequences
  BY DEF IInv
<1> QED BY <1>1, InductiveInvariance, PTL

\* The slots in use, when a sequence still waits for one, are fewer than all.
LEMMA RoomForOne ==
  ASSUME IInv, ~Priority, Assigning, index[Current] = None
  PROVE  Slots \ Occupied # {}
<1> SUFFICES ASSUME Slots \subseteq Occupied PROVE FALSE
  OBVIOUS
<1>1. /\ index \in [Seqs -> Slots \cup {None}] /\ status \in [Requests -> Statuses]
      /\ RequestInv /\ BatchInv /\ RoomInv
  BY DEF IInv, TypeInv, TypeOK
<1>2. /\ Current \in Seqs /\ BatchedOK(Current) /\ RequestOf(Current) \in Requests
      /\ Current \in ToSet(Family[RequestOf(Current)])
  BY PlaceFacts
<1>3. PICK A \in SUBSET Requests : A = With("running") \cup With("preempted")
  BY DEF With
<1>4. PICK c \in SeqsOf(A) : c = Current
  <2>1. RequestOf(Current) \in A
    BY <1>2, <1>3 DEF BatchedOK, With
  <2> QED BY <1>2, <2>1 DEF SeqsOf
<1>5. ASSUME NEW s \in Seqs, index[s] # None PROVE s \in SeqsOf(A) /\ s # c
  <2>1. PICK r \in Requests : s \in ToSet(Family[r])
    BY RequestOfFacts
  <2>2. status[r] # "finished"
    BY <1>1 DEF BatchInv, Assigning, With
  <2>3. status[r] # "new"
    BY <1>1, <1>5, <2>1 DEF RequestInv, RequestOK
  <2>4. r \in A
    BY <1>1, <1>3, <2>2, <2>3 DEF Statuses, With
  <2> QED BY <1>4, <1>5, <2>1, <2>4 DEF SeqsOf
<1>6. IsFiniteSet(SeqsOf(A)) /\ NumSeqs(A) \in Nat /\ NumSeqs(A) = Cardinality(SeqsOf(A))
  BY FamiliesFinite
<1>7. PICK T : T = SeqsOf(A) \ {c}
  OBVIOUS
<1>8. IsFiniteSet(T) /\ Cardinality(T) = Cardinality(SeqsOf(A)) - 1
  BY <1>6, <1>7, FS_RemoveElement
<1>9. PICK M \in SUBSET T : M = {s \in Seqs : index[s] # None}
  BY <1>5, <1>7
<1>10. IsFiniteSet(M) /\ Cardinality(M) <= Cardinality(T)
  BY <1>8, FS_Subset
<1>11. PICK g : g = [s \in M |-> index[s]]
  OBVIOUS
<1>12. g \in Surjection(M, Slots)
  <2>1. g \in [M -> Slots]
    BY <1>1, <1>9, <1>11
  <2>2. \A i \in Slots : \E s \in M : g[s] = i
    <3> SUFFICES ASSUME NEW i \in Slots PROVE \E s \in M : g[s] = i
      OBVIOUS
    <3>1. i \in Occupied
      OBVIOUS
    <3>2. PICK s \in Seqs : index[s] = i /\ i # None
      BY <3>1 DEF Occupied
    <3> QED BY <1>9, <1>11, <3>2
  <2> QED BY <2>1, <2>2 DEF Surjection
<1>13. Cardinality(Slots) <= Cardinality(M)
  BY <1>10, <1>12, FS_Surjection
<1>14. Cardinality(Slots) = NumSlots
  <2>1. 0 \in Int /\ NumSlots - 1 \in Int /\ NumSlots \in Nat \ {0}
    BY MambaAssumption
  <2>2. Cardinality(0 .. NumSlots - 1) = IF 0 > NumSlots - 1 THEN 0 ELSE (NumSlots - 1) - 0 + 1
    BY <2>1, FS_Interval
  <2> QED BY <2>1, <2>2 DEF Slots
<1>15. NumSeqs(A) <= NumSlots
  BY <1>1, <1>3 DEF RoomInv
<1>16. Cardinality(M) \in Nat /\ Cardinality(T) \in Nat
  BY <1>8, <1>10, FS_CardinalityType
<1> QED BY <1>6, <1>8, <1>10, <1>13, <1>14, <1>15, <1>16, MambaAssumption

\* Under the default policy a free slot is found whenever an occupant has to
\* move: the error "Couldn't find a free spot in the mamba cache" is never
\* raised.  (With priority scheduling a new request may overtake preempted ones
\* that still hold their slots, and it can be.)
THEOREM FreeSlotAlwaysFound ==
  ~Priority => (Spec => []FreeSlotFound)
<1> SUFFICES ASSUME ~Priority PROVE Spec => []FreeSlotFound
  OBVIOUS
<1>1. IInv => FreeSlotFound
  BY RoomForOne DEF FreeSlotFound
<1> QED BY <1>1, InductiveInvariance, PTL
=============================================================================
