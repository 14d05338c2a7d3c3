-------------------------- MODULE AsyncEngineProofs --------------------------
(***************************************************************************)
(* Proofs about the request tracker of the async engine, for any requests, *)
(* outputs, pipeline size and limits.                                      *)
(***************************************************************************)
EXTENDS AsyncEngine, SequenceTheorems, WellFoundedInduction, TLAPS

-----------------------------------------------------------------------------
(* The inductive invariant *)

Pcs == {"none", "begin", "add", "execute", "done", "failed"}

Tasks == [pc : Pcs, news : Seq(Requests), aborts : SUBSET Requests,
          batch : SUBSET Requests, more : BOOLEAN]

Types ==
  /\ config \in Configs
  /\ client \in [Requests -> {"new", "open", "closed"}]
  /\ newReqs \in Seq(Requests) /\ aborted \in SUBSET Requests /\ streams \in SUBSET Requests
  /\ out \in [Requests -> Seq(Nat)] /\ done \in [Requests -> Nat]
  /\ ended \in [Requests -> Ends \cup {"open"}]
  /\ held \in [Engines -> Seq(Requests)] /\ task \in [Engines -> Tasks]
  /\ loop \in {"none", "top", "idle", "wait", "dead"}
  /\ event \in BOOLEAN /\ errored \in BOOLEAN /\ callback \in BOOLEAN /\ failures \in Nat

Queued(r) == r \in ToSet(newReqs)
Adding(r, v) == r \in ToSet(task[v].news)
Holds(r, v) == r \in ToSet(held[v])

\* A request is queued, about to be added by one task, or held by one scheduler.
OnePlace(r) ==
  /\ client[r] = "new" => ~ Queued(r)
  /\ client[r] = "new" \/ Queued(r) =>
       /\ r \notin streams /\ ~ Ended(r) /\ done[r] = 0
       /\ \A v \in Engines : ~ Adding(r, v) /\ ~ Holds(r, v) /\ r \notin task[v].aborts
  /\ client[r] = "new" => r \notin aborted
  /\ \A u, v \in Engines : Adding(r, u) => ~ Holds(r, v) /\ (Adding(r, v) => u = v)
  /\ \A u, v \in Engines : Holds(r, u) /\ Holds(r, v) => u = v
  /\ \A v \in Engines : Adding(r, v) => done[r] = 0
  /\ \A v \in Engines : Holds(r, v) => done[r] < Outputs[r]

\* The stream of a request.
StreamInv(r) ==
  /\ \A i \in DOMAIN out[r] : out[r][i] = i
  /\ Len(out[r]) <= done[r] /\ done[r] <= Outputs[r]
  /\ ended[r] = "stop" <=> Len(out[r]) = Outputs[r]
  /\ r \in streams =>
       /\ ~ Ended(r) /\ Len(out[r]) = done[r] /\ r \notin aborted
       /\ \A v \in Engines : r \notin task[v].aborts
       /\ \E v \in Engines : Adding(r, v) \/ Holds(r, v)

TaskInv(v) ==
  /\ IsInjective(task[v].news)
  /\ task[v].pc # "add" => task[v].news = << >> /\ task[v].aborts = {}
  /\ loop = "idle" => task[v].pc = "none"

AInv ==
  /\ Types /\ IsInjective(newReqs)
  /\ \A r \in Requests : OnePlace(r) /\ StreamInv(r)
  /\ \A v \in Engines : TaskInv(v)

\* The abort of a request whose handler has left is on its way.
Left(r) ==
  client[r] = "closed" =>
    /\ Queued(r) => r \in aborted
    /\ \A v \in Engines : Adding(r, v) \/ Holds(r, v) => r \in aborted \cup task[v].aborts

\* With one scheduler, as long as no new tracker has replaced the old one.
OneTracker == NumEngines = 1 /\ (failures = 0 \/ ~ LazyStart)

LeftInv ==
  /\ loop = "none" => \A r \in Requests : client[r] = "new"
  /\ loop = "dead" \/ (\E v \in Engines : task[v].pc = "failed") => failures > 0
  /\ OneTracker => \A r \in Requests : Left(r)

IInv == AInv /\ LeftInv


-----------------------------------------------------------------------------
(* Sequences *)

\* Induction over 0 .. n, stated for sets.
LEMMA LeastNatural ==
  ASSUME NEW T \in SUBSET Nat, T # {}
  PROVE  \E x \in T : \A y \in T : x <= y
<1> DEFINE R == OpToRel(<, Nat)
<1>1. IsWellFoundedOn(R, Nat)
  BY NatLessThanWellFounded
<1>2. \A x, y \in Nat : y < x => <<y, x>> \in R
  BY DEF OpToRel
<1> HIDE DEF R
<1>3. PICK x \in T : \A y \in T : ~ (<<y, x>> \in R)
  BY <1>1, WFMin
<1>4. ASSUME NEW y \in T PROVE x <= y
  <2>1. x \in Nat /\ y \in Nat /\ ~ (<<y, x>> \in R)
    BY <1>3
  <2>2. ~ (y < x)
    BY <1>2, <2>1, Zenon
  <2> QED
    BY <2>1, <2>2
<1> QED
  BY <1>4

LEMMA UpTo ==
  ASSUME NEW n \in Nat, NEW T \in SUBSET (0 .. n), 0 \in T,
         \A i \in 0 .. n : i \in T /\ i < n => i + 1 \in T
  PROVE  \A i \in 0 .. n : i \in T
<1> SUFFICES ASSUME (0 .. n) \ T # {} PROVE FALSE
  OBVIOUS
<1>1. PICK x \in (0 .. n) \ T : \A y \in (0 .. n) \ T : x <= y
  <2>1. (0 .. n) \ T \in SUBSET Nat
    OBVIOUS
  <2> QED
    BY <2>1, LeastNatural
<1>2. x # 0 /\ x \in Nat
  BY <1>1
<1>3. x - 1 \in T /\ x - 1 \in 0 .. n /\ x - 1 < n
  BY <1>1, <1>2
<1>4. x - 1 + 1 \in T
  BY <1>3
<1> QED
  BY <1>1, <1>2, <1>4

LEMMA AppendFacts ==
  ASSUME NEW S, NEW s \in Seq(S), NEW x \in S
  PROVE  /\ Append(s, x) \in Seq(S)
         /\ ToSet(Append(s, x)) = ToSet(s) \cup {x}
         /\ IsInjective(s) /\ x \notin ToSet(s) => IsInjective(Append(s, x))
<1>1. Append(s, x) \in Seq(S) /\ Len(Append(s, x)) = Len(s) + 1 /\ Len(s) \in Nat
  BY AppendProperties, LenProperties
<1>2. DOMAIN s = 1 .. Len(s) /\ DOMAIN Append(s, x) = 1 .. Len(s) + 1
  BY <1>1, LenProperties
<1>3. Append(s, x)[Len(s) + 1] = x /\ \A i \in 1 .. Len(s) : Append(s, x)[i] = s[i]
  BY AppendProperties
<1> DEFINE a == Append(s, x)
           n == Len(s)
<1> HIDE DEF a, n
<1>4. ToSet(a) = ToSet(s) \cup {x}
  BY <1>1, <1>2, <1>3 DEF ToSet, a, n
<1>5. ASSUME IsInjective(s), x \notin ToSet(s) PROVE IsInjective(a)
  <2>1. \A i \in 1 .. n : s[i] # x
    BY <1>2, <1>5 DEF ToSet, n
  <2> SUFFICES ASSUME NEW i \in 1 .. n + 1, NEW j \in 1 .. n + 1, a[i] = a[j] PROVE i = j
    BY <1>2 DEF IsInjective, a, n
  <2>2. n \in Nat
    BY <1>1 DEF n
  <2>3. CASE i = n + 1 \/ j = n + 1
    BY <1>3, <2>1, <2>2, <2>3 DEF a, n
  <2>4. CASE i \in 1 .. n /\ j \in 1 .. n
    BY <1>2, <1>3, <1>5, <2>2, <2>4 DEF IsInjective, a, n
  <2> QED
    BY <2>2, <2>3, <2>4
<1> QED
  BY <1>1, <1>4, <1>5 DEF a

LEMMA TailFacts ==
  ASSUME NEW S, NEW s \in Seq(S), s # << >>
  PROVE  /\ Tail(s) \in Seq(S) /\ Head(s) \in S
         /\ ToSet(s) = ToSet(Tail(s)) \cup {Head(s)}
         /\ IsInjective(s) => IsInjective(Tail(s)) /\ Head(s) \notin ToSet(Tail(s))
<1>1. Tail(s) \in Seq(S) /\ Head(s) \in S /\ Head(s) = s[1] /\ Len(Tail(s)) = Len(s) - 1
  BY HeadTailProperties
<1>2. \A i \in 1 .. Len(s) - 1 : Tail(s)[i] = s[i + 1]
  BY HeadTailProperties
<1>3. Len(s) \in Nat /\ Len(s) >= 1
  BY LenProperties, EmptySeq
<1>4. DOMAIN s = 1 .. Len(s) /\ DOMAIN Tail(s) = 1 .. Len(s) - 1
  BY <1>1, LenProperties
<1> DEFINE t == Tail(s)
           n == Len(s)
<1> HIDE DEF t, n
<1>5. ToSet(s) \subseteq ToSet(t) \cup {s[1]}
  <2> SUFFICES ASSUME NEW i \in 1 .. n, i # 1 PROVE s[i] \in ToSet(t)
    BY <1>4 DEF ToSet, n
  <2>1. i - 1 \in 1 .. n - 1 /\ i - 1 + 1 = i
    BY <1>3 DEF n
  <2>2. t[i - 1] = s[i]
    BY <1>2, <2>1 DEF t, n
  <2> QED
    BY <1>4, <2>1, <2>2 DEF ToSet, t, n
<1>6. ASSUME NEW i \in 1 .. n - 1 PROVE t[i] = s[i + 1] /\ i + 1 \in 1 .. n /\ i \in Nat
  BY <1>2, <1>3 DEF t, n
<1>7. ToSet(t) \subseteq ToSet(s) /\ s[1] \in ToSet(s)
  <2>1. 1 \in 1 .. n
    BY <1>3 DEF n
  <2> QED
    BY <1>4, <1>6, <2>1 DEF ToSet, t, n
<1>8. ASSUME IsInjective(s) PROVE IsInjective(t) /\ s[1] \notin ToSet(t)
  <2>1. \A i, j \in 1 .. n : s[i] = s[j] => i = j
    BY <1>4, <1>8 DEF IsInjective, n
  <2>2. IsInjective(t)
    <3> SUFFICES ASSUME NEW i \in 1 .. n - 1, NEW j \in 1 .. n - 1, t[i] = t[j] PROVE i = j
      BY <1>4 DEF IsInjective, t, n
    <3>1. i + 1 = j + 1
      BY <1>6, <2>1
    <3> QED
      BY <1>6, <3>1
  <2>3. s[1] \notin ToSet(t)
    <3> SUFFICES ASSUME NEW i \in 1 .. n - 1, t[i] = s[1] PROVE FALSE
      BY <1>4 DEF ToSet, t, n
    <3>1. 1 \in 1 .. n
      BY <1>3 DEF n
    <3>2. i + 1 = 1
      BY <1>6, <2>1, <3>1
    <3> QED
      BY <1>6, <3>2
  <2> QED
    BY <2>2, <2>3
<1> QED
  BY <1>1, <1>5, <1>7, <1>8 DEF t

LEMMA EmptyFacts == ToSet(<< >>) = {} /\ IsInjective(<< >>)
BY DEF ToSet, IsInjective

LEMMA OnlyFacts ==
  ASSUME NEW S, NEW x \in S
  PROVE  <<x>> \in Seq(S) /\ ToSet(<<x>>) = {x} /\ IsInjective(<<x>>)
<1>1. <<x>> \in Seq(S) /\ DOMAIN <<x>> = {1} /\ <<x>>[1] = x
  OBVIOUS
<1> QED
  BY <1>1 DEF ToSet, IsInjective

LEMMA SubsetOfSeq ==
  ASSUME NEW S, NEW s \in Seq(S)
  PROVE  ToSet(s) \in SUBSET S /\ (s # << >> => ToSet(s) # {})
<1>1. DOMAIN s = 1 .. Len(s) /\ Len(s) \in Nat /\ \A i \in 1 .. Len(s) : s[i] \in S
  BY LenProperties, ElementOfSeq
<1>2. s # << >> => 1 \in 1 .. Len(s)
  BY <1>1, EmptySeq
<1> QED
  BY <1>1, <1>2 DEF ToSet

\* f is the loop that drops the elements of rs from q.
Keeps(f, q, rs) ==
  /\ f[0] = << >>
  /\ \A i \in 1 .. Len(q) : f[i] = IF q[i] \in rs THEN f[i - 1] ELSE Append(f[i - 1], q[i])
  /\ Dropping(q, rs) = f[Len(q)]

LEMMA KeptTurns ==
  ASSUME NEW S, NEW q \in Seq(S), NEW rs
  PROVE  \E f \in [0 .. Len(q) -> Seq(S)] : Keeps(f, q, rs)
<1> DEFINE n == Len(q)
           Turn(i, s) == IF q[i] \in rs THEN s ELSE Append(s, q[i])
           Fits(k, f) == f[0] = << >> /\ \A i \in 1 .. k : f[i] = Turn(i, f[i - 1])
           T == {k \in 0 .. n : \E f \in [0 .. k -> Seq(S)] : Fits(k, f)}
<1>0. n \in Nat /\ \A i \in 1 .. n : q[i] \in S
  BY LenProperties, ElementOfSeq
<1>1. 0 \in T
  <2> DEFINE f == [i \in 0 .. 0 |-> << >>]
  <2>1. f \in [0 .. 0 -> Seq(S)]
    BY EmptySeq
  <2>2. Fits(0, f)
    OBVIOUS
  <2>3. 0 \in 0 .. n
    BY <1>0
  <2> HIDE DEF f, Fits, n
  <2> QED
    BY <2>1, <2>2, <2>3
<1>2. ASSUME NEW k \in 0 .. n, k \in T, k < n PROVE k + 1 \in T
  <2>1. PICK f \in [0 .. k -> Seq(S)] : Fits(k, f)
    BY <1>2
  <2> DEFINE g == [i \in 0 .. k + 1 |-> IF i = k + 1 THEN Turn(k + 1, f[k]) ELSE f[i]]
  <2>2. f[k] \in Seq(S) /\ k + 1 \in 1 .. n /\ k + 1 \in 0 .. n
    BY <1>0, <1>2, <2>1
  <2>3. Turn(k + 1, f[k]) \in Seq(S)
    BY <1>0, <2>2, AppendProperties
  <2>4. g \in [0 .. k + 1 -> Seq(S)]
    BY <2>1, <2>3
  <2>5. \A i \in 0 .. k : g[i] = f[i]
    OBVIOUS
  <2>6. g[k + 1] = Turn(k + 1, g[k])
    BY <2>5
  <2>7. Fits(k + 1, g)
    <3>1. g[0] = << >>
      BY <2>1, <2>5
    <3> SUFFICES ASSUME NEW i \in 1 .. k + 1 PROVE g[i] = Turn(i, g[i - 1])
      BY <3>1
    <3> HIDE DEF g, Turn
    <3>2. CASE i = k + 1
      BY <2>6, <3>2
    <3>3. CASE i # k + 1
      <4>1. i \in 1 .. k /\ i \in 0 .. k /\ i - 1 \in 0 .. k
        BY <3>3
      <4>2. g[i] = f[i] /\ g[i - 1] = f[i - 1]
        BY <2>5, <4>1
      <4> QED
        BY <2>1, <4>1, <4>2
    <3> QED
      BY <3>2, <3>3
  <2> HIDE DEF g, Fits
  <2> QED
    BY <2>2, <2>4, <2>7
<1>3. T \in SUBSET (0 .. n)
  OBVIOUS
<1>4. n \in T
  <2> HIDE DEF T, n
  <2>1. \A i \in 0 .. n : i \in T
    BY <1>0, <1>1, <1>2, <1>3, UpTo
  <2> QED
    BY <1>0, <2>1
<1>5. \E f \in [0 .. n -> Seq(S)] : Fits(n, f)
  BY <1>4
<1> DEFINE Body(f) == [i \in 0 .. Len(q) |->
             IF i = 0 THEN << >> ELSE IF q[i] \in rs THEN f[i - 1] ELSE Append(f[i - 1], q[i])]
           kept == CHOOSE f : f = Body(f)
<1>6. PICK f \in [0 .. n -> Seq(S)] : Fits(n, f)
  BY <1>5
<1>7. f = Body(f)
  <2>1. ASSUME NEW i \in 0 .. n PROVE f[i] = IF i = 0 THEN << >> ELSE Turn(i, f[i - 1])
    <3>1. i # 0 => i \in 1 .. n
      BY <1>0
    <3> HIDE DEF Turn
    <3> QED
      BY <1>6, <3>1
  <2>2. f = [i \in 0 .. n |-> f[i]]
    BY <1>6
  <2> QED
    BY <2>1, <2>2
<1>8. kept = Body(kept)
  <2> HIDE DEF Body
  <2> QED
    BY <1>7
<1>9. Dropping(q, rs) = kept[n]
  BY DEF Dropping
<1> HIDE DEF kept
<1>10. ASSUME NEW i \in 0 .. n, i # 0 PROVE kept[i] = Turn(i, kept[i - 1])
  <2> DEFINE b == Body(kept)
  <2>1. b[i] = Turn(i, kept[i - 1])
    BY <1>10
  <2> HIDE DEF b, Turn
  <2> QED
    BY <1>8, <2>1 DEF b
<1>11. \A i \in 0 .. n : kept[i] = f[i]
  <2> DEFINE U == {i \in 0 .. n : kept[i] = f[i]}
  <2>1. 0 \in U
    BY <1>0, <1>6, <1>8
  <2>2. ASSUME NEW i \in 0 .. n, i \in U, i < n PROVE i + 1 \in U
    <3>1. i + 1 \in 1 .. n /\ i + 1 # 0 /\ i + 1 - 1 = i /\ i + 1 \in 0 .. n
      BY <1>0, <2>2
    <3>2. f[i + 1] = Turn(i + 1, f[i])
      BY <1>6, <3>1
    <3>3. kept[i + 1] = Turn(i + 1, kept[i])
      <4> HIDE DEF Turn, n
      <4> QED
        BY <1>10, <3>1
    <3> QED
      BY <2>2, <3>1, <3>2, <3>3
  <2>3. U \in SUBSET (0 .. n)
    OBVIOUS
  <2>4. \A i \in 0 .. n : i \in U
    <3> HIDE DEF U, n
    <3> QED
      BY <1>0, <2>1, <2>2, <2>3, UpTo
  <2> QED
    BY <2>4
<1>12. Dropping(q, rs) = f[n]
  BY <1>0, <1>9, <1>11
<1> QED
  BY <1>6, <1>12 DEF Keeps
\* What is left of a queue.
LEMMA DroppingFacts ==
  ASSUME NEW S, NEW q \in Seq(S), NEW rs
  PROVE  /\ Dropping(q, rs) \in Seq(S)
         /\ ToSet(Dropping(q, rs)) = ToSet(q) \ rs
         /\ IsInjective(q) => IsInjective(Dropping(q, rs))
<1> DEFINE n == Len(q)
           First(k) == {q[i] : i \in 1 .. k}
<1>0. n \in Nat /\ (\A i \in 1 .. n : q[i] \in S) /\ DOMAIN q = 1 .. n
  BY LenProperties, ElementOfSeq
<1>1. PICK f \in [0 .. n -> Seq(S)] :
        /\ f[0] = << >>
        /\ \A i \in 1 .. n : f[i] = IF q[i] \in rs THEN f[i - 1] ELSE Append(f[i - 1], q[i])
        /\ Dropping(q, rs) = f[n]
  <2>1. \E f \in [0 .. Len(q) -> Seq(S)] : Keeps(f, q, rs)
    BY KeptTurns
  <2> QED
    BY <2>1 DEF Keeps
<1> DEFINE T == {k \in 0 .. n : ToSet(f[k]) = First(k) \ rs
                                /\ (IsInjective(q) => IsInjective(f[k]))}
<1>2. 0 \in T
  <2>1. First(0) = {} /\ 0 \in 0 .. n
    BY <1>0
  <2> QED
    BY <1>1, <2>1, EmptyFacts
<1>3. ASSUME NEW k \in 0 .. n, k \in T, k < n PROVE k + 1 \in T
  <2>1. k + 1 \in 1 .. n /\ k + 1 \in 0 .. n /\ k + 1 - 1 = k /\ k \in Nat
    BY <1>0, <1>3
  <2>2. f[k + 1] = IF q[k + 1] \in rs THEN f[k] ELSE Append(f[k], q[k + 1])
    BY <1>1, <2>1
  <2>3. First(k + 1) = First(k) \cup {q[k + 1]}
    BY <2>1
  <2>4. f[k] \in Seq(S) /\ q[k + 1] \in S
    BY <1>0, <1>1, <2>1
  <2>5. IsInjective(q) => q[k + 1] \notin First(k)
    <3> SUFFICES ASSUME IsInjective(q), NEW i \in 1 .. k, q[i] = q[k + 1] PROVE FALSE
      OBVIOUS
    <3>1. i \in 1 .. n /\ i # k + 1
      BY <1>0, <2>1
    <3> QED
      BY <1>0, <2>1, <3>1 DEF IsInjective
  <2> HIDE DEF First, n
  <2>6. CASE q[k + 1] \in rs
    BY <1>3, <2>1, <2>2, <2>3, <2>6
  <2>7. CASE q[k + 1] \notin rs
    <3>1. ToSet(f[k + 1]) = ToSet(f[k]) \cup {q[k + 1]}
      BY <2>2, <2>4, <2>7, AppendFacts
    <3>2. IsInjective(f[k]) /\ q[k + 1] \notin ToSet(f[k]) => IsInjective(f[k + 1])
      BY <2>2, <2>4, <2>7, AppendFacts
    <3> QED
      BY <1>3, <2>1, <2>3, <2>5, <2>7, <3>1, <3>2
  <2> QED
    BY <2>6, <2>7
<1>4. T \in SUBSET (0 .. n)
  OBVIOUS
<1>5. n \in T
  <2> HIDE DEF T, n
  <2>1. \A i \in 0 .. n : i \in T
    BY <1>0, <1>2, <1>3, <1>4, UpTo
  <2> QED
    BY <1>0, <2>1
<1>6. First(n) = ToSet(q)
  BY <1>0 DEF ToSet
<1>7. f[n] \in Seq(S)
  BY <1>0, <1>1
<1> HIDE DEF First
<1> QED
  BY <1>1, <1>5, <1>6, <1>7


-----------------------------------------------------------------------------
(* Frames *)

LEMMA ConstantFacts ==
  /\ NumEngines \in Nat /\ NumEngines >= 1 /\ 0 \in Engines /\ Engines \in SUBSET Nat
  /\ Outputs \in [Requests -> Nat] /\ \A r \in Requests : Outputs[r] > 0
  /\ NumEngines = 1 => \A u, v \in Engines : u = v
<1>1. NumEngines \in Nat /\ NumEngines >= 1
  BY AsyncAssumption
<1>2. 0 \in Engines /\ Engines \in SUBSET Nat /\ (NumEngines = 1 => \A u, v \in Engines : u = v)
  BY <1>1 DEF Engines
<1>3. Outputs \in [Requests -> Nat] /\ \A r \in Requests : Outputs[r] > 0
  BY AsyncAssumption
<1> QED
  BY <1>1, <1>2, <1>3

LEMMA NoTaskFacts ==
  /\ NoTask \in Tasks /\ NoTask.pc = "none" /\ NoTask.news = << >> /\ NoTask.aborts = {}
  /\ FreshTask \in Tasks /\ FreshTask.pc = "begin" /\ FreshTask.news = << >> /\ FreshTask.aborts = {}
<1>1. << >> \in Seq(Requests)
  BY EmptySeq
<1> QED
  BY <1>1 DEF NoTask, FreshTask, Tasks, Pcs

\* Nothing a request's part of the invariant speaks of has changed.
LEMMA SameRequest ==
  ASSUME NEW r \in Requests, OnePlace(r), StreamInv(r),
         client'[r] = "new" => client[r] = "new",
         Queued(r)' => Queued(r),
         r \in aborted' => r \in aborted,
         r \in streams' <=> r \in streams,
         out'[r] = out[r], ended'[r] = ended[r], done'[r] = done[r],
         \A v \in Engines : (r \in ToSet(task'[v].news) <=> r \in ToSet(task[v].news))
                            /\ (r \in ToSet(held'[v]) <=> r \in ToSet(held[v]))
                            /\ (r \in task'[v].aborts => r \in task[v].aborts)
  PROVE  OnePlace(r)' /\ StreamInv(r)'
<1>1. OnePlace(r)'
  BY DEF OnePlace, Queued, Adding, Holds, Ended
<1>2. StreamInv(r)'
  BY DEF StreamInv, Adding, Holds, Ended
<1> QED
  BY <1>1, <1>2

\* A step that moves no request.
LEMMA QuietStep ==
  ASSUME IInv,
         UNCHANGED <<config, client, newReqs, aborted, streams, out, ended, held, done>>,
         task' \in [Engines -> Tasks],
         loop' \in {"none", "top", "idle", "wait", "dead"},
         event' \in BOOLEAN, errored' \in BOOLEAN, callback' \in BOOLEAN,
         failures' \in Nat, failures' >= failures,
         \A v \in Engines : task'[v].news = task[v].news /\ task'[v].aborts = task[v].aborts,
         \A v \in Engines : task'[v].pc # "add" => task[v].news = << >> /\ task[v].aborts = {},
         \A v \in Engines : loop' = "idle" => task'[v].pc = "none",
         loop' = "none" => loop = "none",
         loop' = "dead" => loop = "dead" \/ failures' > 0,
         \A v \in Engines : task'[v].pc = "failed" => task[v].pc = "failed" \/ failures' > 0
  PROVE  IInv'
<1>1. Types'
  BY DEF IInv, AInv, Types
<1>2. IsInjective(newReqs')
  BY DEF IInv, AInv
<1>3. ASSUME NEW r \in Requests PROVE OnePlace(r)' /\ StreamInv(r)'
  <2>1. OnePlace(r) /\ StreamInv(r)
    BY DEF IInv, AInv
  <2> QED
    BY <2>1, SameRequest DEF Queued
<1>4. ASSUME NEW v \in Engines PROVE TaskInv(v)'
  BY DEF IInv, AInv, TaskInv
<1>5. LeftInv'
  <2>1. OneTracker' => OneTracker
    BY DEF OneTracker, LazyStart, IInv, AInv, Types
  <2>2. ASSUME NEW r \in Requests, Left(r) PROVE Left(r)'
    BY <2>2 DEF Left, Queued, Adding, Holds
  <2>3. loop' = "dead" \/ (\E v \in Engines : task'[v].pc = "failed") => failures' > 0
    BY DEF IInv, LeftInv, AInv, Types
  <2> QED
    BY <2>1, <2>2, <2>3 DEF IInv, LeftInv
<1> QED
  BY <1>1, <1>2, <1>3, <1>4, <1>5 DEF IInv, AInv

LEMMA InitInv == Init => IInv
<1> SUFFICES ASSUME Init PROVE IInv
  OBVIOUS
<1> USE DEF Init
<1>1. << >> \in Seq(Requests) /\ << >> \in Seq(Nat)
  BY EmptySeq
<1>2. Types
  BY <1>1, NoTaskFacts DEF Types, Ends
<1>3. ASSUME NEW r \in Requests PROVE OnePlace(r) /\ StreamInv(r)
  <2>1. OnePlace(r)
    BY EmptyFacts, NoTaskFacts, ConstantFacts DEF OnePlace, Queued, Adding, Holds, Ended
  <2>2. Len(out[r]) = 0 /\ DOMAIN out[r] = {}
    BY EmptySeq
  <2>3. StreamInv(r)
    BY <2>2, ConstantFacts DEF StreamInv
  <2> QED
    BY <2>1, <2>3
<1>4. ASSUME NEW v \in Engines PROVE TaskInv(v)
  BY EmptyFacts, NoTaskFacts DEF TaskInv
<1>5. LeftInv
  BY NoTaskFacts DEF LeftInv, Left
<1> QED
  BY <1>2, <1>3, <1>4, <1>5, EmptyFacts DEF IInv, AInv

-----------------------------------------------------------------------------
(* The handlers *)

LEMMA AddRequestStep ==
  ASSUME IInv, NEW r \in Requests, AddRequest(r)
  PROVE  IInv'
<1> USE DEF AddRequest, engine
<1>0. Types /\ IsInjective(newReqs) /\ OnePlace(r) /\ StreamInv(r)
  BY DEF IInv, AInv
<1>1. r \notin ToSet(newReqs) /\ newReqs \in Seq(Requests)
  BY <1>0 DEF OnePlace, Queued, Types
<1>2. newReqs' \in Seq(Requests) /\ ToSet(newReqs') = ToSet(newReqs) \cup {r} /\ IsInjective(newReqs')
  BY <1>0, <1>1, AppendFacts
<1>3. Types'
  BY <1>0, <1>2 DEF Types
<1>4. ASSUME NEW x \in Requests PROVE OnePlace(x)' /\ StreamInv(x)'
  <2>1. OnePlace(x) /\ StreamInv(x)
    BY DEF IInv, AInv
  <2>2. CASE x # r
    <3>1. client'[x] = client[x] /\ (Queued(x)' => Queued(x))
      BY <1>0, <1>2, <2>2 DEF Types, Queued
    <3> QED
      BY <2>1, <3>1, SameRequest
  <2>3. CASE x = r
    <3>1. client'[r] = "open"
      BY <1>0 DEF Types
    <3>2. OnePlace(r)'
      BY <1>0, <3>1 DEF OnePlace, Queued, Adding, Holds, Ended
    <3>3. StreamInv(r)'
      BY <1>0 DEF StreamInv, Adding, Holds, Ended
    <3> QED
      BY <2>3, <3>2, <3>3
  <2> QED
    BY <2>2, <2>3
<1>5. ASSUME NEW v \in Engines PROVE TaskInv(v)'
  BY DEF IInv, AInv, TaskInv
<1>6. LeftInv'
  <2>1. OneTracker' <=> OneTracker
    BY DEF OneTracker, LazyStart
  <2>2. ASSUME NEW x \in Requests, Left(x) PROVE Left(x)'
    BY <1>0, <1>2, <2>2 DEF Left, Queued, Adding, Holds, Types
  <2> QED
    BY <2>1, <2>2 DEF IInv, LeftInv, Running
<1> QED
  BY <1>2, <1>3, <1>4, <1>5, <1>6 DEF IInv, AInv

LEMMA AddRequestStartsStep ==
  ASSUME IInv, NEW r \in Requests, AddRequestStarts(r)
  PROVE  IInv'
<1> USE DEF AddRequestStarts, engine
<1>0. Types /\ OnePlace(r) /\ StreamInv(r)
  BY DEF IInv, AInv
<1>2. newReqs' \in Seq(Requests) /\ ToSet(newReqs') = {r} /\ IsInjective(newReqs')
  BY OnlyFacts
<1>3. task' \in [Engines -> Tasks]
      /\ \A v \in Engines : task'[v].pc = "none" /\ task'[v].news = << >> /\ task'[v].aborts = {}
  BY NoTaskFacts
<1>4. Types'
  BY <1>0, <1>2, <1>3 DEF Types
<1>5. ASSUME NEW x \in Requests PROVE OnePlace(x)' /\ StreamInv(x)'
  <2>1. OnePlace(x) /\ StreamInv(x) /\ (x # r => client'[x] = client[x]) /\ client'[r] = "open"
    BY <1>0 DEF IInv, AInv, Types
  <2>2. \A v \in Engines : ~ Adding(x, v)'
    BY <1>3, EmptyFacts DEF Adding
  <2>3. OnePlace(x)'
    <3>1. (Queued(x)' <=> x = r) /\ (\A v \in Engines : Holds(x, v)' <=> Holds(x, v))
      BY <1>2 DEF Queued, Holds
    <3>2. done'[x] = done[x] /\ (Ended(x)' <=> Ended(x)) /\ x \notin streams' /\ x \notin aborted'
      BY DEF Ended
    <3> QED
      BY <1>0, <1>3, <2>1, <2>2, <3>1, <3>2 DEF OnePlace
  <2>4. StreamInv(x)'
    BY <2>1 DEF StreamInv
  <2> QED
    BY <2>3, <2>4
<1>6. ASSUME NEW v \in Engines PROVE TaskInv(v)'
  BY <1>3, EmptyFacts DEF TaskInv
<1>7. LeftInv'
  <2>1. OneTracker' <=> OneTracker
    BY DEF OneTracker, LazyStart
  <2>2. CASE loop = "none"
    <3>1. \A x \in Requests : client'[x] # "closed"
      BY <1>0, <2>2 DEF IInv, LeftInv, Types
    <3> QED
      BY <1>3, <3>1 DEF LeftInv, Left
  <2>3. CASE loop = "dead"
    BY <1>0, <1>3, <2>1, <2>3 DEF IInv, LeftInv, OneTracker, Types
  <2> QED
    BY <2>2, <2>3 DEF Running
<1> QED
  BY <1>2, <1>4, <1>5, <1>6, <1>7 DEF IInv, AInv

LEMMA AddRefusedStep ==
  ASSUME IInv, NEW r \in Requests, AddRefused(r)
  PROVE  IInv'
<1> USE DEF AddRefused, engine, tracker
<1>0. Types /\ OnePlace(r)
  BY DEF IInv, AInv
<1>1. Types'
  BY <1>0 DEF Types
<1>2. ASSUME NEW x \in Requests PROVE client'[x] = IF x = r THEN "closed" ELSE client[x]
  BY <1>0 DEF Types
<1>3. ASSUME NEW x \in Requests PROVE OnePlace(x)' /\ StreamInv(x)'
  <2>1. OnePlace(x) /\ StreamInv(x) /\ (client'[x] = "new" => client[x] = "new")
    BY <1>2 DEF IInv, AInv
  <2> QED
    BY <2>1, SameRequest DEF Queued
<1>4. ASSUME NEW v \in Engines PROVE TaskInv(v)'
  BY DEF IInv, AInv, TaskInv
<1>5. LeftInv'
  <2>1. OneTracker' <=> OneTracker
    BY DEF OneTracker, LazyStart
  <2>2. ASSUME NEW x \in Requests, Left(x) PROVE Left(x)'
    <3>1. CASE x = r
      BY <1>0, <3>1 DEF OnePlace, Left, Queued, Adding, Holds
    <3>2. CASE x # r
      BY <1>2, <2>2, <3>2 DEF Left, Queued, Adding, Holds
    <3> QED
      BY <3>1, <3>2
  <2> QED
    BY <2>1, <2>2 DEF IInv, LeftInv
<1> QED
  BY <1>1, <1>3, <1>4, <1>5 DEF IInv, AInv


\* What AbortRequests leaves of a request's part of the invariant.
LEMMA AbortedRequest ==
  ASSUME NEW r \in Requests, OnePlace(r), StreamInv(r), NEW rs \in SUBSET Requests,
         NEW how \in {"error", "cancelled"}, AbortRequests(rs, how),
         r \in rs => client'[r] # "new",
         client'[r] = "new" => client[r] = "new",
         Queued(r)' => Queued(r),
         out'[r] = out[r], done'[r] = done[r],
         \A v \in Engines : (r \in ToSet(task'[v].news) => r \in ToSet(task[v].news))
                            /\ (r \in ToSet(held'[v]) => r \in ToSet(held[v]))
                            /\ (r \in task'[v].aborts => r \in task[v].aborts),
         r \notin rs => \A v \in Engines : r \in ToSet(task[v].news) => r \in ToSet(task'[v].news),
         r \notin rs => \A v \in Engines : r \in ToSet(held[v]) => r \in ToSet(held'[v])
  PROVE  OnePlace(r)' /\ StreamInv(r)'
<1>1. ended'[r] = IF r \in rs /\ r \in streams /\ ~ Ended(r) THEN how ELSE ended[r]
  BY DEF AbortRequests, Finish
<1>2. (r \in aborted' <=> r \in aborted \/ r \in rs) /\ (r \in streams' <=> r \in streams /\ r \notin rs)
  BY DEF AbortRequests
<1>3. OnePlace(r)'
  BY <1>1, <1>2 DEF OnePlace, Queued, Adding, Holds, Ended
<1>4. StreamInv(r)'
  BY <1>1, <1>2 DEF StreamInv, Adding, Holds, Ended
<1> QED
  BY <1>3, <1>4

LEMMA AbortTypes ==
  ASSUME Types, NEW rs \in SUBSET Requests, NEW how \in {"error", "cancelled"}, AbortRequests(rs, how)
  PROVE  /\ aborted' \in SUBSET Requests /\ streams' \in SUBSET Requests
         /\ ended' \in [Requests -> Ends \cup {"open"}]
BY DEF Types, AbortRequests, Finish, Ends, Ended

LEMMA DisconnectStep ==
  ASSUME IInv, NEW r \in Requests, Disconnect(r)
  PROVE  IInv'
<1> USE DEF Disconnect, engine
<1>0. Types /\ AbortRequests({r}, "cancelled") /\ {r} \in SUBSET Requests
  BY DEF IInv, AInv
<1>1. aborted' \in SUBSET Requests /\ streams' \in SUBSET Requests
      /\ ended' \in [Requests -> Ends \cup {"open"}]
  BY <1>0, AbortTypes
<1>2. Types'
  BY <1>0, <1>1 DEF Types
<1>3. ASSUME NEW x \in Requests PROVE client'[x] = IF x = r THEN "closed" ELSE client[x]
  BY <1>0 DEF Types
<1>4. ASSUME NEW x \in Requests PROVE OnePlace(x)' /\ StreamInv(x)'
  <2>1. OnePlace(x) /\ StreamInv(x) /\ (Queued(x)' => Queued(x))
    BY DEF IInv, AInv, Queued
  <2>2. (x \in {r} => client'[x] # "new") /\ (client'[x] = "new" => client[x] = "new")
    BY <1>3
  <2>3. out'[x] = out[x] /\ done'[x] = done[x] /\ task' = task /\ held' = held
    OBVIOUS
  <2> QED
    BY <1>0, <2>1, <2>2, <2>3, AbortedRequest
<1>5. ASSUME NEW v \in Engines PROVE TaskInv(v)'
  BY DEF IInv, AInv, TaskInv
<1>6. LeftInv'
  <2>1. OneTracker' <=> OneTracker
    BY DEF OneTracker, LazyStart
  <2>2. aborted' = aborted \cup {r}
    BY DEF AbortRequests
  <2>3. ASSUME NEW x \in Requests, Left(x) PROVE Left(x)'
    BY <1>3, <2>2, <2>3 DEF Left, Queued, Adding, Holds
  <2>4. loop # "none"
    BY DEF IInv, LeftInv
  <2> QED
    BY <2>1, <2>3, <2>4 DEF IInv, LeftInv
<1> QED
  BY <1>2, <1>4, <1>5, <1>6 DEF IInv, AInv

LEMMA ErrorCallbackStep ==
  ASSUME IInv, ErrorCallback
  PROVE  IInv'
<1> USE DEF ErrorCallback, engine
<1>0. Types /\ AbortRequests(streams, "error") /\ streams \in SUBSET Requests
  BY DEF IInv, AInv, Types
<1>1. aborted' \in SUBSET Requests /\ streams' \in SUBSET Requests
      /\ ended' \in [Requests -> Ends \cup {"open"}]
  BY <1>0, AbortTypes
<1>2. Types'
  BY <1>0, <1>1 DEF Types
<1>3. ASSUME NEW x \in Requests PROVE OnePlace(x)' /\ StreamInv(x)'
  <2>1. OnePlace(x) /\ StreamInv(x) /\ (Queued(x)' => Queued(x))
    BY DEF IInv, AInv, Queued
  <2>2. (x \in streams => client'[x] # "new") /\ (client'[x] = "new" => client[x] = "new")
    BY <2>1 DEF OnePlace
  <2>3. out'[x] = out[x] /\ done'[x] = done[x] /\ task' = task /\ held' = held
    OBVIOUS
  <2> QED
    BY <1>0, <2>1, <2>2, <2>3, AbortedRequest
<1>4. ASSUME NEW v \in Engines PROVE TaskInv(v)'
  BY DEF IInv, AInv, TaskInv
<1>5. LeftInv'
  <2>1. OneTracker' <=> OneTracker
    BY DEF OneTracker, LazyStart
  <2>2. aborted' = aborted \cup streams
    BY DEF AbortRequests
  <2>3. ASSUME NEW x \in Requests, Left(x) PROVE Left(x)'
    BY <2>2, <2>3 DEF Left, Queued, Adding, Holds
  <2> QED
    BY <2>1, <2>3 DEF IInv, LeftInv
<1> QED
  BY <1>2, <1>3, <1>4, <1>5 DEF IInv, AInv

-----------------------------------------------------------------------------
(* The background loop *)

LEMMA LoopStepInv ==
  ASSUME IInv, LoopTop \/ LoopWake \/ LoopFails \/ LoopTimeout \/ (\E v \in Engines : StepFails(v))
               \/ UNCHANGED vars
  PROVE  IInv'
<1>0. Types /\ \A v \in Engines : TaskInv(v)
  BY DEF IInv, AInv
<1>1. CASE UNCHANGED vars
  BY <1>0, <1>1, QuietStep DEF vars, Types, TaskInv
<1>2. CASE LoopTop
  BY <1>0, <1>2, QuietStep DEF LoopTop, Types, TaskInv, tracker, engine
<1>3. CASE LoopFails
  <2>1. failures > 0
    BY <1>3 DEF LoopFails, IInv, LeftInv
  <2> QED
    BY <1>0, <1>3, <2>1, QuietStep DEF LoopFails, Types, TaskInv, tracker, engine
<1>4. CASE LoopTimeout
  BY <1>0, <1>4, QuietStep DEF LoopTimeout, Types, TaskInv, tracker, engine
<1>5. CASE \E v \in Engines : StepFails(v)
  <2>1. PICK v \in Engines : StepFails(v)
    BY <1>5
  <2>2. task[v] \in Tasks /\ task \in [Engines -> Tasks] /\ failures \in Nat
    BY <1>0 DEF Types
  <2> DEFINE t == [task[v] EXCEPT !.pc = "failed"]
  <2>3. t \in Tasks /\ t.pc = "failed" /\ t.news = task[v].news /\ t.aborts = task[v].aborts
    BY <2>2 DEF Tasks, Pcs
  <2>4. task' = [task EXCEPT ![v] = t]
    BY <2>1, <2>2 DEF StepFails
  <2> HIDE DEF t
  <2>5. task' \in [Engines -> Tasks] /\ task'[v] = t /\ \A u \in Engines : u # v => task'[u] = task[u]
    BY <2>2, <2>3, <2>4
  <2>6. task[v].pc = "execute" /\ failures' = failures + 1 /\ loop' = loop /\ loop # "idle"
    BY <1>0, <2>1 DEF StepFails, TaskInv
  <2>7. UNCHANGED <<config, client, newReqs, aborted, streams, out, ended, held, done>>
        /\ event' = event /\ errored' = errored /\ callback' = callback
    BY <2>1 DEF StepFails, tracker, engine
  <2>8. task[v].news = << >> /\ task[v].aborts = {}
    BY <1>0, <2>6 DEF TaskInv
  <2>9. ASSUME NEW u \in Engines
        PROVE  /\ task'[u].news = task[u].news /\ task'[u].aborts = task[u].aborts
               /\ task'[u].pc # "add" => task[u].news = << >> /\ task[u].aborts = {}
               /\ loop' = "idle" => task'[u].pc = "none"
               /\ task'[u].pc = "failed" => task[u].pc = "failed" \/ failures' > 0
    <3>1. CASE u = v
      <4>1. failures' > 0
        BY <2>2, <2>6
      <4> QED
        BY <2>3, <2>5, <2>6, <2>8, <3>1, <4>1
    <3>2. CASE u # v
      BY <1>0, <2>5, <2>6, <3>2 DEF TaskInv
    <3> QED
      BY <3>1, <3>2
  <2>10. /\ loop' \in {"none", "top", "idle", "wait", "dead"}
         /\ event' \in BOOLEAN /\ errored' \in BOOLEAN /\ callback' \in BOOLEAN
         /\ failures' \in Nat /\ failures' >= failures
    BY <1>0, <2>6, <2>7 DEF Types
  <2> QED
    BY <2>5, <2>6, <2>7, <2>9, <2>10, QuietStep
<1>6. CASE LoopWake
  <2>1. task \in [Engines -> Tasks] /\ task' = [task EXCEPT ![0] = FreshTask]
    BY <1>0, <1>6 DEF Types, LoopWake
  <2>2. task' \in [Engines -> Tasks] /\ task'[0] = FreshTask
        /\ \A u \in Engines : u # 0 => task'[u] = task[u]
    BY <2>1, NoTaskFacts, ConstantFacts
  <2>3. loop = "idle" /\ loop' = "wait" /\ event' = FALSE
    BY <1>6 DEF LoopWake
  <2>4. \A u \in Engines : task[u].pc = "none" /\ task[u].news = << >> /\ task[u].aborts = {}
    BY <1>0, <2>3 DEF TaskInv
  <2>5. UNCHANGED <<config, client, newReqs, aborted, streams, out, ended, held, done>>
        /\ failures' = failures /\ errored' = errored /\ callback' = callback
    BY <1>6 DEF LoopWake, engine
  <2>6. ASSUME NEW u \in Engines
        PROVE  /\ task'[u].news = task[u].news /\ task'[u].aborts = task[u].aborts
               /\ task[u].news = << >> /\ task[u].aborts = {}
               /\ task'[u].pc # "failed"
    BY <2>2, <2>4, NoTaskFacts
  <2>7. /\ loop' \in {"none", "top", "idle", "wait", "dead"}
        /\ event' \in BOOLEAN /\ errored' \in BOOLEAN /\ callback' \in BOOLEAN
        /\ failures' \in Nat /\ failures' >= failures
    <3>1. event' \in BOOLEAN /\ errored' \in BOOLEAN /\ callback' \in BOOLEAN
      BY <1>0, <1>6 DEF Types, LoopWake
    <3>2. failures' \in Nat /\ failures' >= failures
      BY <1>0, <2>5 DEF Types
    <3> QED
      BY <2>3, <3>1, <3>2
  <2> QED
    BY <2>2, <2>3, <2>5, <2>6, <2>7, QuietStep
<1> QED
  BY <1>1, <1>2, <1>3, <1>4, <1>5, <1>6


LEMMA LoopTasksDoneStep ==
  ASSUME IInv, NEW d \in SUBSET Engines, NEW last \in d, LoopTasksDone(d, last)
  PROVE  IInv'
<1> USE DEF LoopTasksDone, engine, tracker
<1>0. Types /\ (\A v \in Engines : TaskInv(v)) /\ task \in [Engines -> Tasks]
  BY DEF IInv, AInv, Types
<1>1. ASSUME NEW v \in Engines
      PROVE  task'[v] \in {task[v], FreshTask, NoTask}
             /\ (task'[v] # task[v] => v \in d \/ task[v].pc = "none")
  BY DEF TasksAfter
<1>2. task' \in [Engines -> Tasks]
  <2>1. \A v \in Engines : task'[v] \in Tasks
    BY <1>0, <1>1, NoTaskFacts
  <2> QED
    BY <2>1 DEF TasksAfter
<1>3. ASSUME NEW v \in Engines, task'[v] # task[v]
      PROVE  /\ task[v].news = << >> /\ task[v].aborts = {}
             /\ task'[v].news = << >> /\ task'[v].aborts = {} /\ task'[v].pc \in {"none", "begin"}
  <2>1. task[v].pc \in {"none", "done"}
    BY <1>1, <1>3
  <2>2. task[v].news = << >> /\ task[v].aborts = {}
    BY <1>0, <2>1 DEF TaskInv
  <2> QED
    BY <1>1, <1>3, <2>2, NoTaskFacts
<1>4. ASSUME NEW v \in Engines
      PROVE  /\ task'[v].news = task[v].news /\ task'[v].aborts = task[v].aborts
             /\ task'[v].pc # "add" => task[v].news = << >> /\ task[v].aborts = {}
             /\ task'[v].pc = "failed" => task[v].pc = "failed"
  <2>1. CASE task'[v] = task[v]
    BY <1>0, <2>1 DEF TaskInv
  <2>2. CASE task'[v] # task[v]
    BY <1>3, <2>2
  <2> QED
    BY <2>1, <2>2
<1>5. loop' = "top" /\ failures' = failures /\ event' = event /\ errored' = errored /\ callback' = callback
      /\ UNCHANGED <<config, client, newReqs, aborted, streams, out, ended, held, done>>
  OBVIOUS
<1> QED
  BY <1>0, <1>2, <1>4, <1>5, QuietStep DEF Types

-----------------------------------------------------------------------------
(* engine_step *)

LEMMA StepBeginStep ==
  ASSUME IInv, NEW v \in Engines, StepBegin(v)
  PROVE  IInv'
<1> DEFINE news == Taken(newReqs)
           aborts == aborted \ ToSet(newReqs)
           t == [task[v] EXCEPT !.pc = "add", !.news = news, !.aborts = aborts]
<1>0. Types /\ IsInjective(newReqs) /\ TaskInv(v)
  BY DEF IInv, AInv
<1>1. news \in Seq(Requests) /\ ToSet(news) = ToSet(newReqs) \ aborted /\ IsInjective(news)
  <2>1. newReqs \in Seq(Requests)
    BY <1>0 DEF Types
  <2> QED
    BY <1>0, <2>1, DroppingFacts DEF Taken
<1>2. /\ task[v].pc = "begin" /\ newReqs' = << >> /\ aborted' = {}
      /\ streams' = streams \cup ToSet(news)
      /\ Finish(ToSet(newReqs) \ ToSet(news), "cancelled")
      /\ task' = [task EXCEPT ![v].pc = "add", ![v].news = news, ![v].aborts = aborts]
      /\ UNCHANGED <<config, client, out, event, held, done, loop, errored, callback, failures>>
  BY DEF StepBegin, engine
<1> HIDE DEF news, aborts
<1>3. task[v].news = << >> /\ task[v].aborts = {} /\ loop # "idle"
  BY <1>0, <1>2 DEF TaskInv
<1>4. task \in [Engines -> Tasks] /\ task[v] \in Tasks /\ aborts \in SUBSET Requests
  BY <1>0 DEF Types, aborts
<1>5. t \in Tasks /\ t.pc = "add" /\ t.news = news /\ t.aborts = aborts
  BY <1>1, <1>4 DEF Tasks, Pcs
<1>6. task' = [task EXCEPT ![v] = t]
  BY <1>2, <1>4
<1> HIDE DEF t
<1>7. task' \in [Engines -> Tasks] /\ task'[v] = t /\ \A u \in Engines : u # v => task'[u] = task[u]
  BY <1>4, <1>5, <1>6
<1>8. ended' = [r \in Requests |->
                  IF r \in ToSet(newReqs) /\ r \in aborted /\ ~ Ended(r) THEN "cancelled" ELSE ended[r]]
  BY <1>1, <1>2 DEF Finish
<1>9. Types'
  <2>1. << >> \in Seq(Requests)
    BY EmptySeq
  <2>2. ended' \in [Requests -> Ends \cup {"open"}]
    BY <1>0, <1>8 DEF Types, Ends
  <2>3. streams' \in SUBSET Requests
    BY <1>0, <1>1, <1>2, SubsetOfSeq DEF Types
  <2> QED
    BY <1>0, <1>2, <1>7, <2>1, <2>2, <2>3 DEF Types
<1>10. ASSUME NEW r \in Requests PROVE OnePlace(r)' /\ StreamInv(r)'
  <2>1. OnePlace(r) /\ StreamInv(r)
    BY DEF IInv, AInv
  <2>2. ~ Queued(r)' /\ r \notin aborted'
    BY <1>2, EmptyFacts DEF Queued
  <2>3. \A u \in Engines : ~ (r \in ToSet(task[v].news)) /\ (Holds(r, u)' <=> Holds(r, u))
    BY <1>2, <1>3, EmptyFacts DEF Holds
  <2>4. Adding(r, v)' <=> Queued(r) /\ r \notin aborted
    BY <1>1, <1>5, <1>7 DEF Adding, Queued
  <2>5. r \in task'[v].aborts <=> r \in aborted /\ ~ Queued(r)
    BY <1>5, <1>7 DEF Queued, aborts
  <2>6. \A u \in Engines : u # v => (Adding(r, u)' <=> Adding(r, u))
                                    /\ (r \in task'[u].aborts <=> r \in task[u].aborts)
    BY <1>7 DEF Adding
  <2>7. ~ Adding(r, v) /\ r \notin task[v].aborts
    BY <1>3, EmptyFacts DEF Adding
  <2>8. r \in streams' <=> r \in streams \/ (Queued(r) /\ r \notin aborted)
    BY <1>1, <1>2 DEF Queued
  <2>9. ended'[r] = (IF Queued(r) /\ r \in aborted /\ ~ Ended(r) THEN "cancelled" ELSE ended[r])
        /\ out'[r] = out[r] /\ done'[r] = done[r] /\ client'[r] = client[r]
    BY <1>2, <1>8 DEF Queued
  <2>10. Outputs[r] > 0 /\ Outputs[r] \in Nat /\ done[r] \in Nat /\ Len(out[r]) \in Nat
    BY <1>0, ConstantFacts, LenProperties DEF Types
  <2>11. OnePlace(r)'
    BY <2>1, <2>2, <2>3, <2>4, <2>5, <2>6, <2>7, <2>8, <2>9, <2>10 DEF OnePlace, Ended
  <2>12. StreamInv(r)'
    <3>1. CASE Queued(r)
      BY <2>1, <2>2, <2>3, <2>4, <2>5, <2>6, <2>7, <2>8, <2>9, <2>10, <3>1 DEF OnePlace, StreamInv, Ended
    <3>2. CASE ~ Queued(r)
      BY <2>1, <2>2, <2>3, <2>4, <2>5, <2>6, <2>7, <2>8, <2>9, <2>10, <3>2 DEF StreamInv, Ended
    <3> QED
      BY <3>1, <3>2
  <2> QED
    BY <2>11, <2>12
<1>11. ASSUME NEW u \in Engines PROVE TaskInv(u)'
  <2>1. CASE u = v
    BY <1>1, <1>2, <1>3, <1>5, <1>7, <2>1 DEF TaskInv
  <2>2. CASE u # v
    BY <1>2, <1>7, <2>2 DEF TaskInv, IInv, AInv
  <2> QED
    BY <2>1, <2>2
<1>12. LeftInv'
  <2>1. OneTracker' <=> OneTracker
    BY <1>2 DEF OneTracker, LazyStart
  <2>2. ASSUME NEW r \in Requests, OneTracker, Left(r) PROVE Left(r)'
    <3>1. \A u \in Engines : u = v
      BY <2>2, ConstantFacts DEF OneTracker
    <3>2. ~ (r \in ToSet(newReqs'))
      BY <1>2, EmptyFacts
    <3>3. r \in ToSet(task'[v].news) <=> r \in ToSet(newReqs) /\ r \notin aborted
      BY <1>1, <1>5, <1>7
    <3>4. r \in task'[v].aborts <=> r \in aborted /\ r \notin ToSet(newReqs)
      BY <1>5, <1>7 DEF aborts
    <3>5. Queued(r) => \A u \in Engines : ~ Holds(r, u)
      BY DEF IInv, AInv, OnePlace
    <3> QED
      BY <1>2, <1>3, <2>2, <3>1, <3>2, <3>3, <3>4, <3>5, EmptyFacts DEF Left, Queued, Adding, Holds
  <2>3. (\E u \in Engines : task'[u].pc = "failed") => (\E u \in Engines : task[u].pc = "failed")
    BY <1>5, <1>7
  <2> QED
    BY <1>2, <2>1, <2>2, <2>3 DEF IInv, LeftInv
<1> QED
  BY <1>2, <1>9, <1>10, <1>11, <1>12, EmptyFacts DEF IInv, AInv


LEMMA LeastLoadedFacts ==
  ASSUME held \in [Engines -> Seq(Requests)]
  PROVE  LeastLoaded \in Engines
<1> DEFINE L == {Len(held[v]) : v \in Engines}
<1>1. \A v \in Engines : Len(held[v]) \in Nat
  BY LenProperties
<1>2. L \in SUBSET Nat /\ L # {}
  BY <1>1, ConstantFacts
<1>3. PICK n \in L : \A m \in L : n <= m
  BY <1>2, LeastNatural
<1> DEFINE V == {v \in Engines : Len(held[v]) = n}
<1>4. V \in SUBSET Nat /\ V # {}
  BY <1>3, ConstantFacts
<1>5. PICK v \in V : \A u \in V : v <= u
  BY <1>4, LeastNatural
<1>6. ASSUME NEW u \in Engines
      PROVE  Len(held[v]) < Len(held[u]) \/ (Len(held[v]) = Len(held[u]) /\ v <= u)
  <2>1. Len(held[u]) \in Nat /\ n \in Nat /\ n <= Len(held[u]) /\ Len(held[v]) = n
    BY <1>1, <1>2, <1>3, <1>5
  <2>2. Len(held[u]) = n => v <= u
    BY <1>5
  <2> QED
    BY <2>1, <2>2
<1>7. v \in Engines
  BY <1>5
<1> QED
  BY <1>6, <1>7 DEF LeastLoaded

LEMMA StepAddStep ==
  ASSUME IInv, NEW v \in Engines, StepAdd(v)
  PROVE  IInv'
<1> DEFINE r == Head(task[v].news)
           t == [task[v] EXCEPT !.news = Tail(@)]
<1>0. Types /\ TaskInv(v) /\ task \in [Engines -> Tasks] /\ held \in [Engines -> Seq(Requests)]
  BY DEF IInv, AInv, Types
<1>1. /\ task[v].pc = "add" /\ task[v].news # << >>
      /\ task' = [task EXCEPT ![v].news = Tail(@)]
      /\ IF r \in Invalid
         THEN AbortRequests({r}, "error") /\ UNCHANGED held
         ELSE /\ held' = [held EXCEPT ![LeastLoaded] = Append(@, r)]
              /\ UNCHANGED <<aborted, streams, ended>>
      /\ UNCHANGED <<config, client, newReqs, out, event, done, loop, errored, callback, failures>>
  BY DEF StepAdd
<1>2. task[v] \in Tasks /\ task[v].news \in Seq(Requests) /\ IsInjective(task[v].news)
  BY <1>0 DEF Tasks, TaskInv
<1>3. r \in Requests /\ Tail(task[v].news) \in Seq(Requests)
      /\ ToSet(task[v].news) = ToSet(Tail(task[v].news)) \cup {r}
      /\ IsInjective(Tail(task[v].news)) /\ r \notin ToSet(Tail(task[v].news))
  BY <1>1, <1>2, TailFacts
<1>4. t \in Tasks /\ t.pc = task[v].pc /\ t.news = Tail(task[v].news) /\ t.aborts = task[v].aborts
  BY <1>2, <1>3 DEF Tasks
<1>5. task' = [task EXCEPT ![v] = t]
  BY <1>1
<1> HIDE DEF t, r
<1>6. task' \in [Engines -> Tasks] /\ task'[v] = t /\ \A u \in Engines : u # v => task'[u] = task[u]
  BY <1>0, <1>4, <1>5
<1>7. ASSUME NEW x \in Requests, NEW u \in Engines
      PROVE  /\ x \in ToSet(task'[u].news) <=> x \in ToSet(task[u].news) /\ ~ (x = r /\ u = v)
             /\ x \in task'[u].aborts <=> x \in task[u].aborts
  BY <1>3, <1>4, <1>6
<1>8. r \in ToSet(task[v].news)
  BY <1>3
<1>9. ASSUME NEW u \in Engines PROVE TaskInv(u)'
  <2>1. CASE u = v
    BY <1>0, <1>1, <1>3, <1>4, <1>6, <2>1 DEF TaskInv
  <2>2. CASE u # v
    BY <1>1, <1>6, <2>2 DEF TaskInv, IInv, AInv
  <2> QED
    BY <2>1, <2>2
<1>10. (\E u \in Engines : task'[u].pc = "failed") => (\E u \in Engines : task[u].pc = "failed")
  BY <1>4, <1>6
<1>11. OneTracker' <=> OneTracker
  BY <1>1 DEF OneTracker, LazyStart
<1>12. IsInjective(newReqs') /\ OnePlace(r)
  BY <1>1, <1>3 DEF IInv, AInv
<1>13. CASE r \in Invalid
  <2>1. AbortRequests({r}, "error") /\ held' = held /\ {r} \in SUBSET Requests
    BY <1>1, <1>3, <1>13
  <2>2. aborted' \in SUBSET Requests /\ streams' \in SUBSET Requests
        /\ ended' \in [Requests -> Ends \cup {"open"}]
    BY <1>0, <2>1, AbortTypes
  <2>3. Types'
    BY <1>0, <1>1, <1>6, <2>1, <2>2 DEF Types
  <2>4. ASSUME NEW x \in Requests PROVE OnePlace(x)' /\ StreamInv(x)'
    <3>1. OnePlace(x) /\ StreamInv(x) /\ (Queued(x)' => Queued(x))
      BY <1>1 DEF IInv, AInv, Queued
    <3>2. (x \in {r} => client'[x] # "new") /\ (client'[x] = "new" => client[x] = "new")
      BY <1>1, <1>8, <1>12 DEF OnePlace, Adding
    <3>3. out'[x] = out[x] /\ done'[x] = done[x] /\ held' = held
      BY <1>1, <2>1
    <3>4. \A u \in Engines : (x \in ToSet(task'[u].news) => x \in ToSet(task[u].news))
                             /\ (x \in task'[u].aborts => x \in task[u].aborts)
      BY <1>7
    <3>5. x \notin {r} => \A u \in Engines : x \in ToSet(task[u].news) => x \in ToSet(task'[u].news)
      BY <1>7
    <3> QED
      BY <2>1, <3>1, <3>2, <3>3, <3>4, <3>5, AbortedRequest
  <2>5. ASSUME NEW x \in Requests, Left(x) PROVE Left(x)'
    <3>1. aborted' = aborted \cup {r}
      BY <2>1 DEF AbortRequests
    <3> QED
      BY <1>1, <1>7, <2>1, <2>5, <3>1 DEF Left, Queued, Adding, Holds
  <2> QED
    BY <1>1, <1>9, <1>10, <1>11, <1>12, <2>3, <2>4, <2>5 DEF IInv, AInv, LeftInv
<1>14. CASE r \notin Invalid
  <2> DEFINE m == LeastLoaded
             h == Append(held[m], r)
  <2>1. m \in Engines
    BY <1>0, LeastLoadedFacts
  <2>2. h \in Seq(Requests) /\ ToSet(h) = ToSet(held[m]) \cup {r}
    BY <1>0, <1>3, <2>1, AppendFacts
  <2>3. held' = [held EXCEPT ![m] = h] /\ UNCHANGED <<aborted, streams, ended>>
    BY <1>1, <1>14
  <2> HIDE DEF m, h
  <2>4. held' \in [Engines -> Seq(Requests)] /\ held'[m] = h
        /\ \A u \in Engines : u # m => held'[u] = held[u]
    BY <1>0, <2>1, <2>2, <2>3
  <2>5. Types'
    BY <1>0, <1>1, <1>6, <2>3, <2>4 DEF Types
  <2>6. ASSUME NEW x \in Requests, NEW u \in Engines
        PROVE  x \in ToSet(held'[u]) <=> x \in ToSet(held[u]) \/ (x = r /\ u = m)
    BY <2>2, <2>4
  <2>7. ASSUME NEW x \in Requests PROVE OnePlace(x)' /\ StreamInv(x)'
    <3>1. OnePlace(x) /\ StreamInv(x) /\ (Queued(x)' <=> Queued(x)) /\ client'[x] = client[x]
      BY <1>1 DEF IInv, AInv, Queued
    <3>2. out'[x] = out[x] /\ done'[x] = done[x] /\ ended'[x] = ended[x]
          /\ streams' = streams /\ aborted' = aborted
      BY <1>1, <2>3
    <3>3. CASE x # r
      BY <1>7, <2>6, <3>1, <3>2, <3>3, SameRequest
    <3>4. CASE x = r
      <4>1. Adding(x, v) /\ client[x] # "new" /\ ~ Queued(x) /\ done[x] = 0
        BY <1>8, <3>1, <3>4 DEF OnePlace, Adding
      <4>2. \A u \in Engines : ~ Holds(x, u) /\ (Adding(x, u) => u = v)
        BY <3>1, <4>1 DEF OnePlace
      <4>3. \A u \in Engines : ~ Adding(x, u)' /\ (Holds(x, u)' <=> u = m)
        BY <1>7, <2>6, <3>4, <4>2 DEF Adding, Holds
      <4>4. \A u \in Engines : x \in task'[u].aborts <=> x \in task[u].aborts
        BY <1>7
      <4>5. Outputs[x] > 0 /\ Outputs[x] \in Nat
        BY ConstantFacts
      <4>6. OnePlace(x)'
        BY <3>1, <3>2, <4>1, <4>3, <4>4, <4>5 DEF OnePlace
      <4>7. StreamInv(x)'
        BY <2>1, <3>1, <3>2, <4>3, <4>4 DEF StreamInv, Ended
      <4> QED
        BY <4>6, <4>7
    <3> QED
      BY <3>3, <3>4
  <2>8. ASSUME NEW x \in Requests, OneTracker, Left(x) PROVE Left(x)'
    <3>1. \A u \in Engines : u = v
      BY <2>8, ConstantFacts DEF OneTracker
    <3> QED
      BY <1>1, <1>7, <1>8, <2>1, <2>3, <2>6, <2>8, <3>1 DEF Left, Queued, Adding, Holds
  <2> QED
    BY <1>1, <1>9, <1>10, <1>11, <1>12, <2>5, <2>7, <2>8 DEF IInv, AInv, LeftInv
<1> QED
  BY <1>13, <1>14


LEMMA StepScheduleStep ==
  ASSUME IInv, NEW v \in Engines, StepSchedule(v)
  PROVE  IInv'
<1> DEFINE kept == AfterAborts(v)
           n == IF Len(kept[v]) < MaxSeqs THEN Len(kept[v]) ELSE MaxSeqs
           batch == ToSet(SubSeq(kept[v], 1, n))
           pc == IF batch = {} THEN "done" ELSE "execute"
           t == [task[v] EXCEPT !.pc = pc, !.aborts = {}, !.batch = batch, !.more = FALSE]
<1>0. Types /\ TaskInv(v) /\ task \in [Engines -> Tasks] /\ held \in [Engines -> Seq(Requests)]
  BY DEF IInv, AInv, Types
<1>1. /\ task[v].pc = "add" /\ task[v].news = << >> /\ held' = kept
      /\ task' = [task EXCEPT ![v].pc = pc, ![v].aborts = {}, ![v].batch = batch, ![v].more = FALSE]
      /\ UNCHANGED <<config, client, newReqs, aborted, streams, out, ended, event, done, loop,
                     errored, callback, failures>>
  BY DEF StepSchedule, tracker
<1>2. ASSUME NEW u \in Engines
      PROVE  kept[u] \in Seq(Requests) /\ ToSet(kept[u]) = ToSet(held[u]) \ task[v].aborts
  <2>1. kept[u] = Dropping(held[u], task[v].aborts) /\ held[u] \in Seq(Requests)
    BY <1>0 DEF AfterAborts
  <2> HIDE DEF kept
  <2> QED
    BY <2>1, DroppingFacts
<1>3. kept \in [Engines -> Seq(Requests)]
  <2>1. kept = [u \in Engines |-> kept[u]]
    BY DEF AfterAborts
  <2> HIDE DEF kept
  <2> QED
    BY <1>2, <2>1
<1> HIDE DEF kept
<1>4. batch \in SUBSET Requests
  <2>1. kept[v] \in Seq(Requests) /\ Len(kept[v]) \in Nat /\ MaxSeqs \in Nat
    BY <1>2, LenProperties, AsyncAssumption
  <2>2. n \in Nat /\ n <= Len(kept[v])
    BY <2>1
  <2> HIDE DEF n
  <2>3. SubSeq(kept[v], 1, n) \in Seq(Requests)
    <3>1. \A i \in 1 .. n : kept[v][i] \in Requests
      BY <2>1, <2>2, ElementOfSeq
    <3> QED
      BY <2>1, <2>2, <3>1, SubSeqProperties
  <2> QED
    BY <2>3, SubsetOfSeq
<1> HIDE DEF batch
<1>5. task[v] \in Tasks /\ pc \in Pcs /\ pc # "add" /\ pc # "none" /\ pc # "failed"
  BY <1>0 DEF Pcs
<1> HIDE DEF pc
<1>6. t \in Tasks /\ t.pc = pc /\ t.news = task[v].news /\ t.aborts = {}
  BY <1>4, <1>5 DEF Tasks
<1>7. task' = [task EXCEPT ![v] = t]
  BY <1>1
<1> HIDE DEF t
<1>8. task' \in [Engines -> Tasks] /\ task'[v] = t /\ \A u \in Engines : u # v => task'[u] = task[u]
  BY <1>0, <1>6, <1>7
<1>9. Types'
  BY <1>0, <1>1, <1>3, <1>8 DEF Types
<1>10. ASSUME NEW x \in Requests, NEW u \in Engines
       PROVE  /\ x \in ToSet(held'[u]) <=> x \in ToSet(held[u]) /\ x \notin task[v].aborts
              /\ x \in ToSet(task'[u].news) <=> x \in ToSet(task[u].news)
              /\ x \in task'[u].aborts <=> x \in task[u].aborts /\ u # v
  BY <1>1, <1>2, <1>6, <1>8
<1>11. ASSUME NEW x \in Requests PROVE OnePlace(x)' /\ StreamInv(x)'
  <2>1. OnePlace(x) /\ StreamInv(x) /\ (Queued(x)' <=> Queued(x)) /\ client'[x] = client[x]
    BY <1>1 DEF IInv, AInv, Queued
  <2>2. out'[x] = out[x] /\ done'[x] = done[x] /\ ended'[x] = ended[x]
        /\ streams' = streams /\ aborted' = aborted
    BY <1>1
  <2>3. OnePlace(x)'
    BY <1>10, <2>1, <2>2 DEF OnePlace, Adding, Holds, Ended
  <2>4. StreamInv(x)'
    BY <1>10, <2>1, <2>2 DEF StreamInv, Adding, Holds, Ended
  <2> QED
    BY <2>3, <2>4
<1>12. ASSUME NEW u \in Engines PROVE TaskInv(u)'
  <2>1. CASE u = v
    BY <1>0, <1>1, <1>6, <1>8, <2>1, EmptyFacts DEF TaskInv
  <2>2. CASE u # v
    BY <1>1, <1>8, <2>2 DEF TaskInv, IInv, AInv
  <2> QED
    BY <2>1, <2>2
<1>13. LeftInv'
  <2>1. OneTracker' <=> OneTracker
    BY <1>1 DEF OneTracker, LazyStart
  <2>2. ASSUME NEW x \in Requests, OneTracker, Left(x) PROVE Left(x)'
    <3>1. \A u \in Engines : u = v
      BY <2>2, ConstantFacts DEF OneTracker
    <3> QED
      BY <1>1, <1>10, <2>2, <3>1, EmptyFacts DEF Left, Queued, Adding, Holds
  <2>3. (\E u \in Engines : task'[u].pc = "failed") => (\E u \in Engines : task[u].pc = "failed")
    BY <1>5, <1>6, <1>8
  <2> QED
    BY <1>1, <2>1, <2>2, <2>3 DEF IInv, LeftInv
<1> QED
  BY <1>1, <1>9, <1>11, <1>12, <1>13 DEF IInv, AInv

LEMMA StepOutputsStep ==
  ASSUME IInv, NEW v \in Engines, StepOutputs(v)
  PROVE  IInv'
<1> DEFINE live == task[v].batch \cap ToSet(held[v])
           fin == Completed(live)
           more == fin # live
           t == [task[v] EXCEPT !.pc = "done", !.batch = {}, !.more = more]
<1>0. Types /\ TaskInv(v) /\ task \in [Engines -> Tasks] /\ held \in [Engines -> Seq(Requests)]
  BY DEF IInv, AInv, Types
<1>1. /\ task[v].pc = "execute"
      /\ done' = [x \in Requests |-> IF x \in live THEN done[x] + 1 ELSE done[x]]
      /\ held' = [held EXCEPT ![v] = Dropping(@, fin)]
      /\ Put(live \cap streams, [x \in Requests |-> done[x] + 1])
      /\ Finish(fin \cap streams, "stop")
      /\ streams' = streams \ fin
      /\ task' = [task EXCEPT ![v].pc = "done", ![v].batch = {}, ![v].more = more]
      /\ UNCHANGED <<config, client, newReqs, aborted, event, loop, errored, callback, failures>>
  BY DEF StepOutputs
<1>2. \A x \in Requests : x \in fin <=> x \in live /\ done[x] + 1 = Outputs[x]
  BY DEF Completed
<1>3. live \in SUBSET ToSet(held[v]) /\ fin \in SUBSET live /\ more \in BOOLEAN
  BY DEF Completed
<1>4. t \in Tasks /\ t.pc = "done" /\ t.news = task[v].news /\ t.aborts = task[v].aborts
  <2>1. task[v] \in Tasks
    BY <1>0
  <2> HIDE DEF more
  <2> QED
    BY <1>3, <2>1 DEF Tasks, Pcs
<1>5. task' = [task EXCEPT ![v] = t]
  BY <1>1
<1> HIDE DEF t, live, fin, more
<1>6. task' \in [Engines -> Tasks] /\ task'[v] = t /\ \A u \in Engines : u # v => task'[u] = task[u]
  BY <1>0, <1>4, <1>5
<1>7. Dropping(held[v], fin) \in Seq(Requests) /\ ToSet(Dropping(held[v], fin)) = ToSet(held[v]) \ fin
  <2>1. held[v] \in Seq(Requests)
    BY <1>0
  <2> QED
    BY <2>1, DroppingFacts
<1>8. held' \in [Engines -> Seq(Requests)] /\ held'[v] = Dropping(held[v], fin)
      /\ \A u \in Engines : u # v => held'[u] = held[u]
  BY <1>0, <1>1, <1>7
<1>9. ASSUME NEW x \in Requests, NEW u \in Engines
      PROVE  /\ x \in ToSet(held'[u]) <=> x \in ToSet(held[u]) /\ ~ (u = v /\ x \in fin)
             /\ x \in ToSet(task'[u].news) <=> x \in ToSet(task[u].news)
             /\ x \in task'[u].aborts <=> x \in task[u].aborts
  BY <1>4, <1>6, <1>7, <1>8
<1>10. ASSUME NEW x \in Requests
       PROVE  /\ done'[x] = IF x \in live THEN done[x] + 1 ELSE done[x]
              /\ out'[x] = IF x \in live /\ x \in streams /\ ~ Ended(x) THEN Append(out[x], done[x] + 1)
                           ELSE out[x]
              /\ ended'[x] = IF x \in fin /\ x \in streams /\ ~ Ended(x) THEN "stop" ELSE ended[x]
              /\ client'[x] = client[x] /\ aborted' = aborted
              /\ x \in streams' <=> x \in streams /\ x \notin fin
  BY <1>1 DEF Put, Finish
<1>11. done \in [Requests -> Nat] /\ out \in [Requests -> Seq(Nat)]
  BY <1>0 DEF Types
<1>12. Types'
  <2>1. done' \in [Requests -> Nat]
    BY <1>1, <1>11
  <2>2. ASSUME NEW x \in Requests PROVE out'[x] \in Seq(Nat)
    <3>1. out[x] \in Seq(Nat) /\ done[x] + 1 \in Nat
      BY <1>11
    <3>2. Append(out[x], done[x] + 1) \in Seq(Nat)
      BY <3>1, AppendProperties
    <3> QED
      BY <1>10, <3>1, <3>2
  <2>3. out' \in [Requests -> Seq(Nat)]
    <3>1. out' = [x \in Requests |-> out'[x]]
      BY <1>1 DEF Put
    <3> QED
      BY <2>2, <3>1
  <2>4. ended' \in [Requests -> Ends \cup {"open"}]
    BY <1>0, <1>1 DEF Types, Finish, Ends
  <2> QED
    BY <1>0, <1>1, <1>6, <1>8, <2>1, <2>3, <2>4 DEF Types
<1>13. ASSUME NEW x \in Requests PROVE OnePlace(x)' /\ StreamInv(x)'
  <2>1. OnePlace(x) /\ StreamInv(x) /\ (Queued(x)' <=> Queued(x))
    BY <1>1 DEF IInv, AInv, Queued
  <2>2. CASE x \notin live
    <3>1. x \notin fin
      BY <1>3, <2>2
    <3> QED
      BY <1>9, <1>10, <2>1, <2>2, <3>1, SameRequest
  <2>3. CASE x \in live
    <3>1. Holds(x, v) /\ done[x] \in Nat /\ Outputs[x] \in Nat
      BY <1>3, <1>11, <2>3, ConstantFacts DEF Holds
    <3>2. done[x] < Outputs[x] /\ client[x] # "new" /\ ~ Queued(x)
          /\ \A u \in Engines : ~ Adding(x, u) /\ (Holds(x, u) => u = v)
      BY <2>1, <3>1 DEF OnePlace
    <3>3. done'[x] = done[x] + 1 /\ (x \in fin <=> done[x] + 1 = Outputs[x])
      BY <1>2, <1>10, <2>3
    <3>4. \A u \in Engines : ~ Adding(x, u)' /\ (Holds(x, u)' <=> u = v /\ x \notin fin)
      BY <1>9, <3>1, <3>2 DEF Adding, Holds
    <3>5. client'[x] # "new" /\ ~ Queued(x)'
      BY <1>10, <2>1, <3>2
    <3>6. OnePlace(x)'
      BY <3>1, <3>2, <3>3, <3>4, <3>5 DEF OnePlace
    <3>7. CASE x \in streams
      <4>1. ~ Ended(x) /\ Len(out[x]) = done[x] /\ out[x] \in Seq(Nat)
            /\ \A i \in DOMAIN out[x] : out[x][i] = i
        BY <1>11, <2>1, <3>7 DEF StreamInv
      <4>2. out'[x] = Append(out[x], done[x] + 1)
        BY <1>10, <2>3, <3>7, <4>1
      <4> DEFINE o == Append(out[x], done[x] + 1)
      <4>3. o \in Seq(Nat) /\ Len(o) = done[x] + 1 /\ o[done[x] + 1] = done[x] + 1
            /\ \A i \in 1 .. done[x] : o[i] = out[x][i]
        <5>1. done[x] + 1 \in Nat
          BY <3>1
        <5> QED
          BY <4>1, <5>1, AppendProperties
      <4> HIDE DEF o
      <4>4. DOMAIN o = 1 .. done[x] + 1 /\ DOMAIN out[x] = 1 .. done[x]
        BY <4>1, <4>3, LenProperties
      <4>5. ASSUME NEW i \in DOMAIN o PROVE o[i] = i
        <5>1. i \in 1 .. done[x] \/ i = done[x] + 1
          BY <3>1, <4>4
        <5>2. CASE i \in 1 .. done[x]
          BY <4>1, <4>3, <4>4, <5>2
        <5>3. CASE i = done[x] + 1
          BY <4>3, <5>3
        <5> QED
          BY <5>1, <5>2, <5>3
      <4>6. out'[x] = o
        BY <4>2 DEF o
      <4>7. ended'[x] = IF x \in fin THEN "stop" ELSE ended[x]
        BY <1>10, <3>7, <4>1
      <4>8. x \notin aborted' /\ \A u \in Engines : x \notin task'[u].aborts
        BY <1>9, <1>10, <2>1, <3>7 DEF StreamInv
      <4>9. (x \in streams' => x \notin fin) /\ (~ Ended(x) => ended[x] = "open")
        BY <1>10 DEF Ended
      <4> QED
        BY <3>1, <3>2, <3>3, <3>4, <3>6, <4>1, <4>3, <4>5, <4>6, <4>7, <4>8, <4>9 DEF StreamInv, Ended
    <3>8. CASE x \notin streams
      <4>1. out'[x] = out[x] /\ ended'[x] = ended[x] /\ x \notin streams'
        BY <1>10, <3>8
      <4>2. Len(out[x]) \in Nat
        BY <1>11, LenProperties
      <4> QED
        BY <2>1, <3>1, <3>2, <3>3, <3>6, <4>1, <4>2 DEF StreamInv
    <3> QED
      BY <3>7, <3>8
  <2> QED
    BY <2>2, <2>3
<1>14. ASSUME NEW u \in Engines PROVE TaskInv(u)'
  <2>1. CASE u = v
    BY <1>0, <1>1, <1>4, <1>6, <2>1 DEF TaskInv
  <2>2. CASE u # v
    BY <1>1, <1>6, <2>2 DEF TaskInv, IInv, AInv
  <2> QED
    BY <2>1, <2>2
<1>15. LeftInv'
  <2>1. OneTracker' <=> OneTracker
    BY <1>1 DEF OneTracker, LazyStart
  <2>2. ASSUME NEW x \in Requests, Left(x) PROVE Left(x)'
    BY <1>1, <1>9, <2>2 DEF Left, Queued, Adding, Holds
  <2>3. (\E u \in Engines : task'[u].pc = "failed") => (\E u \in Engines : task[u].pc = "failed")
    BY <1>4, <1>6
  <2> QED
    BY <1>1, <2>1, <2>2, <2>3 DEF IInv, LeftInv
<1> QED
  BY <1>1, <1>12, <1>13, <1>14, <1>15 DEF IInv, AInv


-----------------------------------------------------------------------------
LEMMA NextInv == IInv /\ [Next]_vars => IInv'
<1> SUFFICES ASSUME IInv, [Next]_vars PROVE IInv'
  OBVIOUS
<1>1. CASE \E r \in Requests : AddRequest(r) \/ AddRequestStarts(r) \/ AddRefused(r) \/ Disconnect(r)
  BY <1>1, AddRequestStep, AddRequestStartsStep, AddRefusedStep, DisconnectStep
<1>2. CASE LoopStep
  <2>1. CASE LoopTop \/ LoopWake \/ LoopFails
    BY <2>1, LoopStepInv
  <2>2. CASE \E d \in SUBSET Engines : \E last \in d : LoopTasksDone(d, last)
    BY <2>2, LoopTasksDoneStep
  <2> QED
    BY <1>2, <2>1, <2>2 DEF LoopStep
<1>3. CASE LoopTimeout \/ UNCHANGED vars
  BY <1>3, LoopStepInv
<1>4. CASE ErrorCallback
  BY <1>4, ErrorCallbackStep
<1>5. CASE \E v \in Engines : TaskStep(v) \/ StepFails(v)
  <2>1. PICK v \in Engines : TaskStep(v) \/ StepFails(v)
    BY <1>5
  <2>2. CASE StepFails(v)
    BY <2>2, LoopStepInv
  <2>3. CASE TaskStep(v)
    BY <2>3, StepBeginStep, StepAddStep, StepScheduleStep, StepOutputsStep DEF TaskStep
  <2> QED
    BY <2>1, <2>2, <2>3
<1> QED
  BY <1>1, <1>2, <1>3, <1>4, <1>5 DEF Next

LEMMA IInvHolds == Spec => []IInv
BY InitInv, NextInv, PTL DEF Spec

\* Whatever the interleaving of handlers, engine steps, failures and the loop's
\* restarts, with any number of schedulers: a handler reads the outputs 1, 2, ...
\* without a gap and a normal end exactly after the last one, and a stream in
\* _request_streams is open and belongs to a request that a step is about to add
\* or a scheduler holds.
THEOREM StreamsStayTracked == Spec => []StreamsTracked
<1>1. IInv => StreamsTracked
  <2> SUFFICES ASSUME IInv PROVE StreamsTracked
    OBVIOUS
  <2>1. Types /\ \A r \in Requests : StreamInv(r)
    BY DEF IInv, AInv
  <2>2. TypeOK
    BY <2>1 DEF Types, TypeOK, StreamInv
  <2>3. ASSUME NEW r \in Requests
        PROVE  /\ \A i \in DOMAIN out[r] : out[r][i] = i
               /\ ended[r] = "stop" <=> Len(out[r]) = Outputs[r]
    BY <2>1 DEF StreamInv
  <2>4. ASSUME NEW r \in streams
        PROVE  ~ Ended(r) /\ \E v \in Engines : r \in ToSet(task[v].news) \cup ToSet(held[v])
    <3>1. r \in Requests
      BY <2>1 DEF Types
    <3> QED
      BY <2>1, <3>1 DEF StreamInv, Adding, Holds
  <2> QED
    BY <2>2, <2>3, <2>4 DEF StreamsTracked
<1> QED
  BY <1>1, IInvHolds, PTL

\* With one scheduler (no pipeline parallelism), unless a failed loop was replaced
\* by a new one: a request whose handler has left is in the engine only while its
\* abort is on its way, at whatever point of the loop the handler left.
THEOREM AbortsArrive ==
  ASSUME NumEngines = 1
  PROVE  Spec => [](failures = 0 \/ ~ LazyStart => AbortsNotForgotten)
<1>1. IInv => (failures = 0 \/ ~ LazyStart => AbortsNotForgotten)
  <2> SUFFICES ASSUME IInv, failures = 0 \/ ~ LazyStart, NEW r \in Requests, NEW v \in Engines,
                      client[r] = "closed", r \in ToSet(held[v])
               PROVE  r \in aborted \cup UNION {task[u].aborts : u \in Engines}
    BY DEF AbortsNotForgotten
  <2>1. Left(r)
    BY DEF IInv, LeftInv, OneTracker
  <2> QED
    BY <2>1 DEF Left, Holds
<1> QED
  BY <1>1, IInvHolds, PTL
=============================================================================
