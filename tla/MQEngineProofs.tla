--------------------------- MODULE MQEngineProofs ---------------------------
(***************************************************************************)
(* Proof that an abort reaches an engine that the client takes for         *)
(* healthy, for any requests and any number of faults.                     *)
(***************************************************************************)
EXTENDS MQEngine, SequenceTheorems, TLAPS

Replies ==
  [kind : {"error", "outputs"}, req : Requests \cup {NoRequest}, critical : BOOLEAN,
   outs : SUBSET Requests]

\* The outputs for r in the socket o can be numbered upwards within lo + 1 .. hi.
Numbered(o, r, lo, hi) ==
  \E f \in [1 .. Len(o) -> Nat] :
    /\ \A i \in 1 .. Len(o) : r \in o[i].outs => lo < f[i] /\ f[i] <= hi
    /\ \A i, j \in 1 .. Len(o) :
         i < j /\ r \in o[i].outs /\ r \in o[j].outs => f[i] < f[j]

Shapes ==
  /\ handler \in [Requests -> {"new", "checked", "open", "closed"}]
  /\ queues \subseteq Requests /\ held \subseteq Requests
  /\ got \in [Requests -> Nat] /\ done \in [Requests -> Nat]
  /\ answer \in [Requests -> {"none", "finished", "error"}]
  /\ input \in Seq(Messages) /\ output \in Seq(Replies)
  /\ engine \in {"input", "step", "failed", "hung", "dead"}
  /\ errored \in BOOLEAN /\ outLoop \in BOOLEAN /\ healthLoop \in BOOLEAN
  /\ unhealthy \in BOOLEAN /\ engErrored \in BOOLEAN /\ workers \in BOOLEAN

\* Outputs are generated, sent and received once each.
OutputsCounted ==
  \A r \in Requests :
    /\ got[r] <= done[r] /\ done[r] <= Outputs[r]
    /\ Numbered(output, r, got[r], done[r])
    /\ answer[r] = "finished" => done[r] = Outputs[r]
    /\ r \in held => done[r] < Outputs[r]

\* A request is sent once, and is not in the engine before it arrives.
SentOnce ==
  /\ \A i \in 1 .. Len(input) : input[i].kind = "process" =>
       LET r == input[i].req
       IN r \notin held /\ done[r] = 0 /\ handler[r] \in {"open", "closed"}
  /\ \A i, j \in 1 .. Len(input) :
       input[i].kind = "process" /\ input[j] = input[i] => i = j
  /\ \A r \in Requests : handler[r] \in {"new", "checked"} => r \notin held /\ done[r] = 0

Abort(r) == [kind |-> "abort", req |-> r]

\* A handler that leaves while the client is not errored leaves an abort behind
\* the request.
AbortBehind ==
  \A r \in Requests : handler[r] = "closed" /\ ~ errored =>
    /\ r \in held => \E i \in 1 .. Len(input) : input[i] = Abort(r)
    /\ \A i \in 1 .. Len(input) : input[i].kind = "process" /\ input[i].req = r =>
         \E j \in 1 .. Len(input) : i < j /\ input[j] = Abort(r)

IInv == Shapes /\ OutputsCounted /\ SentOnce /\ AbortBehind

-----------------------------------------------------------------------------
\* Facts about sockets.
LEMMA AppendElements ==
  ASSUME NEW S, NEW q \in Seq(S), NEW e \in S
  PROVE  /\ Append(q, e) \in Seq(S) /\ Len(Append(q, e)) = Len(q) + 1 /\ Len(q) \in Nat
         /\ \A i \in 1 .. Len(q) : Append(q, e)[i] = q[i]
         /\ Append(q, e)[Len(q) + 1] = e
BY AppendProperties, LenProperties

LEMMA TailElements ==
  ASSUME NEW S, NEW q \in Seq(S), q # << >>
  PROVE  /\ Tail(q) \in Seq(S) /\ Head(q) \in S /\ Head(q) = q[1]
         /\ Len(q) \in Nat /\ Len(q) >= 1 /\ Len(Tail(q)) = Len(q) - 1
         /\ \A i \in 1 .. Len(q) - 1 : Tail(q)[i] = q[i + 1]
BY HeadTailProperties, LenProperties, EmptySeq

LEMMA Constants == \A r \in Requests : Outputs[r] \in Nat /\ Outputs[r] >= 1
BY MQAssumption

\* A message without output for r, and one with r's next output.
LEMMA NumberedAppend ==
  ASSUME NEW o \in Seq(Replies), NEW m \in Replies, NEW r, NEW lo \in Nat, NEW hi \in Nat,
         lo <= hi, Numbered(o, r, lo, hi)
  PROVE  /\ r \notin m.outs => Numbered(Append(o, m), r, lo, hi)
         /\ Numbered(Append(o, m), r, lo, hi + 1)
<1> DEFINE p == Append(o, m)
<1>1. /\ p \in Seq(Replies) /\ Len(p) = Len(o) + 1 /\ Len(o) \in Nat
      /\ \A i \in 1 .. Len(o) : p[i] = o[i]
      /\ p[Len(o) + 1] = m
  BY AppendElements
<1>2. PICK f \in [1 .. Len(o) -> Nat] :
        /\ \A i \in 1 .. Len(o) : r \in o[i].outs => lo < f[i] /\ f[i] <= hi
        /\ \A i, j \in 1 .. Len(o) :
             i < j /\ r \in o[i].outs /\ r \in o[j].outs => f[i] < f[j]
  BY DEF Numbered
<1> DEFINE g == [i \in 1 .. Len(p) |-> IF i = Len(o) + 1 THEN hi + 1 ELSE f[i]]
<1> HIDE DEF p
<1>3. /\ g \in [1 .. Len(p) -> Nat] /\ g[Len(o) + 1] = hi + 1
      /\ \A i \in 1 .. Len(o) : i \in 1 .. Len(p) /\ g[i] = f[i]
  BY <1>1, <1>2
<1>4. \A i \in 1 .. Len(p) : i \in 1 .. Len(o) \/ i = Len(o) + 1
  BY <1>1
<1> HIDE DEF g
<1>5. ASSUME NEW i \in 1 .. Len(p), r \in p[i].outs
      PROVE  lo < g[i] /\ g[i] <= hi + 1
  <2>1. CASE i \in 1 .. Len(o)
    <3>1. lo < f[i] /\ f[i] <= hi /\ f[i] \in Nat /\ g[i] = f[i]
      BY <1>1, <1>2, <1>3, <1>5, <2>1
    <3> QED
      BY <3>1
  <2>2. CASE i = Len(o) + 1
    BY <1>3, <2>2
  <2> QED
    BY <1>4, <2>1, <2>2
<1>6. \A i, j \in 1 .. Len(p) :
        i < j /\ r \in p[i].outs /\ r \in p[j].outs => g[i] < g[j]
  <2> SUFFICES ASSUME NEW i \in 1 .. Len(p), NEW j \in 1 .. Len(p), i < j,
                      r \in p[i].outs, r \in p[j].outs
               PROVE  g[i] < g[j]
    OBVIOUS
  <2>1. i \in 1 .. Len(o)
    BY <1>1
  <2>2. CASE j \in 1 .. Len(o)
    BY <1>1, <1>2, <1>3, <2>1, <2>2
  <2>3. CASE j = Len(o) + 1
    <3>1. f[i] <= hi /\ f[i] \in Nat /\ g[i] = f[i] /\ p[i] = o[i]
      BY <1>1, <1>2, <1>3, <2>1
    <3>2. g[j] = hi + 1
      BY <1>3, <2>3
    <3> QED
      BY <3>1, <3>2
  <2> QED
    BY <1>4, <2>2, <2>3
<1>7. Numbered(p, r, lo, hi + 1)
  BY <1>3, <1>5, <1>6 DEF Numbered
<1>8. ASSUME r \notin m.outs PROVE Numbered(p, r, lo, hi)
  <2>1. \A i \in 1 .. Len(p) : r \in p[i].outs => lo < g[i] /\ g[i] <= hi
    BY <1>1, <1>2, <1>3, <1>4, <1>8
  <2> QED
    BY <1>3, <1>6, <2>1 DEF Numbered
<1> QED
  BY <1>7, <1>8 DEF p

\* The first message is taken, with or without r's next output.
LEMMA NumberedTail ==
  ASSUME NEW o \in Seq(Replies), o # << >>, NEW r, NEW lo \in Nat, NEW hi \in Nat,
         Numbered(o, r, lo, hi)
  PROVE  /\ Numbered(Tail(o), r, lo, hi)
         /\ r \in Head(o).outs => lo + 1 <= hi /\ Numbered(Tail(o), r, lo + 1, hi)
<1> DEFINE p == Tail(o)
<1>1. /\ Head(o) = o[1] /\ Len(o) \in Nat /\ Len(o) >= 1 /\ Len(p) = Len(o) - 1
      /\ \A i \in 1 .. Len(p) : p[i] = o[i + 1]
  BY TailElements
<1>2. PICK f \in [1 .. Len(o) -> Nat] :
        /\ \A i \in 1 .. Len(o) : r \in o[i].outs => lo < f[i] /\ f[i] <= hi
        /\ \A i, j \in 1 .. Len(o) :
             i < j /\ r \in o[i].outs /\ r \in o[j].outs => f[i] < f[j]
  BY DEF Numbered
<1> DEFINE g == [i \in 1 .. Len(p) |-> f[i + 1]]
<1> HIDE DEF p
<1>3. \A i \in 1 .. Len(p) : i + 1 \in 1 .. Len(o) /\ 1 < i + 1
  BY <1>1
<1>4. /\ g \in [1 .. Len(p) -> Nat]
      /\ \A i \in 1 .. Len(p) : g[i] = f[i + 1]
  BY <1>2, <1>3
<1> HIDE DEF g
<1>5. ASSUME NEW i \in 1 .. Len(p), NEW j \in 1 .. Len(p), i < j,
             r \in p[i].outs, r \in p[j].outs
      PROVE  g[i] < g[j]
  <2>1. i + 1 < j + 1 /\ i + 1 \in 1 .. Len(o) /\ j + 1 \in 1 .. Len(o)
    BY <1>3, <1>5
  <2>2. r \in o[i + 1].outs /\ r \in o[j + 1].outs
    BY <1>1, <1>5
  <2> QED
    BY <1>2, <1>4, <2>1, <2>2
<1>6. \A i \in 1 .. Len(p) : r \in p[i].outs => lo < g[i] /\ g[i] <= hi
  BY <1>1, <1>2, <1>3, <1>4
<1>7. ASSUME r \in Head(o).outs
      PROVE  lo + 1 <= hi /\ Numbered(p, r, lo + 1, hi)
  <2>1. 1 \in 1 .. Len(o) /\ r \in o[1].outs
    BY <1>1, <1>7
  <2>2. lo < f[1] /\ f[1] <= hi /\ f[1] \in Nat
    BY <1>2, <2>1
  <2>3. \A i \in 1 .. Len(p) : r \in p[i].outs => f[1] < f[i + 1] /\ f[i + 1] \in Nat
    BY <1>1, <1>2, <1>3, <2>1
  <2>4. \A i \in 1 .. Len(p) : r \in p[i].outs => lo + 1 < g[i] /\ g[i] <= hi
    BY SMTT(30), <1>4, <1>6, <2>2, <2>3
  <2>5. Numbered(p, r, lo + 1, hi)
    BY <1>4, <1>5, <2>4 DEF Numbered
  <2> QED
    BY <2>2, <2>5
<1> QED
  BY <1>4, <1>5, <1>6, <1>7 DEF Numbered, p

\* The messages behind the first n are lost.
LEMMA NumberedSubSeq ==
  ASSUME NEW o \in Seq(Replies), NEW n \in 0 .. Len(o), NEW r, NEW lo, NEW hi,
         Numbered(o, r, lo, hi)
  PROVE  Numbered(SubSeq(o, 1, n), r, lo, hi)
<1> DEFINE p == SubSeq(o, 1, n)
<1>1. /\ Len(o) \in Nat /\ n \in Nat /\ n <= Len(o) /\ Len(p) = n
      /\ \A i \in 1 .. n : p[i] = o[i]
  BY SubSeqProperties, LenProperties
<1>2. PICK f \in [1 .. Len(o) -> Nat] :
        /\ \A i \in 1 .. Len(o) : r \in o[i].outs => lo < f[i] /\ f[i] <= hi
        /\ \A i, j \in 1 .. Len(o) :
             i < j /\ r \in o[i].outs /\ r \in o[j].outs => f[i] < f[j]
  BY DEF Numbered
<1> DEFINE g == [i \in 1 .. Len(p) |-> f[i]]
<1> HIDE DEF p
<1>3. \A i \in 1 .. Len(p) : i \in 1 .. Len(o)
  BY <1>1
<1>4. g \in [1 .. Len(p) -> Nat] /\ \A i \in 1 .. Len(p) : g[i] = f[i]
  BY <1>2, <1>3
<1> HIDE DEF g
<1>5. /\ \A i \in 1 .. Len(p) : r \in p[i].outs => lo < g[i] /\ g[i] <= hi
      /\ \A i, j \in 1 .. Len(p) :
           i < j /\ r \in p[i].outs /\ r \in p[j].outs => g[i] < g[j]
  BY <1>1, <1>2, <1>3, <1>4
<1> QED
  BY <1>4, <1>5 DEF Numbered, p

-----------------------------------------------------------------------------
\* The initial state satisfies the invariant.
LEMMA InitIInv == Init => IInv
<1> SUFFICES ASSUME Init PROVE IInv
  OBVIOUS
<1> USE Constants DEF Init
<1>1. Shapes
  BY EmptySeq DEF Shapes
<1>2. \A r \in Requests : Numbered(output, r, got[r], done[r])
  <2>1. Len(output) = 0
    OBVIOUS
  <2>2. [i \in 1 .. Len(output) |-> 0] \in [1 .. Len(output) -> Nat] /\ \A i \in 1 .. Len(output) : FALSE
    BY <2>1
  <2> QED
    BY <2>2 DEF Numbered
<1>3. OutputsCounted /\ SentOnce /\ AbortBehind
  BY <1>2 DEF OutputsCounted, SentOnce, AbortBehind
<1> QED
  BY <1>1, <1>3 DEF IInv

\* The handlers of the client.
LEMMA CheckIInv ==
  ASSUME IInv, NEW r \in Requests, Check(r)
  PROVE  IInv'
<1> USE DEF IInv, Check, server
<1>1. Shapes'
  BY DEF Shapes
<1>2. OutputsCounted'
  BY DEF OutputsCounted
<1>3. SentOnce'
  BY DEF SentOnce, Shapes
<1>4. AbortBehind'
  BY DEF AbortBehind, Shapes
<1> QED
  BY <1>1, <1>2, <1>3, <1>4

LEMMA SubmitIInv ==
  ASSUME IInv, NEW r \in Requests, Submit(r)
  PROVE  IInv'
<1> USE DEF IInv, Submit, server
<1> DEFINE m == [kind |-> "process", req |-> r]
<1>1. m \in Messages /\ input \in Seq(Messages)
  BY DEF Messages, Shapes
<1>2. /\ input' \in Seq(Messages) /\ Len(input') = Len(input) + 1 /\ Len(input) \in Nat
      /\ \A i \in 1 .. Len(input) : input'[i] = input[i]
      /\ input'[Len(input) + 1] = m
      /\ \A i \in 1 .. Len(input') : i \in 1 .. Len(input) \/ i = Len(input) + 1
      /\ \A i \in 1 .. Len(input) : i \in 1 .. Len(input')
  BY <1>1, AppendElements
<1>3. \A q \in Requests : handler'[q] = IF q = r THEN "open" ELSE handler[q]
  BY DEF Shapes
<1>4. Shapes'
  BY <1>2 DEF Shapes
<1>5. OutputsCounted'
  BY DEF OutputsCounted
<1>6. ASSUME NEW i \in 1 .. Len(input), input[i].kind = "process"
      PROVE  input[i].req # r /\ input[i].req \in Requests
  <2>1. input[i] \in Messages
    BY <1>1
  <2> QED
    BY <1>6, <2>1 DEF SentOnce, Messages
<1>7. SentOnce'
  <2>1. ASSUME NEW i \in 1 .. Len(input'), input'[i].kind = "process"
        PROVE  /\ input'[i].req \notin held' /\ done'[input'[i].req] = 0
               /\ handler'[input'[i].req] \in {"open", "closed"}
    BY <1>2, <1>3, <1>6, <2>1 DEF SentOnce
  <2>2. ASSUME NEW i \in 1 .. Len(input'), NEW j \in 1 .. Len(input'),
               input'[i].kind = "process", input'[j] = input'[i]
        PROVE  i = j
    <3>1. CASE i \in 1 .. Len(input) /\ j \in 1 .. Len(input)
      BY <1>2, <2>2, <3>1 DEF SentOnce
    <3>2. CASE i = Len(input) + 1 /\ j \in 1 .. Len(input)
      BY <1>2, <1>6, <2>2, <3>2
    <3>3. CASE j = Len(input) + 1 /\ i \in 1 .. Len(input)
      BY <1>2, <1>6, <2>2, <3>3
    <3> QED
      BY <1>2, <3>1, <3>2, <3>3
  <2>3. \A q \in Requests : handler'[q] \in {"new", "checked"} => q \notin held' /\ done'[q] = 0
    BY <1>3 DEF SentOnce
  <2> QED
    BY <2>1, <2>2, <2>3 DEF SentOnce
<1>8. AbortBehind'
  <2> SUFFICES ASSUME NEW q \in Requests, handler'[q] = "closed", ~ errored'
               PROVE  /\ q \in held' => \E i \in 1 .. Len(input') : input'[i] = Abort(q)
                      /\ \A i \in 1 .. Len(input') : input'[i].kind = "process" /\ input'[i].req = q =>
                           \E j \in 1 .. Len(input') : i < j /\ input'[j] = Abort(q)
    BY DEF AbortBehind, Abort
  <2>1. q # r /\ handler[q] = "closed"
    BY <1>3
  <2>2. q \in held' => \E i \in 1 .. Len(input') : input'[i] = Abort(q)
    BY <1>2, <2>1 DEF AbortBehind
  <2>3. ASSUME NEW i \in 1 .. Len(input'), input'[i].kind = "process", input'[i].req = q
        PROVE  \E j \in 1 .. Len(input') : i < j /\ input'[j] = Abort(q)
    BY <1>2, <2>1, <2>3 DEF AbortBehind
  <2> QED
    BY <2>2, <2>3
<1> QED
  BY <1>4, <1>5, <1>7, <1>8

LEMMA CloseIInv ==
  ASSUME IInv, NEW r \in Requests, Close(r)
  PROVE  IInv'
<1> USE DEF IInv, Close, server
<1>1. \A q \in Requests : handler'[q] = IF q = r THEN "closed" ELSE handler[q]
  BY DEF Shapes
<1>2. CASE answer[r] # "finished" /\ ~ errored
  <2>1. Abort(r) \in Messages /\ input \in Seq(Messages) /\ input' = Append(input, Abort(r))
    BY <1>2 DEF Messages, Shapes, Abort, WithAbort
  <2>2. /\ input' \in Seq(Messages) /\ Len(input') = Len(input) + 1 /\ Len(input) \in Nat
        /\ \A i \in 1 .. Len(input) : input'[i] = input[i]
        /\ input'[Len(input) + 1] = Abort(r)
        /\ \A i \in 1 .. Len(input') : i \in 1 .. Len(input) \/ i = Len(input) + 1
        /\ \A i \in 1 .. Len(input) : i \in 1 .. Len(input')
        /\ Len(input) + 1 \in 1 .. Len(input')
    BY <2>1, AppendElements
  <2>3. Shapes'
    BY <2>2 DEF Shapes
  <2>4. OutputsCounted'
    BY DEF OutputsCounted
  <2>5. SentOnce'
    <3>0. Abort(r).kind = "abort"
      BY DEF Abort
    <3>1. ASSUME NEW i \in 1 .. Len(input'), input'[i].kind = "process"
          PROVE  i \in 1 .. Len(input) /\ input'[i] = input[i]
      BY <2>2, <3>0, <3>1
    <3>2. ASSUME NEW i \in 1 .. Len(input'), input'[i].kind = "process"
          PROVE  /\ input'[i].req \notin held' /\ done'[input'[i].req] = 0
                 /\ handler'[input'[i].req] \in {"open", "closed"}
      BY <1>1, <2>1, <3>1, <3>2 DEF SentOnce, Messages, Shapes
    <3>3. ASSUME NEW i \in 1 .. Len(input'), NEW j \in 1 .. Len(input'),
                 input'[i].kind = "process", input'[j] = input'[i]
          PROVE  i = j
      BY <3>1, <3>3 DEF SentOnce
    <3>4. \A q \in Requests : handler'[q] \in {"new", "checked"} => q \notin held' /\ done'[q] = 0
      BY <1>1 DEF SentOnce
    <3> QED
      BY <3>2, <3>3, <3>4 DEF SentOnce
  <2>6. AbortBehind'
    <3> SUFFICES ASSUME NEW q \in Requests, handler'[q] = "closed", ~ errored'
                 PROVE  /\ q \in held' => \E i \in 1 .. Len(input') : input'[i] = Abort(q)
                        /\ \A i \in 1 .. Len(input') : input'[i].kind = "process" /\ input'[i].req = q =>
                             \E j \in 1 .. Len(input') : i < j /\ input'[j] = Abort(q)
      BY DEF AbortBehind, Abort
    <3>0. Abort(r).kind = "abort"
      BY DEF Abort
    <3>1. CASE q = r
      BY <2>2, <3>0, <3>1
    <3>2. CASE q # r
      BY <1>1, <2>2, <3>0, <3>2 DEF AbortBehind
    <3> QED
      BY <3>1, <3>2
  <2> QED
    BY <2>3, <2>4, <2>5, <2>6
<1>3. CASE ~ (answer[r] # "finished" /\ ~ errored)
  <2>1. UNCHANGED input
    BY <1>3 DEF WithAbort
  <2>2. Shapes' /\ OutputsCounted'
    BY <2>1 DEF Shapes, OutputsCounted
  <2>3. SentOnce'
    BY <1>1, <2>1 DEF SentOnce, Shapes
  <2>4. AbortBehind'
    <3>1. ASSUME ~ errored
          PROVE  /\ r \notin held
                 /\ \A i \in 1 .. Len(input) : ~ (input[i].kind = "process" /\ input[i].req = r)
      <4>1. done[r] = Outputs[r] /\ Outputs[r] \in Nat /\ Outputs[r] >= 1
        BY <1>3, <3>1, Constants DEF OutputsCounted, Shapes
      <4> QED
        BY <4>1 DEF OutputsCounted, SentOnce
    <3> QED
      BY <1>1, <2>1, <3>1 DEF AbortBehind
  <2> QED
    BY <2>2, <2>3, <2>4
<1> QED
  BY <1>2, <1>3

\* The loops of the client.
LEMMA ReceiveOutputsIInv ==
  ASSUME IInv, ReceiveOutputs
  PROVE  IInv'
<1> USE DEF IInv, ReceiveOutputs, server
<1>1. output \in Seq(Replies) /\ output # << >> /\ Tail(output) \in Seq(Replies)
  BY TailElements DEF Shapes
<1>2. Shapes'
  BY <1>1 DEF Shapes
<1>3. OutputsCounted'
  <2> SUFFICES ASSUME NEW r \in Requests
               PROVE  /\ got'[r] <= done'[r] /\ done'[r] <= Outputs[r]
                      /\ Numbered(output', r, got'[r], done'[r])
                      /\ answer'[r] = "finished" => done'[r] = Outputs[r]
                      /\ r \in held' => done'[r] < Outputs[r]
    BY DEF OutputsCounted
  <2>1. /\ got[r] \in Nat /\ done[r] \in Nat /\ Outputs[r] \in Nat
        /\ got[r] <= done[r] /\ done[r] <= Outputs[r] /\ Numbered(output, r, got[r], done[r])
        /\ answer[r] = "finished" => done[r] = Outputs[r]
        /\ r \in held => done[r] < Outputs[r]
    BY Constants DEF Shapes, OutputsCounted
  <2>2. CASE r \in Head(output).outs \cap queues
    <3>1. got[r] + 1 <= done[r] /\ Numbered(Tail(output), r, got[r] + 1, done[r])
      BY <1>1, <2>1, <2>2, NumberedTail
    <3> QED
      BY <2>1, <2>2, <3>1
  <2>3. CASE r \notin Head(output).outs \cap queues
    <3>1. Numbered(Tail(output), r, got[r], done[r])
      BY <1>1, <2>1, NumberedTail
    <3> QED
      BY <2>1, <2>3, <3>1
  <2> QED
    BY <2>2, <2>3
<1>4. SentOnce' /\ AbortBehind'
  BY DEF SentOnce, AbortBehind
<1> QED
  BY <1>2, <1>3, <1>4

LEMMA ReceiveErrorIInv ==
  ASSUME IInv, ReceiveError
  PROVE  IInv'
<1> USE DEF IInv, ReceiveError, server
<1>1. output \in Seq(Replies) /\ output # << >> /\ Tail(output) \in Seq(Replies)
      /\ Head(output).critical \in BOOLEAN
  <2>1. output \in Seq(Replies) /\ Head(output) \in Replies /\ Tail(output) \in Seq(Replies)
    BY TailElements DEF Shapes
  <2> QED
    BY <2>1 DEF Replies
<1>2. Shapes'
  <2>1. answer' \in [Requests -> {"none", "finished", "error"}]
    BY DEF Shapes, Raise
  <2> QED
    BY <1>1, <2>1 DEF Shapes
<1>3. OutputsCounted'
  BY <1>1, NumberedTail DEF OutputsCounted, Raise, Shapes
<1>4. SentOnce' /\ AbortBehind'
  BY <1>1 DEF SentOnce, AbortBehind, Shapes
<1> QED
  BY <1>2, <1>3, <1>4

LEMMA OutputTimeoutIInv ==
  ASSUME IInv, OutputTimeout
  PROVE  IInv'
<1> USE DEF IInv, OutputTimeout, server
<1>1. Shapes'
  BY DEF Shapes, Raise
<1>2. OutputsCounted'
  BY DEF OutputsCounted, Raise
<1>3. SentOnce' /\ AbortBehind'
  BY DEF SentOnce, AbortBehind
<1> QED
  BY <1>1, <1>2, <1>3

LEMMA HealthIInv ==
  ASSUME IInv, HealthStep \/ LateHeartbeat
  PROVE  IInv'
<1> USE DEF IInv, HealthStep, ReceiveUnhealthy, HeartbeatTimeout, LateHeartbeat, server
<1>1. Shapes' /\ OutputsCounted' /\ SentOnce'
  BY ZenonT(60) DEF Shapes, OutputsCounted, SentOnce
<1>2. AbortBehind'
  BY DEF AbortBehind
<1> QED
  BY <1>1, <1>2

\* The engine.
LEMMA ProcessRequestIInv ==
  ASSUME IInv, ProcessRequest
  PROVE  IInv'
<1> USE DEF IInv, ProcessRequest, client
<1> DEFINE r == Head(input).req
<1>1. /\ input \in Seq(Messages) /\ input # << >>
      /\ Tail(input) \in Seq(Messages) /\ Head(input) \in Messages /\ Head(input) = input[1]
      /\ Len(input) \in Nat /\ Len(input) >= 1 /\ Len(input') = Len(input) - 1
      /\ \A i \in 1 .. Len(input') : input'[i] = input[i + 1]
  BY TailElements DEF Shapes
<1>2. r \in Requests /\ 1 \in 1 .. Len(input) /\ input[1].kind = "process" /\ input[1].req = r
  BY <1>1 DEF Messages
<1>3. \A i \in 1 .. Len(input') : i + 1 \in 1 .. Len(input) /\ 1 < i + 1
  BY <1>1
<1>4. r \notin held /\ done[r] = 0 /\ handler[r] \in {"open", "closed"}
  BY <1>2 DEF SentOnce
<1>5. \A i \in 1 .. Len(input') : input'[i].kind = "process" => input'[i].req # r
  <2> SUFFICES ASSUME NEW i \in 1 .. Len(input'), input'[i].kind = "process", input'[i].req = r
               PROVE  FALSE
    OBVIOUS
  <2>1. i + 1 \in 1 .. Len(input) /\ input[i + 1] = input'[i] /\ input[i + 1] \in Messages
    BY <1>1, <1>3
  <2>2. input[i + 1] = input[1]
    BY SMTT(30), <1>1, <1>2, <2>1 DEF Messages
  <2> QED
    BY <1>2, <1>3, <2>2 DEF SentOnce
<1>6. output' \in Seq(Replies) /\ \A q \in Requests : Numbered(output', q, got[q], done[q])
  <2>1. Error(r, TRUE) \in Replies /\ Error(r, engErrored) \in Replies
        /\ Error(r, TRUE).outs = {} /\ Error(r, engErrored).outs = {}
    BY <1>2 DEF Error, Replies, Shapes
  <2> DEFINE first == IF engErrored THEN Append(output, Error(r, TRUE)) ELSE output
  <2>2. output' = IF r \in Invalid THEN Append(first, Error(r, engErrored)) ELSE first
    <3>1. \A s \in Seq(Replies) : s \o << >> = s
      OBVIOUS
    <3>2. \A s \in Seq(Replies) : \A e \in Replies : s \o <<e>> = Append(s, e)
      BY AppendIsConcat
    <3>3. output \in Seq(Replies) /\ first \in Seq(Replies)
      BY <2>1, AppendElements DEF Shapes
    <3>4. output \o (IF engErrored THEN <<Error(r, TRUE)>> ELSE << >>) = first
      BY <2>1, <3>1, <3>2, <3>3
    <3>5. output' = first \o (IF r \in Invalid THEN <<Error(r, engErrored)>> ELSE << >>)
      BY <3>4
    <3> HIDE DEF first
    <3> QED
      BY <2>1, <3>1, <3>2, <3>3, <3>5
  <2>3. first \in Seq(Replies) /\ \A q \in Requests : Numbered(first, q, got[q], done[q])
    BY <2>1, NumberedAppend, AppendElements DEF Shapes, OutputsCounted
  <2> HIDE DEF first
  <2>4. CASE r \in Invalid
    <3>1. output' = Append(first, Error(r, engErrored))
      BY <2>2, <2>4
    <3>2. output' \in Seq(Replies)
      <4>1. Append(first, Error(r, engErrored)) \in Seq(Replies)
        BY <2>1, <2>3, AppendElements
      <4> QED
        BY <3>1, <4>1
    <3>3. ASSUME NEW q \in Requests PROVE Numbered(output', q, got[q], done[q])
      <4>1. got[q] \in Nat /\ done[q] \in Nat /\ got[q] <= done[q]
        BY DEF Shapes, OutputsCounted
      <4> QED
        BY <2>1, <2>3, <3>1, <4>1, NumberedAppend
    <3> QED
      BY <3>2, <3>3
  <2>5. CASE r \notin Invalid
    BY <2>2, <2>3, <2>5
  <2> QED
    BY <2>4, <2>5
<1>7. Shapes'
  BY <1>1, <1>2, <1>6 DEF Shapes
<1>8. OutputsCounted'
  <2>1. UNCHANGED <<got, done, answer>> /\ held' \subseteq held \cup {r}
    OBVIOUS
  <2>2. done[r] < Outputs[r]
    BY <1>2, <1>4, Constants
  <2> QED
    BY <1>6, <2>1, <2>2 DEF OutputsCounted
<1>9. SentOnce'
  <2>1. ASSUME NEW i \in 1 .. Len(input'), input'[i].kind = "process"
        PROVE  /\ input'[i].req \notin held' /\ done'[input'[i].req] = 0
               /\ handler'[input'[i].req] \in {"open", "closed"}
    BY <1>1, <1>3, <1>5, <2>1 DEF SentOnce
  <2>2. ASSUME NEW i \in 1 .. Len(input'), NEW j \in 1 .. Len(input'),
               input'[i].kind = "process", input'[j] = input'[i]
        PROVE  i = j
    <3>1. i + 1 = j + 1
      BY <1>1, <1>3, <2>2 DEF SentOnce
    <3> QED
      BY <3>1
  <2>3. \A q \in Requests : handler'[q] \in {"new", "checked"} => q \notin held' /\ done'[q] = 0
    BY <1>4 DEF SentOnce
  <2> QED
    BY <2>1, <2>2, <2>3 DEF SentOnce
<1>10. AbortBehind'
  <2> SUFFICES ASSUME NEW q \in Requests, handler[q] = "closed", ~ errored
               PROVE  /\ q \in held' => \E i \in 1 .. Len(input') : input'[i] = Abort(q)
                      /\ \A i \in 1 .. Len(input') : input'[i].kind = "process" /\ input'[i].req = q =>
                           \E j \in 1 .. Len(input') : i < j /\ input'[j] = Abort(q)
    BY DEF AbortBehind, Abort
  <2>1. ASSUME NEW k \in 1 .. Len(input), input[k] = Abort(q)
        PROVE  k - 1 \in 1 .. Len(input') /\ input'[k - 1] = Abort(q)
    <3>1. k # 1
      BY <1>2, <2>1 DEF Abort
    <3> QED
      BY <1>1, <2>1, <3>1
  <2>2. ASSUME q \in held' PROVE \E i \in 1 .. Len(input') : input'[i] = Abort(q)
    <3>1. \E k \in 1 .. Len(input) : input[k] = Abort(q)
      BY <1>2, <2>2 DEF AbortBehind
    <3> QED
      BY <2>1, <3>1
  <2>3. ASSUME NEW i \in 1 .. Len(input'), input'[i].kind = "process", input'[i].req = q
        PROVE  \E j \in 1 .. Len(input') : i < j /\ input'[j] = Abort(q)
    <3>1. PICK k \in 1 .. Len(input) : i + 1 < k /\ input[k] = Abort(q)
      BY <1>1, <1>3, <2>3 DEF AbortBehind
    <3>2. i < k - 1 /\ k - 1 \in 1 .. Len(input') /\ input'[k - 1] = Abort(q)
      BY <1>1, <2>1, <3>1
    <3> QED
      BY <3>2
  <2> QED
    BY <2>2, <2>3
<1> QED
  BY <1>7, <1>8, <1>9, <1>10

LEMMA ProcessAbortIInv ==
  ASSUME IInv, ProcessAbort
  PROVE  IInv'
<1> USE DEF IInv, ProcessAbort, client
<1>1. /\ input \in Seq(Messages) /\ input # << >>
      /\ Tail(input) \in Seq(Messages) /\ Head(input) \in Messages /\ Head(input) = input[1]
      /\ Len(input) \in Nat /\ Len(input) >= 1 /\ Len(input') = Len(input) - 1
      /\ \A i \in 1 .. Len(input') : input'[i] = input[i + 1]
  BY TailElements DEF Shapes
<1>2. \A i \in 1 .. Len(input') : i + 1 \in 1 .. Len(input) /\ 1 < i + 1
  BY <1>1
<1>3. Shapes' /\ OutputsCounted'
  BY <1>1 DEF Shapes, OutputsCounted
<1>4. SentOnce'
  <2>1. ASSUME NEW i \in 1 .. Len(input'), NEW j \in 1 .. Len(input'),
               input'[i].kind = "process", input'[j] = input'[i]
        PROVE  i = j
    <3>1. i + 1 = j + 1
      BY <1>1, <1>2, <2>1 DEF SentOnce
    <3> QED
      BY <3>1
  <2> QED
    BY <1>1, <1>2, <2>1 DEF SentOnce
<1>5. AbortBehind'
  <2> SUFFICES ASSUME NEW q \in Requests, handler[q] = "closed", ~ errored
               PROVE  /\ q \in held' => \E i \in 1 .. Len(input') : input'[i] = Abort(q)
                      /\ \A i \in 1 .. Len(input') : input'[i].kind = "process" /\ input'[i].req = q =>
                           \E j \in 1 .. Len(input') : i < j /\ input'[j] = Abort(q)
    BY DEF AbortBehind, Abort
  <2>1. ASSUME q \in held' PROVE \E i \in 1 .. Len(input') : input'[i] = Abort(q)
    <3>1. PICK k \in 1 .. Len(input) : input[k] = Abort(q)
      BY <2>1 DEF AbortBehind
    <3>2. k # 1
      BY <1>1, <2>1, <3>1 DEF Abort
    <3>3. k - 1 \in 1 .. Len(input') /\ input'[k - 1] = Abort(q)
      BY <1>1, <3>1, <3>2
    <3> QED
      BY <3>3
  <2>2. ASSUME NEW i \in 1 .. Len(input'), input'[i].kind = "process", input'[i].req = q
        PROVE  \E j \in 1 .. Len(input') : i < j /\ input'[j] = Abort(q)
    <3>1. PICK k \in 1 .. Len(input) : i + 1 < k /\ input[k] = Abort(q)
      BY <1>1, <1>2, <2>2 DEF AbortBehind
    <3>2. k - 1 \in 1 .. Len(input') /\ i < k - 1 /\ input'[k - 1] = Abort(q)
      BY <1>1, <3>1
    <3> QED
      BY <3>2
  <2> QED
    BY <2>1, <2>2
<1> QED
  BY <1>3, <1>4, <1>5

LEMMA EndStepIInv ==
  ASSUME IInv, EndStep
  PROVE  IInv'
<1> USE DEF IInv, EndStep, client
<1> DEFINE m == [Error(NoRequest, FALSE) EXCEPT !.kind = "outputs", !.outs = held]
<1>1. m \in Replies /\ m.outs = held /\ output' = Append(output, m)
  BY DEF Error, Replies, Shapes
<1>2. Shapes'
  <2>1. output' \in Seq(Replies)
    BY <1>1, AppendElements DEF Shapes
  <2>2. done' \in [Requests -> Nat]
    BY DEF Shapes
  <2> QED
    BY <2>1, <2>2 DEF Shapes
<1> HIDE DEF m
<1>3. OutputsCounted'
  <2> SUFFICES ASSUME NEW r \in Requests
               PROVE  /\ got[r] <= done'[r] /\ done'[r] <= Outputs[r]
                      /\ Numbered(output', r, got[r], done'[r])
                      /\ answer[r] = "finished" => done'[r] = Outputs[r]
                      /\ r \in held' => done'[r] < Outputs[r]
    BY DEF OutputsCounted
  <2>1. /\ got[r] \in Nat /\ done[r] \in Nat /\ Outputs[r] \in Nat /\ output \in Seq(Replies)
        /\ got[r] <= done[r] /\ done[r] <= Outputs[r] /\ Numbered(output, r, got[r], done[r])
        /\ answer[r] = "finished" => done[r] = Outputs[r]
        /\ r \in held => done[r] < Outputs[r]
    BY Constants DEF Shapes, OutputsCounted
  <2>2. /\ r \notin held => Numbered(output', r, got[r], done[r])
        /\ Numbered(output', r, got[r], done[r] + 1)
    BY <1>1, <2>1, NumberedAppend
  <2>3. CASE r \in held
    BY <2>1, <2>2, <2>3 DEF Finished
  <2>4. CASE r \notin held
    BY <2>1, <2>2, <2>4
  <2> QED
    BY <2>3, <2>4
<1>4. SentOnce'
  <2>1. ASSUME NEW i \in 1 .. Len(input) PROVE input[i].req \in Requests
    <3>1. input[i] \in Messages
      BY DEF Shapes
    <3> QED
      BY <3>1 DEF Messages
  <2> QED
    BY <2>1 DEF SentOnce
<1>5. AbortBehind'
  BY DEF AbortBehind
<1> QED
  BY <1>2, <1>3, <1>4, <1>5

LEMMA StepFailsIInv ==
  ASSUME IInv, StepFails
  PROVE  IInv'
<1> USE DEF IInv, StepFails, client
<1>1. Error(NoRequest, TRUE) \in Replies /\ Error(NoRequest, TRUE).outs = {}
  BY DEF Error, Replies
<1>2. Shapes'
  BY <1>1, AppendElements DEF Shapes
<1>3. OutputsCounted'
  BY <1>1, NumberedAppend DEF OutputsCounted, Shapes
<1>4. SentOnce' /\ AbortBehind'
  BY DEF SentOnce, AbortBehind
<1> QED
  BY <1>2, <1>3, <1>4

LEMMA ProcessEndsIInv ==
  ASSUME IInv, ProcessEnds
  PROVE  IInv'
<1> USE DEF IInv, ProcessEnds, client
<1>1. PICK n \in 0 .. Len(output) : output' = SubSeq(output, 1, n)
  OBVIOUS
<1>2. Shapes'
  <2>1. output' \in Seq(Replies)
    BY <1>1, SubSeqProperties, LenProperties DEF Shapes
  <2> QED
    BY <2>1 DEF Shapes
<1>3. OutputsCounted'
  BY <1>1, NumberedSubSeq DEF OutputsCounted, Shapes
<1>4. SentOnce' /\ AbortBehind'
  BY DEF SentOnce, AbortBehind
<1> QED
  BY <1>2, <1>3, <1>4

LEMMA OtherEngineIInv ==
  ASSUME IInv, BeginStep \/ Hangs \/ WorkerDies \/ SendUnhealthy
  PROVE  IInv'
<1> USE DEF IInv, BeginStep, Hangs, WorkerDies, SendUnhealthy, client
<1>1. Shapes'
  BY DEF Shapes
<1>2. OutputsCounted' /\ SentOnce' /\ AbortBehind'
  BY DEF OutputsCounted, SentOnce, AbortBehind
<1> QED
  BY <1>1, <1>2

\* The invariant is inductive.
LEMMA NextIInv == IInv /\ [Next]_vars => IInv'
<1> SUFFICES ASSUME IInv, [Next]_vars PROVE IInv'
  OBVIOUS
<1>1. CASE UNCHANGED vars
  BY <1>1 DEF vars, IInv, Shapes, OutputsCounted, SentOnce, AbortBehind
<1>2. ASSUME NEW r \in Requests, HandlerStep(r) PROVE IInv'
  BY <1>2, CheckIInv, SubmitIInv, CloseIInv DEF HandlerStep
<1>3. CASE OutputStep \/ HealthStep \/ LateHeartbeat
  BY <1>3, ReceiveOutputsIInv, ReceiveErrorIInv, OutputTimeoutIInv, HealthIInv DEF OutputStep
<1>4. CASE EngineStep
  BY <1>4, ProcessRequestIInv, ProcessAbortIInv, OtherEngineIInv, EndStepIInv, ProcessEndsIInv
     DEF EngineStep, Cleanup
<1>5. CASE SendUnhealthy \/ StepFails \/ Killed \/ Hangs \/ WorkerDies
  BY <1>5, OtherEngineIInv, StepFailsIInv, ProcessEndsIInv DEF Killed
<1> QED
  BY <1>1, <1>2, <1>3, <1>4, <1>5 DEF Next

LEMMA InductiveInvariance == Spec => []IInv
BY InitIInv, NextIInv, PTL DEF Spec

-----------------------------------------------------------------------------
\* MQLLMEngineClient._process_request and MQLLMEngine: a request whose handler has
\* left is held by the engine only while its abort is in the socket or after the
\* client has taken the engine for dead, in whatever order requests, aborts,
\* outputs, errors and faults cross.
THEOREM AbortsFollowRequests == Spec => []AbortsReachEngine
<1>1. IInv => AbortsReachEngine
  <2> SUFFICES ASSUME IInv PROVE AbortsReachEngine
    OBVIOUS
  <2>1. TypeOK
    BY DEF IInv, Shapes, OutputsCounted, TypeOK
  <2>2. DOMAIN input = 1 .. Len(input)
    BY DEF IInv, Shapes
  <2> QED
    BY <2>1, <2>2 DEF IInv, Shapes, AbortBehind, Abort, AbortsReachEngine
<1> QED
  BY <1>1, InductiveInvariance, PTL
=============================================================================
