----------------------------- MODULE HarborProofs -----------------------------
(***************************************************************************)
(* Proofs about Harbor for any set of harbors, names, handles and lengths  *)
(* of frames.                                                              *)
(***************************************************************************)
EXTENDS Harbor, FiniteSetTheorems, SequenceTheorems, NaturalsInduction, WellFoundedInduction, TLAPS

(***************************************************************************)
(* The circular queue.  Every queue starts in slot 0, since the service    *)
(* empties a queue only as a whole; its messages are in the slots before   *)
(* the tail.  A queue is enlarged only when it is full.                    *)
(***************************************************************************)
Slots(n) == [0 .. n - 1 -> Messages \cup {None}]
Queue == {q \in [size : Nat \ {0, 1}, head : {0}, tail : Nat, data : UNION {Slots(n) : n \in Nat}] :
            /\ q.tail < q.size /\ q.size <= QueueSize + 2 * q.tail + 2
            /\ q.data \in Slots(q.size)
            /\ \A k \in 0 .. q.tail - 1 : q.data[k] \in Messages}
Waiting(q) == [k \in 1 .. q.tail |-> q.data[k - 1]]

LEMMA QueueIs ==
  ASSUME NEW q \in Queue
  PROVE  /\ q.size \in Nat \ {0, 1} /\ q.head = 0 /\ q.tail \in 0 .. q.size - 1
         /\ q.size <= QueueSize + 2 * q.tail + 2
         /\ q.data \in Slots(q.size) /\ \A k \in 0 .. q.tail - 1 : q.data[k] \in Messages
         /\ q = [size |-> q.size, head |-> q.head, tail |-> q.tail, data |-> q.data]
         /\ IsQueue(q)
         /\ Waiting(q) \in Seq(Messages) /\ Len(Waiting(q)) = q.tail
         /\ \A k \in 1 .. q.tail : Waiting(q)[k] = q.data[k - 1]
<1>1. /\ q.size \in Nat \ {0, 1} /\ q.head = 0 /\ q.tail \in Nat /\ q.tail < q.size
      /\ q.size <= QueueSize + 2 * q.tail + 2
      /\ q.data \in Slots(q.size) /\ \A k \in 0 .. q.tail - 1 : q.data[k] \in Messages
      /\ q = [size |-> q.size, head |-> q.head, tail |-> q.tail, data |-> q.data]
  BY DEF Queue
<1>2. q.tail \in 0 .. q.size - 1 /\ 0 \in 0 .. q.size - 1
  BY <1>1
<1>3. IsQueue(q)
  BY <1>1, <1>2 DEF IsQueue, Slots
<1>4. \A k \in 1 .. q.tail : k - 1 \in 0 .. q.tail - 1
  BY <1>1
<1>5. Waiting(q) \in [1 .. q.tail -> Messages]
  BY <1>1, <1>4 DEF Waiting
<1>6. Waiting(q) \in Seq(Messages) /\ Len(Waiting(q)) = q.tail
  BY <1>1, <1>5
<1>7. \A k \in 1 .. q.tail : Waiting(q)[k] = q.data[k - 1]
  BY DEF Waiting
<1> QED BY <1>1, <1>2, <1>3, <1>6, <1>7

LEMMA QueueMake ==
  ASSUME NEW n \in Nat \ {0, 1}, NEW tl \in 0 .. n - 1, NEW d \in Slots(n),
         \A k \in 0 .. tl - 1 : d[k] \in Messages, n <= QueueSize + 2 * tl + 2
  PROVE  [size |-> n, head |-> 0, tail |-> tl, data |-> d] \in Queue
BY DEF Queue

LEMMA WaitingIn ==
  ASSUME NEW n, NEW tl, NEW d
  PROVE  Waiting([size |-> n, head |-> 0, tail |-> tl, data |-> d]) = [k \in 1 .. tl |-> d[k - 1]]
BY DEF Waiting

LEMMA NewIsQueue == new_queue \in Queue /\ Waiting(new_queue) = <<>>
<1>1. QueueSize \in Nat \ {0, 1}
  BY HarborAssumption
<1> DEFINE d == [k \in 0 .. (QueueSize - 1) |-> None]
<1>2. d \in Slots(QueueSize) /\ 0 \in 0 .. QueueSize - 1 /\ \A k \in 0 .. 0 - 1 : d[k] \in Messages
      /\ QueueSize <= QueueSize + 2 * 0 + 2
  BY <1>1 DEF Slots
<1>3. new_queue = [size |-> QueueSize, head |-> 0, tail |-> 0, data |-> d]
  BY DEF new_queue
<1> HIDE DEF d
<1>4. new_queue \in Queue
  BY <1>1, <1>2, <1>3, QueueMake
<1>5. new_queue.tail = 0
  BY <1>3
<1> QED BY <1>4, <1>5 DEF Waiting

LEMMA SmallMod ==
  ASSUME NEW b \in Nat \ {0}, NEW a \in 0 .. b - 1
  PROVE  a % b = a /\ (a + b) % b = a /\ b % b = 0
OBVIOUS

LEMMA ContentsIs ==
  ASSUME NEW q \in Queue
  PROVE  Contents(q) = IF q = None THEN <<>> ELSE Waiting(q)
<1> DEFINE s == q.size
           tl == q.tail
           d == q.data
<1>1. s \in Nat \ {0, 1} /\ q.head = 0 /\ tl \in 0 .. s - 1 /\ tl \in Nat
  BY QueueIs
<1>2. Contents(q) = IF q = None THEN <<>>
                    ELSE [k \in 1 .. ((tl + s - 0) % s) |-> d[(0 + k - 1) % s]]
  BY <1>1 DEF Contents
<1> HIDE DEF s, tl, d
<1>3. (tl + s - 0) % s = tl
  <2>1. tl + s - 0 = tl + s
    BY <1>1
  <2> QED BY <1>1, <2>1, SmallMod
<1>4. \A k \in 1 .. tl : (0 + k - 1) % s = k - 1
  <2> SUFFICES ASSUME NEW k \in 1 .. tl PROVE (0 + k - 1) % s = k - 1
    OBVIOUS
  <2>1. 0 + k - 1 = k - 1 /\ k - 1 \in 0 .. s - 1
    BY <1>1
  <2> QED BY <1>1, <2>1, SmallMod
<1>5. [k \in 1 .. ((tl + s - 0) % s) |-> d[(0 + k - 1) % s]] = [k \in 1 .. tl |-> d[k - 1]]
  BY <1>3, <1>4
<1> QED BY <1>2, <1>5 DEF Waiting, tl, d

LEMMA ExpandIs ==
  ASSUME NEW q \in Queue, q.tail = q.size - 1
  PROVE  Expand(q) \in Queue /\ Expand(q).tail < Expand(q).size - 1 /\ Waiting(Expand(q)) = Waiting(q)
<1> DEFINE s == q.size
           d == q.data
           e == [k \in 0 .. (2 * s - 1) |-> IF k < s - 1 THEN d[k] ELSE None]
<1>1. /\ s \in Nat \ {0, 1} /\ q.head = 0 /\ d \in Slots(s) /\ q.tail = s - 1
      /\ \A k \in 0 .. s - 1 - 1 : d[k] \in Messages
  BY QueueIs
<1>2. Expand(q) = [size |-> 2 * s, head |-> 0, tail |-> s - 1,
                   data |-> [k \in 0 .. (2 * s - 1) |-> IF k < s - 1 THEN d[(k + 0) % s] ELSE None]]
  BY <1>1 DEF Expand
<1> HIDE DEF s, d
<1>3. ASSUME NEW k \in 0 .. (2 * s - 1), k < s - 1 PROVE (k + 0) % s = k
  <2>1. k + 0 = k /\ k \in 0 .. s - 1
    BY <1>1, <1>3
  <2> QED BY <1>1, <2>1, SmallMod
<1>4. Expand(q) = [size |-> 2 * s, head |-> 0, tail |-> s - 1, data |-> e]
  BY <1>2, <1>3
<1>5. /\ 2 * s \in Nat \ {0, 1} /\ s - 1 \in 0 .. 2 * s - 1 /\ s - 1 < 2 * s - 1
      /\ 2 * s <= QueueSize + 2 * (s - 1) + 2
      /\ \A k \in 0 .. s - 1 - 1 : k \in 0 .. (2 * s - 1) /\ k < s - 1
  BY <1>1, HarborAssumption
<1>6. e \in Slots(2 * s)
  <2>1. \A k \in 0 .. (2 * s - 1) : k < s - 1 => k \in 0 .. s - 1
    BY <1>1
  <2> QED BY <1>1, <2>1 DEF Slots
<1>7. \A k \in 0 .. s - 1 - 1 : e[k] = d[k]
  BY <1>5
<1> HIDE DEF e
<1>8. Expand(q) \in Queue
  BY <1>1, <1>4, <1>5, <1>6, <1>7, QueueMake
<1>9. \A k \in 1 .. s - 1 : k - 1 \in 0 .. s - 1 - 1
  BY <1>1
<1>10. Waiting(Expand(q)) = [k \in 1 .. s - 1 |-> e[k - 1]] /\ Waiting(q) = [k \in 1 .. s - 1 |-> d[k - 1]]
  BY <1>1, <1>4 DEF Waiting, d
<1> QED BY <1>4, <1>5, <1>7, <1>8, <1>9, <1>10

LEMMA PushWithRoom ==
  ASSUME NEW r \in Queue, r.tail < r.size - 1, NEW m \in Messages,
         NEW p, p = [r EXCEPT !.data[r.tail] = m, !.tail = (r.tail + 1) % r.size]
  PROVE  p \in Queue /\ Waiting(p) = Append(Waiting(r), m)
<1> DEFINE s == r.size
           tl == r.tail
           d == r.data
           e == [d EXCEPT ![tl] = m]
<1>1. /\ s \in Nat \ {0, 1} /\ tl \in 0 .. s - 1 /\ d \in Slots(s) /\ tl < s - 1
      /\ s <= QueueSize + 2 * tl + 2
      /\ \A k \in 0 .. tl - 1 : d[k] \in Messages
      /\ r = [size |-> s, head |-> 0, tail |-> tl, data |-> d]
  BY QueueIs
<1>2. p = [size |-> s, head |-> 0, tail |-> (tl + 1) % s, data |-> e]
  <2>1. p = [r EXCEPT !.data = e, !.tail = (tl + 1) % s]
    OBVIOUS
  <2> HIDE DEF s, tl, d, e
  <2> QED BY <1>1, <2>1
<1> HIDE DEF s, tl, d
<1>3. (tl + 1) % s = tl + 1 /\ tl + 1 \in 0 .. s - 1
  <2>1. tl + 1 \in 0 .. s - 1
    BY <1>1
  <2> QED BY <1>1, <2>1, SmallMod
<1>4. e \in Slots(s) /\ e[tl] = m /\ \A k \in 0 .. tl - 1 : e[k] = d[k]
  BY <1>1 DEF Slots
<1> HIDE DEF e
<1>5. \A k \in 0 .. (tl + 1) - 1 : e[k] \in Messages
  <2>1. \A k \in 0 .. (tl + 1) - 1 : k = tl \/ k \in 0 .. tl - 1
    BY <1>1
  <2> QED BY <1>1, <1>4, <2>1
<1>9. p = [size |-> s, head |-> 0, tail |-> tl + 1, data |-> e]
  BY <1>2, <1>3
<1>6. p \in Queue
  <2> DEFINE z == tl + 1
  <2>1. z \in 0 .. s - 1 /\ (\A k \in 0 .. z - 1 : e[k] \in Messages) /\ s <= QueueSize + 2 * z + 2
    BY <1>1, <1>3, <1>5, HarborAssumption
  <2> HIDE DEF z
  <2>2. [size |-> s, head |-> 0, tail |-> z, data |-> e] \in Queue
    BY <1>1, <1>4, <2>1, QueueMake
  <2> QED BY <1>9, <2>2 DEF z
<1>7. Waiting(p) = [k \in 1 .. tl + 1 |-> e[k - 1]] /\ Waiting(r) \in Seq(Messages) /\ Len(Waiting(r)) = tl
      /\ \A k \in 1 .. tl : Waiting(r)[k] = d[k - 1]
  <2>1. Waiting(r) \in Seq(Messages) /\ Len(Waiting(r)) = tl /\ \A k \in 1 .. tl : Waiting(r)[k] = d[k - 1]
    BY QueueIs DEF tl, d
  <2>2. Waiting(p) = [k \in 1 .. tl + 1 |-> e[k - 1]]
    <3>1. Waiting([size |-> s, head |-> 0, tail |-> tl + 1, data |-> e]) = [k \in 1 .. tl + 1 |-> e[k - 1]]
      BY WaitingIn
    <3> QED BY <1>9, <3>1, Zenon
  <2> QED BY <2>1, <2>2
<1> DEFINE w == Waiting(r)
<1>8. Append(w, m) = [k \in 1 .. tl + 1 |-> e[k - 1]]
  <2> HIDE DEF w
  <2>1. w \in Seq(Messages) /\ Len(w) = tl /\ \A k \in 1 .. tl : w[k] = d[k - 1]
    BY <1>7 DEF w
  <2>2. \A k \in 1 .. tl : k - 1 \in 0 .. tl - 1
    BY <1>1
  <2>3. \A k \in 1 .. tl + 1 : k = tl + 1 \/ k \in 1 .. tl
    BY <1>1
  <2>4. Append(w, m) = [k \in 1 .. tl + 1 |-> IF k = tl + 1 THEN m ELSE w[k]]
    <3> DEFINE x == Append(w, m)
    <3>1. /\ x \in Seq(Messages) /\ Len(x) = tl + 1 /\ x[tl + 1] = m
          /\ \A k \in 1 .. tl : x[k] = w[k]
      BY <2>1, AppendProperties
    <3> HIDE DEF x
    <3>2. x = [k \in 1 .. tl + 1 |-> x[k]]
      BY <3>1
    <3>3. \A k \in 1 .. tl + 1 : x[k] = IF k = tl + 1 THEN m ELSE w[k]
      BY <2>3, <3>1
    <3>4. x = [k \in 1 .. tl + 1 |-> IF k = tl + 1 THEN m ELSE w[k]]
      BY <3>2, <3>3
    <3> QED BY <3>4 DEF x
  <2>5. (tl + 1) - 1 = tl
    BY <1>1
  <2>6. \A k \in 1 .. tl + 1 : (IF k = tl + 1 THEN m ELSE w[k]) = e[k - 1]
    BY <1>4, <2>1, <2>2, <2>3, <2>5
  <2> QED BY <2>4, <2>6
<1> QED BY <1>6, <1>7, <1>8

LEMMA PushIs ==
  ASSUME NEW q \in Queue, NEW m \in Messages
  PROVE  push_queue_msg(q, m) \in Queue /\ Waiting(push_queue_msg(q, m)) = Append(Waiting(q), m)
<1>0. q.size \in Nat \ {0, 1} /\ q.head = 0 /\ q.tail \in 0 .. q.size - 1
  BY QueueIs
<1> DEFINE s == q.size
           tl == q.tail
<1>1. CASE tl = s - 1
  <2>1. (tl + 1) % s = 0
    <3>1. tl + 1 = s /\ s \in Nat \ {0} /\ 0 \in 0 .. s - 1
      BY <1>0, <1>1
    <3> QED BY <3>1, SmallMod
  <2>2. Expand(q) \in Queue /\ Expand(q).tail < Expand(q).size - 1 /\ Waiting(Expand(q)) = Waiting(q)
    BY <1>1, ExpandIs
  <2>3. push_queue_msg(q, m)
          = [Expand(q) EXCEPT !.data[Expand(q).tail] = m, !.tail = (Expand(q).tail + 1) % Expand(q).size]
    BY <1>0, <2>1 DEF push_queue_msg
  <2> QED BY <2>2, <2>3, PushWithRoom
<1>2. CASE tl # s - 1
  <2>1. (tl + 1) % s # 0
    <3>1. tl + 1 \in 0 .. s - 1 /\ s \in Nat \ {0} /\ tl + 1 # 0
      BY <1>0, <1>2
    <3> HIDE DEF tl, s
    <3> QED BY <3>1, SmallMod
  <2>2. q.tail < q.size - 1
    BY <1>0, <1>2
  <2>3. push_queue_msg(q, m) = [q EXCEPT !.data[q.tail] = m, !.tail = (q.tail + 1) % q.size]
    BY <1>0, <2>1 DEF push_queue_msg
  <2> QED BY <2>2, <2>3, PushWithRoom
<1> QED BY <1>1, <1>2


(***************************************************************************)
(* Induction over the natural numbers, for a set of them.                  *)
(***************************************************************************)
LEMMA LeastOne ==
  ASSUME NEW T, T \subseteq Nat, T # {}
  PROVE  \E x \in T : \A y \in T : x <= y
<1> DEFINE R == OpToRel(<, Nat)
<1>1. IsWellFoundedOn(R, Nat)
  BY NatLessThanWellFounded
<1>2. PICK x \in T : \A y \in T : ~(<<y, x>> \in R)
  <2> HIDE DEF R
  <2> QED BY <1>1, WFMin
<1>3. \A y \in T : <<y, x>> \in R <=> y < x
  BY Zenon DEF OpToRel
<1> HIDE DEF R
<1>4. \A y \in T : ~(y < x)
  BY <1>2, <1>3, Zenon
<1> QED BY <1>4

LEMMA Everyone ==
  ASSUME NEW T, 0 \in T, \A k \in Nat : k \in T => k + 1 \in T
  PROVE  Nat \subseteq T
<1> DEFINE U == {k \in Nat : k \notin T}
<1>1. ASSUME U # {} PROVE FALSE
  <2>1. PICK x \in U : \A y \in U : x <= y
    <3>1. U \subseteq Nat
      OBVIOUS
    <3> HIDE DEF U
    <3> QED BY <1>1, <3>1, LeastOne
  <2>2. x \in Nat /\ x # 0 /\ x \notin T
    OBVIOUS
  <2>3. x - 1 \in Nat /\ ~(x <= x - 1) /\ (x - 1) + 1 = x
    BY <2>2
  <2>4. x - 1 \in T
    BY <2>1, <2>3
  <2> QED BY <2>2, <2>3, <2>4
<1> QED BY <1>1

(***************************************************************************)
(* MergeQueues pushes one message after the other.                         *)
(***************************************************************************)
IsFold(g, to, c, n) ==
  g = [s \in SUBSET (1 .. n) |-> IF s = {} THEN to ELSE push_queue_msg(g[s \ {Max(s)}], c[Max(s)])]

LEMMA MaxIs ==
  ASSUME NEW n \in Nat, NEW s \in SUBSET (1 .. n), n \in s
  PROVE  Max(s) = n
<1>1. (\A y \in s : n >= y) /\ \A x \in s : (\A y \in s : x >= y) => x = n
  OBVIOUS
<1> QED BY <1>1 DEF Max

LEMMA FoldExists ==
  ASSUME NEW to, NEW c, NEW n \in Nat
  PROVE  \E g : IsFold(g, to, c, n)
<1> DEFINE T == {k \in Nat : \E g : IsFold(g, to, c, k)}
<1>1. 0 \in T
  <2> DEFINE g == [s \in SUBSET (1 .. 0) |-> to]
  <2>1. SUBSET (1 .. 0) = {{}}
    OBVIOUS
  <2>2. IsFold(g, to, c, 0)
    BY <2>1 DEF IsFold
  <2> QED BY <2>2
<1>2. ASSUME NEW k \in Nat, k \in T PROVE k + 1 \in T
  <2>1. PICK f : IsFold(f, to, c, k)
    BY <1>2
  <2> DEFINE n1 == k + 1
             g == [s \in SUBSET (1 .. n1) |-> IF n1 \in s THEN push_queue_msg(f[s \ {n1}], c[n1]) ELSE f[s]]
  <2>2. /\ n1 \in Nat /\ n1 \notin 1 .. k
        /\ \A s \in SUBSET (1 .. n1) : n1 \notin s => s \in SUBSET (1 .. k)
        /\ \A s \in SUBSET (1 .. k) : s \in SUBSET (1 .. n1) /\ n1 \notin s
        /\ \A s \in SUBSET (1 .. n1) : s \ {n1} \in SUBSET (1 .. k)
    OBVIOUS
  <2> HIDE DEF n1
  <2>3. \A s \in SUBSET (1 .. k) : g[s] = f[s]
    BY <2>2
  <2>4. ASSUME NEW s \in SUBSET (1 .. n1)
        PROVE  g[s] = IF s = {} THEN to ELSE push_queue_msg(g[s \ {Max(s)}], c[Max(s)])
    <3>1. CASE n1 \in s
      <4>1. Max(s) = n1 /\ s # {}
        BY <2>2, <3>1, MaxIs
      <4>2. g[s] = push_queue_msg(f[s \ {n1}], c[n1])
        BY <3>1
      <4>3. g[s \ {n1}] = f[s \ {n1}]
        BY <2>2, <2>3
      <4> HIDE DEF g
      <4> QED BY <4>1, <4>2, <4>3
    <3>2. CASE n1 \notin s
      <4>1. s \in SUBSET (1 .. k) /\ s \ {Max(s)} \in SUBSET (1 .. k)
        BY <2>2, <3>2
      <4>2. g[s] = f[s] /\ g[s \ {Max(s)}] = f[s \ {Max(s)}]
        BY <2>3, <4>1
      <4>3. f[s] = IF s = {} THEN to ELSE push_queue_msg(f[s \ {Max(s)}], c[Max(s)])
        BY <2>1, <4>1 DEF IsFold
      <4> HIDE DEF g
      <4> QED BY <4>2, <4>3
    <3> QED BY <3>1, <3>2
  <2>5. g = [s \in SUBSET (1 .. n1) |-> g[s]]
    OBVIOUS
  <2> HIDE DEF g
  <2>6. IsFold(g, to, c, n1)
    BY <2>4, <2>5 DEF IsFold
  <2> QED BY <2>2, <2>6 DEF n1
<1> HIDE DEF T
<1>3. n \in T
  BY <1>1, <1>2, Everyone
<1> QED BY <1>3 DEF T

LEMMA MergeIs ==
  ASSUME NEW to \in Queue, NEW c \in Seq(Messages)
  PROVE  /\ FoldLeft(push_queue_msg, to, c) \in Queue
         /\ Waiting(FoldLeft(push_queue_msg, to, c)) = Waiting(to) \o c
<1> DEFINE n == Len(c)
           w == Waiting(to)
<1>1. n \in Nat /\ DOMAIN c = 1 .. n /\ w \in Seq(Messages) /\ \A k \in 1 .. n : c[k] \in Messages
  BY QueueIs
<1>2. PICK g : IsFold(g, to, c, n) /\ FoldLeft(push_queue_msg, to, c) = g[1 .. n]
  <2>1. FoldLeft(push_queue_msg, to, c) = (CHOOSE g : IsFold(g, to, c, n))[1 .. n]
    BY <1>1 DEF FoldLeft, MapThenFoldSet, IsFold
  <2> HIDE DEF n
  <2>2. \E g : IsFold(g, to, c, n)
    BY <1>1, FoldExists
  <2> QED BY <2>1, <2>2
<1> HIDE DEF n, w
<1> DEFINE P(k) == g[1 .. k] \in Queue /\ Waiting(g[1 .. k]) = w \o SubSeq(c, 1, k)
           T == {k \in Nat : k <= n => P(k)}
<1>3. 0 \in T
  <2>1. 1 .. 0 = {} /\ {} \in SUBSET (1 .. n)
    OBVIOUS
  <2>2. g[{}] = to
    BY <1>2, <2>1 DEF IsFold
  <2>3. SubSeq(c, 1, 0) = <<>> /\ w \o <<>> = w
    BY <1>1
  <2> QED BY <2>1, <2>2, <2>3 DEF w
<1>4. ASSUME NEW k \in Nat, k \in T PROVE k + 1 \in T
  <2> SUFFICES ASSUME k + 1 <= n PROVE P(k + 1)
    OBVIOUS
  <2>1. P(k) /\ k + 1 \in 1 .. n /\ k \in 0 .. n
    BY <1>1, <1>4
  <2> DEFINE j == k + 1
  <2>2. /\ 1 .. j \in SUBSET (1 .. n) /\ 1 .. j # {} /\ j \in 1 .. j /\ (1 .. j) \ {j} = 1 .. k /\ j \in Nat
        /\ 1 .. j \in SUBSET (1 .. j)
    <3>1. j \in Nat /\ j <= n /\ n \in Nat /\ k = j - 1 /\ j > 0
      BY <1>1, <2>1
    <3>2. \A x \in 1 .. j : x \in 1 .. n
      BY <3>1
    <3>3. j \in 1 .. j
      BY <3>1
    <3>4. \A x : x \in 1 .. k <=> x \in 1 .. j /\ x # j
      BY <3>1
    <3> HIDE DEF j
    <3> QED BY <3>1, <3>2, <3>3, <3>4
  <2>3. Max(1 .. j) = j
    <3> HIDE DEF j
    <3> QED BY <2>2, MaxIs
  <2>4. g[1 .. j] = push_queue_msg(g[1 .. k], c[j])
    <3>1. g[1 .. j] = push_queue_msg(g[(1 .. j) \ {Max(1 .. j)}], c[Max(1 .. j)])
      <4> HIDE DEF j
      <4> QED BY <1>2, <2>2 DEF IsFold
    <3> HIDE DEF j
    <3> QED BY <2>2, <2>3, <3>1
  <2>5. c[j] \in Messages
    BY <1>1, <2>1
  <2>6. g[1 .. j] \in Queue /\ Waiting(g[1 .. j]) = Append(w \o SubSeq(c, 1, k), c[j])
    BY <2>1, <2>4, <2>5, PushIs
  <2>7. Append(w \o SubSeq(c, 1, k), c[j]) = w \o SubSeq(c, 1, j)
    <3>1. SubSeq(c, 1, j) = Append(SubSeq(c, 1, k), c[j])
      BY <1>1, <2>1 DEF n
    <3>2. SubSeq(c, 1, k) \in Seq(Messages)
      BY <1>1, <2>1 DEF n
    <3> DEFINE x == SubSeq(c, 1, k)
               m == c[j]
    <3>3. Append(w \o x, m) = w \o Append(x, m)
      <4>1. x \in Seq(Messages) /\ w \in Seq(Messages) /\ m \in Messages
        BY <1>1, <2>5, <3>2
      <4> HIDE DEF x, m
      <4>2. w \o x \in Seq(Messages) /\ <<m>> \in Seq(Messages)
        BY <4>1
      <4>3. Append(w \o x, m) = (w \o x) \o <<m>> /\ Append(x, m) = x \o <<m>>
        BY <4>1, <4>2, AppendIsConcat
      <4>4. (w \o x) \o <<m>> = w \o (x \o <<m>>)
        BY <4>1, <4>2, ConcatAssociative
      <4> QED BY <4>3, <4>4
    <3> QED BY <3>1, <3>3
  <2> QED BY <2>6, <2>7
<1>5. n \in T
  <2> HIDE DEF T
  <2> QED BY <1>1, <1>3, <1>4, Everyone
<1>6. P(n)
  BY <1>1, <1>5
<1>7. SubSeq(c, 1, n) = c
  BY <1>1 DEF n
<1> QED BY <1>2, <1>6, <1>7 DEF w


-------------------------------------------------------------------------------
(***************************************************************************)
(* The inductive invariant of the service.                                 *)
(*   Types    the types of the variables, with what a byte of a stream and *)
(*            a queue may be;                                              *)
(*   Reads    the loop of push_socket_data has bytes of a harbor that has  *)
(*            a connection, and s->read is within the header or within the *)
(*            content, whichever is being read;                            *)
(*   Streams  every connection belongs to one harbor, and what is still to *)
(*            be read of it is a sequence of frames of which the first     *)
(*            continues what has been read.                                *)
(***************************************************************************)
Bytes == {b \in [at : Nat, len : {0} \cup Lengths, bad : BOOLEAN] :
            /\ b.at <= HeaderSize + b.len
            /\ b.at # 0 /\ ~b.bad => b.len \in Lengths}
Status == {"wait", "handshake", "header", "content", "down"}

SlaveRecord == [fd : 0 .. MaxFd, status : Status, queue : {None} \cup Queue, read : Nat,
                length : {0} \cup Lengths, size : [1 .. HeaderSize -> Bytes \cup {None}]]
NameRecord == [value : Handle \cup {None}, queue : {None} \cup Queue]
SentRecord == [n : Nat, to : Handle \cup Name \cup {None}, dest : Handle \cup {None},
               via : Id, fd : 0 .. MaxFd]
SockRecord == [link : {"open", "ended", "closed"}, wire : Seq(Bytes)]

Types == /\ slave \in [Id -> SlaveRecord]
         /\ names \in [Name -> NameRecord]
         /\ reading \in {None} \cup [id : Remote, buf : Seq(Bytes)]
         /\ running \in BOOLEAN
         /\ sent \in Seq(SentRecord)
         /\ answered \subseteq Nat /\ dropped \subseteq Nat
         /\ asked \subseteq Name /\ downs \subseteq Remote /\ torn \subseteq Remote
         /\ next \in Nat /\ conns \in 0 .. MaxFd /\ frames \in Nat
         /\ sock \in [Fd -> SockRecord]

Counted(s) == /\ s.read < HeaderSize \/ s.read < s.length
              /\ s.status = "content" => s.read < s.length
              /\ running /\ s.status # "content" => s.read < HeaderSize
              /\ \A k \in 1 .. HeaderSize : k <= s.read \/ s.status = "content" => s.size[k] \in Bytes

Reads == /\ \A i \in Id : Counted(slave[i])
         /\ reading # None => running /\ reading.buf # <<>> /\ slave[reading.id].fd # 0

\* Which queues there may be, whatever the streams hold.
Kept(i, s) == /\ s.queue # None => i # Self /\ s.status \in {"wait", "handshake"}
              /\ s.fd = 0 <=> s.status \in {"wait", "down"}
KeptNames == \A n \in Name : names[n].queue # None => names[n].value = None /\ n \in asked
Waits == KeptNames /\ \A i \in Id : Kept(i, slave[i])

Base == Types /\ Waits /\ Reads

\* The last byte of a frame, or the id.
End(x) == x.at = 0 \/ x.at = HeaderSize + x.len
Follows(x, y) == IF End(x) THEN y.at = 1
                 ELSE y.at = x.at + 1 /\ y.len = x.len /\ y.bad = x.bad

Framed(b) == /\ \A k \in 1 .. Len(b) - 1 : Follows(b[k], b[k + 1])
             /\ b # <<>> => End(b[Len(b)])

\* Byte x is the one that a slave in the state s reads next.
Expected(s, x) ==
  \/ s.status = "handshake" /\ x.at = 0
  \/ /\ s.status = "header" /\ x.at = s.read + 1
     /\ \A k \in 1 .. s.read : s.size[k].at = k /\ s.size[k].len = x.len /\ s.size[k].bad = x.bad
  \/ s.status = "content" /\ x.at = HeaderSize + s.read + 1 /\ x.len = s.length /\ ~x.bad

InStream(i) ==
  /\ Framed(Stream(i))
  /\ Stream(i) # <<>> => Expected(slave[i], Stream(i)[1])
  /\ Stream(i) = <<>> => \/ sock[slave[i].fd].link # "open"
                         \/ slave[i].status = "header" /\ slave[i].read = 0

Owners == \A i \in Remote : /\ slave[i].fd <= conns
                            /\ \A j \in Remote : slave[i].fd = slave[j].fd /\ slave[i].fd # 0 => i = j

Streams == \A i \in Remote \ torn :
             /\ slave[i].fd # 0 => InStream(i)
             /\ running /\ slave[i].status \notin {"header", "content"} => slave[i].read = 0

HarborInv == Base /\ Owners /\ Streams


(***************************************************************************)
(* What messages and queues are made of.                                   *)
(***************************************************************************)
LEMMA ContentsTyped ==
  ASSUME NEW q \in {None} \cup Queue
  PROVE  Contents(q) \in Seq(Messages) /\ Numbers(q) \subseteq Nat
<1>1. Contents(q) \in Seq(Messages)
  <2>1. CASE q = None
    BY <2>1 DEF Contents
  <2>2. CASE q # None
    <3>1. q \in Queue
      BY <2>2
    <3> QED BY <2>2, <3>1, ContentsIs, QueueIs
  <2> QED BY <2>1, <2>2
<1> DEFINE c == Contents(q)
<1>2. Numbers(q) = {m.n : m \in {c[k] : k \in DOMAIN c}}
  BY DEF Numbers, ToSet
<1> HIDE DEF c
<1>3. c \in Seq(Messages)
  BY <1>1 DEF c
<1>4. \A k \in DOMAIN c : c[k] \in Messages
  BY <1>3
<1>5. \A m \in Messages : m.n \in Nat
  BY DEF Messages
<1> QED BY <1>1, <1>2, <1>4, <1>5

LEMMA QueuedTyped ==
  ASSUME NEW q \in {None} \cup Queue, NEW m \in Messages
  PROVE  Queued(q, m) \in Queue
BY PushIs, NewIsQueue DEF Queued

LEMMA MergeTyped ==
  ASSUME NEW to \in {None} \cup Queue, NEW from \in {None} \cup Queue
  PROVE  MergeQueues(to, from) \in {None} \cup Queue
<1>1. CASE to = None
  BY <1>1 DEF MergeQueues
<1>2. CASE to # None
  <2> DEFINE c == Contents(from)
  <2>1. c \in Seq(Messages) /\ to \in Queue
    BY <1>2, ContentsTyped
  <2>2. MergeQueues(to, from) = FoldLeft(push_queue_msg, to, c)
    BY <1>2 DEF MergeQueues
  <2> HIDE DEF c
  <2> QED BY <2>1, <2>2, MergeIs
<1> QED BY <1>1, <1>2

LEMMA LeavingTyped ==
  ASSUME NEW m \in Messages, NEW id \in Id, NEW fd \in 0 .. MaxFd
  PROVE  Leaving(m, id, fd) \in SentRecord
BY DEF Leaving, SentRecord, Messages

LEMMA LeavingAllTyped ==
  ASSUME NEW ms \in Seq(Messages), NEW id \in Id, NEW fd \in 0 .. MaxFd
  PROVE  LeavingAll(ms, id, fd) \in Seq(SentRecord)
<1> DEFINE l == Len(ms)
<1>1. l \in Nat /\ \A k \in 1 .. l : ms[k] \in Messages
  OBVIOUS
<1>2. LeavingAll(ms, id, fd) = [k \in 1 .. l |-> Leaving(ms[k], id, fd)]
  BY DEF LeavingAll
<1> HIDE DEF l
<1>3. [k \in 1 .. l |-> Leaving(ms[k], id, fd)] \in [1 .. l -> SentRecord]
  BY <1>1, LeavingTyped
<1> QED BY <1>1, <1>2, <1>3, IsASeq

LEMMA WithHandleTyped ==
  ASSUME NEW ms \in Seq(Messages), NEW value \in Handle
  PROVE  WithHandle(ms, value) \in Seq(Messages)
<1> DEFINE l == Len(ms)
<1>1. l \in Nat /\ \A k \in 1 .. l : ms[k] \in Messages
  OBVIOUS
<1>2. WithHandle(ms, value) = [k \in 1 .. l |-> [ms[k] EXCEPT !.dest = value]]
  BY DEF WithHandle
<1> HIDE DEF l
<1>3. \A m \in Messages : [m EXCEPT !.dest = value] \in Messages
  BY DEF Messages
<1>4. [k \in 1 .. l |-> [ms[k] EXCEPT !.dest = value]] \in [1 .. l -> Messages]
  BY <1>1, <1>3
<1> QED BY <1>1, <1>2, <1>4, IsASeq

LEMMA HandshakeTyped ==
  ASSUME NEW id \in Id, NEW fd \in 0 .. MaxFd
  PROVE  handshake(id, fd) \in SentRecord
<1>1. handshake(id, fd) = [n |-> 0, to |-> None, dest |-> None, via |-> id, fd |-> fd]
  BY DEF handshake, Leaving
<1> QED BY <1>1 DEF SentRecord

(***************************************************************************)
(* What a step does to the records of the slaves.                          *)
(***************************************************************************)
\* Only queues change.
SameSlaves == \A i \in Id : /\ slave'[i].fd = slave[i].fd /\ slave'[i].status = slave[i].status
                            /\ slave'[i].read = slave[i].read /\ slave'[i].length = slave[i].length
                            /\ slave'[i].size = slave[i].size

LEMMA BaseIs ==
  Base <=> /\ Types /\ KeptNames
           /\ \A i \in Id : Counted(slave[i]) /\ Kept(i, slave[i])
           /\ reading # None => running /\ reading.buf # <<>> /\ slave[reading.id].fd # 0
BY DEF Base, Waits, Reads

\* The same after a step.
LEMMA BaseNext ==
  ASSUME Types', KeptNames', \A i \in Id : Counted(slave[i])' /\ Kept(i, slave'[i]),
         reading' # None => running' /\ reading'.buf # <<>> /\ slave'[reading'.id].fd # 0
  PROVE  Base'
<1>1. \A i \in Id : Kept(i, slave[i])'
  BY DEF Kept
<1> QED BY <1>1 DEF Base, Waits, Reads

LEMMA OneSlave ==
  ASSUME Base, NEW id \in Id, NEW r \in SlaveRecord, slave' = [slave EXCEPT ![id] = r],
         running' = running, Counted(r), Kept(id, r)
  PROVE  /\ slave' \in [Id -> SlaveRecord]
         /\ slave'[id] = r /\ \A i \in Id \ {id} : slave'[i] = slave[i]
         /\ \A i \in Id : Counted(slave[i])' /\ Kept(i, slave'[i])
<1>1. slave \in [Id -> SlaveRecord] /\ \A i \in Id : Counted(slave[i]) /\ Kept(i, slave[i])
  BY BaseIs DEF Types
<1>2. /\ slave' \in [Id -> SlaveRecord]
      /\ slave'[id] = r /\ \A i \in Id \ {id} : slave'[i] = slave[i]
  BY <1>1
<1>3. ASSUME NEW i \in Id PROVE Counted(slave[i])' /\ Kept(i, slave'[i])
  <2>1. CASE i = id
    <3>1. slave'[i] = r
      BY <1>2, <2>1
    <3>2. Counted(slave[i])'
      BY <3>1 DEF Counted
    <3> QED BY <2>1, <3>1, <3>2
  <2>2. CASE i # id
    <3>1. slave'[i] = slave[i]
      BY <1>2, <2>2
    <3>2. Counted(slave[i])'
      BY <1>1, <3>1 DEF Counted
    <3> QED BY <1>1, <3>1, <3>2
  <2> QED BY <2>1, <2>2
<1> QED BY <1>2, <1>3

\* Another queue for harbor id: for one that waits or shakes hands, or no queue.
LEMMA OtherQueue ==
  ASSUME Base, NEW id \in Id, NEW q \in {None} \cup Queue,
         q = None \/ (id # Self /\ slave[id].status \in {"wait", "handshake"}),
         slave' = [slave EXCEPT ![id].queue = q], running' = running
  PROVE  /\ slave' \in [Id -> SlaveRecord] /\ SameSlaves
         /\ \A i \in Id : Counted(slave[i])' /\ Kept(i, slave'[i])
<1>0. slave[id] \in SlaveRecord /\ Counted(slave[id]) /\ Kept(id, slave[id])
  BY BaseIs DEF Types
<1>1. PICK r : r = [slave[id] EXCEPT !.queue = q]
  OBVIOUS
<1>2. slave' = [slave EXCEPT ![id] = r]
  BY <1>1
<1>3. /\ r \in SlaveRecord /\ r.queue = q /\ r.fd = slave[id].fd /\ r.status = slave[id].status
      /\ r.read = slave[id].read /\ r.length = slave[id].length /\ r.size = slave[id].size
  BY <1>0, <1>1 DEF SlaveRecord
<1>4. Counted(r) /\ Kept(id, r)
  BY <1>0, <1>3 DEF Counted, Kept
<1>5. /\ slave' \in [Id -> SlaveRecord]
      /\ slave'[id] = r /\ \A i \in Id \ {id} : slave'[i] = slave[i]
      /\ \A i \in Id : Counted(slave[i])' /\ Kept(i, slave'[i])
  BY <1>2, <1>3, <1>4, OneSlave
<1>6. SameSlaves
  BY <1>3, <1>5 DEF SameSlaves
<1> QED BY <1>5, <1>6

LEMMA SlavesUnchanged ==
  ASSUME Base, slave' = slave, running' = running
  PROVE  /\ slave' \in [Id -> SlaveRecord] /\ SameSlaves
         /\ \A i \in Id : Counted(slave[i])' /\ Kept(i, slave'[i])
<1>1. slave \in [Id -> SlaveRecord] /\ \A i \in Id : Counted(slave[i]) /\ Kept(i, slave[i])
  BY BaseIs DEF Types
<1>2. \A i \in Id : Counted(slave[i])'
  BY <1>1 DEF Counted
<1> QED BY <1>1, <1>2 DEF SameSlaves


LEMMA SlaveIs ==
  ASSUME Base, NEW i \in Id
  PROVE  /\ slave[i] \in SlaveRecord /\ slave[i].fd \in 0 .. MaxFd /\ slave[i].status \in Status
         /\ slave[i].queue \in {None} \cup Queue /\ slave[i].read \in Nat
         /\ slave[i].length \in {0} \cup Lengths
         /\ slave[i].size \in [1 .. HeaderSize -> Bytes \cup {None}]
         /\ Counted(slave[i]) /\ Kept(i, slave[i])
<1>1. slave[i] \in SlaveRecord /\ Counted(slave[i]) /\ Kept(i, slave[i])
  BY BaseIs DEF Types
<1> QED BY <1>1 DEF SlaveRecord

LEMMA Ids ==
  /\ Self \in Id /\ 0 \in 0 .. MaxFd /\ Remote \subseteq Id /\ Self \notin Remote
  /\ \A handle \in Handle : HarborOf[handle] \in Id
BY HarborAssumption DEF Id

(***************************************************************************)
(* The messages out.                                                       *)
(***************************************************************************)
LEMMA RemoteSend ==
  ASSUME Base, NEW to \in Handle \cup Name, NEW handle \in Handle, remote_send_handle(to, handle),
         running' = running
  PROVE  /\ slave' \in [Id -> SlaveRecord] /\ SameSlaves
         /\ \A i \in Id : Counted(slave[i])' /\ Kept(i, slave'[i])
         /\ sent' \in Seq(SentRecord) /\ answered' \subseteq Nat
<1> DEFINE id == HarborOf[handle]
           s == slave[id]
           m == Message(to, handle)
<1>0. /\ id \in Id /\ s \in SlaveRecord /\ s.fd \in 0 .. MaxFd /\ sent \in Seq(SentRecord)
      /\ answered \subseteq Nat /\ Kept(id, s) /\ s.queue \in {None} \cup Queue
      /\ s.status \in Status /\ Self \in Id /\ 0 \in 0 .. MaxFd
  <2>1. id \in Id /\ Self \in Id /\ 0 \in 0 .. MaxFd
    BY Ids
  <2>2. sent \in Seq(SentRecord) /\ answered \subseteq Nat
    BY DEF Base, Types
  <2> HIDE DEF id
  <2> QED BY <2>1, <2>2, SlaveIs
<1>1. m \in Messages /\ m.n \in Nat
  BY BaseIs DEF Types, Message, Messages
<1>2. CASE /\ sent' = Append(sent, Leaving(m, Self, 0)) \/ sent' = Append(sent, Leaving(m, id, s.fd))
           /\ UNCHANGED <<slave, answered>>
  <2>1. Leaving(m, Self, 0) \in SentRecord /\ Leaving(m, id, s.fd) \in SentRecord
    BY <1>0, <1>1, LeavingTyped
  <2>2. sent' \in Seq(SentRecord)
    BY <1>0, <1>2, <2>1, AppendProperties
  <2> QED BY <1>0, <1>2, <2>2, SlavesUnchanged
<1>3. CASE answered' = answered \cup {m.n} /\ UNCHANGED <<slave, sent>>
  BY <1>0, <1>1, <1>3, SlavesUnchanged
<1>4. CASE /\ id # Self /\ (s.fd = 0 \/ s.status = "handshake") /\ s.status # "down"
           /\ slave' = [slave EXCEPT ![id].queue = Queued(@, m)]
           /\ UNCHANGED <<sent, answered>>
  <2>1. PICK q \in Queue : q = Queued(s.queue, m)
    BY <1>0, <1>1, QueuedTyped
  <2>2. slave' = [slave EXCEPT ![id].queue = q]
    BY <1>4, <2>1
  <2>3. s.status \in {"wait", "handshake"} /\ id # Self
    BY <1>0, <1>4 DEF Kept, Status
  <2> HIDE DEF id
  <2> QED BY <1>0, <1>4, <2>2, <2>3, OtherQueue
<1> QED BY <1>2, <1>3, <1>4 DEF remote_send_handle

LEMMA SendHandleBase ==
  ASSUME Base, NEW handle \in Handle, SendHandle(handle)
  PROVE  Base' /\ SameSlaves
<1>1. /\ remote_send_handle(handle, handle) /\ next' = next + 1
      /\ UNCHANGED <<names, reading, running, dropped, asked, downs, torn, sock, conns, frames>>
      /\ reading = None
  BY DEF SendHandle, env, Idle
<1>2. /\ slave' \in [Id -> SlaveRecord] /\ SameSlaves
      /\ \A i \in Id : Counted(slave[i])' /\ Kept(i, slave'[i])
      /\ sent' \in Seq(SentRecord) /\ answered' \subseteq Nat
  BY <1>1, RemoteSend
<1>3. Types'
  BY <1>1, <1>2 DEF Base, Types
<1>4. KeptNames'
  BY <1>1, BaseIs DEF KeptNames
<1> QED BY <1>1, <1>2, <1>3, <1>4, BaseNext

LEMMA SendNameBase ==
  ASSUME Base, NEW n \in Name, SendName(n)
  PROVE  Base' /\ SameSlaves
<1>1. /\ remote_send_name(n) /\ next' = next + 1
      /\ UNCHANGED <<reading, running, dropped, downs, torn, sock, conns, frames>>
      /\ reading = None
  BY DEF SendName, env, Idle
<1>0. names[n] \in NameRecord /\ KeptNames /\ Types
  BY BaseIs DEF Types
<1>2. CASE /\ names[n].value = None
           /\ names' = [names EXCEPT ![n].queue = Queued(@, Message(n, None))]
           /\ asked' = asked \cup {n}
           /\ UNCHANGED <<slave, sent, answered>>
  <2>1. Message(n, None) \in Messages
    BY <1>0 DEF Types, Message, Messages
  <2>2. PICK q \in Queue : q = Queued(names[n].queue, Message(n, None))
    BY <1>0, <2>1, QueuedTyped DEF NameRecord
  <2>3. PICK r : r = [names[n] EXCEPT !.queue = q]
    OBVIOUS
  <2>4. names' = [names EXCEPT ![n] = r] /\ r \in NameRecord /\ r.value = None
    BY <1>0, <1>2, <2>2, <2>3 DEF NameRecord
  <2>5. names' \in [Name -> NameRecord] /\ \A x \in Name : names'[x] = IF x = n THEN r ELSE names[x]
    BY <1>0, <2>4 DEF Types
  <2>6. /\ slave' \in [Id -> SlaveRecord] /\ SameSlaves
        /\ \A i \in Id : Counted(slave[i])' /\ Kept(i, slave'[i])
    BY <1>1, <1>2, SlavesUnchanged
  <2>7. Types'
    BY <1>0, <1>1, <1>2, <2>5, <2>6 DEF Types
  <2>8. KeptNames'
    BY <1>0, <1>2, <2>4, <2>5 DEF KeptNames
  <2> QED BY <1>1, <2>6, <2>7, <2>8, BaseNext
<1>3. CASE names[n].value # None /\ remote_send_handle(n, names[n].value) /\ UNCHANGED <<names, asked>>
  <2>1. names[n].value \in Handle
    BY <1>0, <1>3 DEF NameRecord
  <2>2. /\ slave' \in [Id -> SlaveRecord] /\ SameSlaves
        /\ \A i \in Id : Counted(slave[i])' /\ Kept(i, slave'[i])
        /\ sent' \in Seq(SentRecord) /\ answered' \subseteq Nat
    BY <1>1, <1>3, <2>1, RemoteSend
  <2>3. Types'
    BY <1>0, <1>1, <1>3, <2>2 DEF Types
  <2>4. KeptNames'
    BY <1>0, <1>3 DEF KeptNames
  <2> QED BY <1>1, <2>2, <2>3, <2>4, BaseNext
<1> QED BY <1>1, <1>2, <1>3 DEF remote_send_name

LEMMA UpdateNameBase ==
  ASSUME Base, NEW n \in Name, NEW value \in Handle, update_name(n, value)
  PROVE  Base' /\ SameSlaves
<1> DEFINE id == HarborOf[value]
           s == slave[id]
           queue == names[n].queue
           all == MergeQueues(s.queue, queue)
<1>1. /\ names' = [names EXCEPT ![n] = [value |-> value, queue |-> None]]
      /\ UNCHANGED <<reading, running, answered, asked, downs, torn, next, sock, conns, frames>>
      /\ reading = None
      /\ dispatch_name_queue(n, value) \/ UNCHANGED <<slave, sent, dropped>>
  BY DEF update_name, env, Idle
<1>0. /\ names[n] \in NameRecord /\ KeptNames /\ Types /\ id \in Id /\ s \in SlaveRecord
      /\ queue \in {None} \cup Queue /\ s.queue \in {None} \cup Queue /\ s.fd \in 0 .. MaxFd
      /\ Kept(id, s) /\ Self \in Id /\ 0 \in 0 .. MaxFd /\ s.status \in Status
  <2>1. id \in Id /\ Self \in Id /\ 0 \in 0 .. MaxFd
    BY Ids
  <2>2. names[n] \in NameRecord /\ KeptNames /\ Types
    BY BaseIs DEF Types
  <2>3. queue \in {None} \cup Queue
    BY <2>2 DEF NameRecord
  <2> HIDE DEF id
  <2> QED BY <2>1, <2>2, <2>3, SlaveIs
<1>2. names' \in [Name -> NameRecord] /\ KeptNames'
  <2>1. PICK r : r = [value |-> value, queue |-> None]
    OBVIOUS
  <2>2. r \in NameRecord /\ r.queue = None
    BY <2>1 DEF NameRecord
  <2>3. names' = [names EXCEPT ![n] = r]
    BY <1>1, <2>1
  <2> QED BY <1>0, <1>1, <2>2, <2>3 DEF Types, KeptNames
<1>3. /\ slave' \in [Id -> SlaveRecord] /\ SameSlaves
      /\ \A i \in Id : Counted(slave[i])' /\ Kept(i, slave'[i])
      /\ sent' \in Seq(SentRecord) /\ dropped' \subseteq Nat
  <2>0. sent \in Seq(SentRecord) /\ dropped \subseteq Nat
    BY <1>0 DEF Types
  <2>1. PICK a \in {None} \cup Queue : a = all
    BY <1>0, MergeTyped
  <2>2. Contents(queue) \in Seq(Messages) /\ Contents(a) \in Seq(Messages) /\ Numbers(queue) \subseteq Nat
    BY <1>0, ContentsTyped
  <2>3. CASE UNCHANGED <<slave, sent, dropped>>
    BY <1>1, <2>0, <2>3, SlavesUnchanged
  <2>4. CASE dropped' = dropped \cup Numbers(queue) /\ UNCHANGED <<slave, sent>>
    BY <1>1, <2>0, <2>2, <2>4, SlavesUnchanged
  <2>5. CASE /\ s.fd = 0 /\ s.status # "down" /\ id # Self
             /\ slave' = [slave EXCEPT ![id].queue = all] /\ UNCHANGED <<sent, dropped>>
    <3>1. s.status \in {"wait", "handshake"} /\ slave' = [slave EXCEPT ![id].queue = a]
      BY <1>0, <2>1, <2>5 DEF Kept, Status
    <3> HIDE DEF id
    <3> QED BY <1>0, <1>1, <2>0, <2>5, <3>1, OtherQueue
  <2>6. CASE /\ id = Self /\ slave' = [slave EXCEPT ![id].queue = None]
             /\ sent' = sent \o LeavingAll(WithHandle(Contents(all), value), Self, 0)
             /\ UNCHANGED dropped
    <3>1. LeavingAll(WithHandle(Contents(a), value), Self, 0) \in Seq(SentRecord)
      BY <1>0, <2>2, WithHandleTyped, LeavingAllTyped
    <3>2. sent' \in Seq(SentRecord)
      BY <2>0, <2>1, <2>6, <3>1, ConcatProperties
    <3> HIDE DEF id
    <3> QED BY <1>0, <1>1, <2>0, <2>6, <3>2, OtherQueue
  <2>7. CASE /\ sent' = sent \o LeavingAll(WithHandle(Contents(queue), value), id, s.fd)
             /\ UNCHANGED <<slave, dropped>>
    <3>1. LeavingAll(WithHandle(Contents(queue), value), id, s.fd) \in Seq(SentRecord)
      BY <1>0, <2>2, WithHandleTyped, LeavingAllTyped
    <3>2. sent' \in Seq(SentRecord)
      BY <2>0, <2>7, <3>1, ConcatProperties
    <3> QED BY <1>1, <2>0, <2>7, <3>2, SlavesUnchanged
  <2> QED BY <1>1, <2>3, <2>4, <2>5, <2>6, <2>7 DEF dispatch_name_queue
<1>4. Types'
  BY <1>0, <1>1, <1>2, <1>3 DEF Types
<1> QED BY <1>1, <1>2, <1>3, <1>4, BaseNext


(***************************************************************************)
(* The connections.                                                        *)
(***************************************************************************)
LEMMA NewSocketTyped ==
  ASSUME Base, NEW bytes \in Seq(Bytes), NewSocket(bytes)
  PROVE  /\ conns' = conns + 1 /\ conns' \in 1 .. MaxFd
         /\ sock' \in [Fd -> SockRecord]
         /\ sock'[conns'] = [link |-> "open", wire |-> bytes]
         /\ \A fd \in Fd \ {conns'} : sock'[fd] = sock[fd]
<1>1. conns \in 0 .. MaxFd /\ sock \in [Fd -> SockRecord] /\ MaxFd \in Nat
  BY HarborAssumption DEF Base, Types
<1>2. conns' = conns + 1 /\ conns + 1 \in 1 .. MaxFd /\ conns + 1 \in Fd
  BY <1>1 DEF NewSocket, Fd
<1>3. PICK r : r = [link |-> "open", wire |-> bytes]
  OBVIOUS
<1>4. r \in SockRecord
  BY <1>3 DEF SockRecord
<1>5. PICK c \in Fd : c = conns + 1
  BY <1>2
<1>6. sock' = [sock EXCEPT ![c] = r]
  BY <1>3, <1>5 DEF NewSocket
<1> QED BY <1>1, <1>2, <1>3, <1>4, <1>5, <1>6

LEMMA ConnectBase ==
  ASSUME Base, NEW id \in Remote, Connect(id)
  PROVE  /\ Base'
         /\ slave'[id].fd = conns' /\ slave'[id].status = "handshake" /\ slave'[id].read = slave[id].read
         /\ \A i \in Id \ {id} : slave'[i] = slave[i]
         /\ \E bad \in BOOLEAN : IdByte(bad) \in Bytes /\ NewSocket(<<IdByte(bad)>>)
<1>1. /\ slave[id].fd = 0 /\ sent' = Append(sent, handshake(id, conns'))
      /\ slave' = [slave EXCEPT ![id].fd = conns', ![id].status = "handshake"]
      /\ UNCHANGED <<names, reading, running, answered, dropped, asked, downs, torn, next, frames>>
      /\ reading = None /\ id \in Id
  BY Ids DEF Connect, Idle
<1>2. PICK bad \in BOOLEAN : NewSocket(<<IdByte(bad)>>)
  BY DEF Connect
<1>3. IdByte(bad) \in Bytes
  <2>1. PICK b : b = [at |-> 0, len |-> 0, bad |-> bad]
    OBVIOUS
  <2>2. b \in [at : Nat, len : {0} \cup Lengths, bad : BOOLEAN] /\ b.at = 0 /\ b.len = 0
    BY <2>1
  <2>3. 0 <= HeaderSize + 0
    BY HarborAssumption
  <2>4. b \in Bytes
    BY <2>2, <2>3 DEF Bytes
  <2> QED BY <2>1, <2>4 DEF IdByte
<1>4. <<IdByte(bad)>> \in Seq(Bytes)
  BY <1>3
<1>5. conns' = conns + 1 /\ conns' \in 1 .. MaxFd /\ sock' \in [Fd -> SockRecord]
  BY <1>2, <1>4, NewSocketTyped
<1>6. PICK c \in 1 .. MaxFd : c = conns'
  BY <1>5
<1>7. PICK r : r = [slave[id] EXCEPT !.fd = c, !.status = "handshake"]
  OBVIOUS
<1>8. slave' = [slave EXCEPT ![id] = r]
  BY <1>1, <1>6, <1>7
<1>9. MaxFd \in Nat
  BY HarborAssumption
<1>10. /\ r \in SlaveRecord /\ r.fd = c /\ c \in 0 .. MaxFd /\ c # 0 /\ r.status = "handshake" /\ r.queue = slave[id].queue
       /\ r.read = slave[id].read /\ r.length = slave[id].length /\ r.size = slave[id].size
  <2>1. slave[id] \in SlaveRecord /\ c \in 0 .. MaxFd /\ c # 0
    BY <1>1, <1>9, SlaveIs
  <2> QED BY <1>7, <2>1 DEF SlaveRecord, Status
<1>11. Counted(r) /\ Kept(id, r)
  <2>1. Counted(slave[id]) /\ Kept(id, slave[id])
    BY <1>1, SlaveIs
  <2>2. slave[id].status \in {"wait", "down"}
    BY <1>1, <2>1 DEF Kept
  <2> QED BY <1>1, <1>10, <2>1, <2>2, Ids DEF Counted, Kept
<1>12. /\ slave' \in [Id -> SlaveRecord]
       /\ slave'[id] = r /\ \A i \in Id \ {id} : slave'[i] = slave[i]
       /\ \A i \in Id : Counted(slave[i])' /\ Kept(i, slave'[i])
  BY <1>1, <1>8, <1>10, <1>11, OneSlave
<1>13. sent' \in Seq(SentRecord)
  <2>1. handshake(id, c) \in SentRecord /\ sent \in Seq(SentRecord)
    BY <1>1, <1>10, HandshakeTyped DEF Base, Types
  <2> QED BY <1>1, <1>6, <2>1, AppendProperties
<1>14. Types'
  <2>1. conns' \in 0 .. MaxFd
    BY <1>6, <1>10
  <2> QED BY <1>1, <1>5, <1>12, <1>13, <2>1 DEF Base, Types
<1>15. KeptNames'
  BY <1>1, BaseIs DEF KeptNames
<1>16. Base'
  BY <1>1, <1>12, <1>14, <1>15, BaseNext
<1> QED BY <1>2, <1>3, <1>6, <1>10, <1>12, <1>16

LEMMA AcceptBase ==
  ASSUME Base, NEW id \in Remote, Accept(id)
  PROVE  /\ Base'
         /\ slave'[id].fd = conns' /\ slave'[id].status = "header" /\ slave'[id].read = slave[id].read
         /\ \A i \in Id \ {id} : slave'[i] = slave[i]
<1>1. /\ slave[id].fd = 0 /\ sent' = Append(sent, handshake(id, conns')) \o dispatch_queue(id, conns')
      /\ slave' = [slave EXCEPT ![id].fd = conns', ![id].status = "header", ![id].queue = None]
      /\ UNCHANGED <<names, reading, running, answered, dropped, asked, downs, torn, next, frames>>
      /\ reading = None /\ id \in Id /\ NewSocket(<<>>) /\ <<>> \in Seq(Bytes)
  BY Ids DEF Accept, Idle
<1>2. conns' = conns + 1 /\ conns' \in 1 .. MaxFd /\ sock' \in [Fd -> SockRecord]
  BY <1>1, NewSocketTyped
<1>3. PICK c \in 1 .. MaxFd : c = conns'
  BY <1>2
<1>4. PICK r : r = [slave[id] EXCEPT !.fd = c, !.status = "header", !.queue = None]
  OBVIOUS
<1>5. slave' = [slave EXCEPT ![id] = r]
  BY <1>1, <1>3, <1>4
<1>6. c \in 0 .. MaxFd /\ c # 0
  BY HarborAssumption
<1>7. /\ r \in SlaveRecord /\ r.fd = c /\ r.status = "header" /\ r.queue = None
      /\ r.read = slave[id].read /\ r.length = slave[id].length /\ r.size = slave[id].size
  <2>1. slave[id] \in SlaveRecord
    BY <1>1, SlaveIs
  <2> QED BY <1>4, <1>6, <2>1 DEF SlaveRecord, Status
<1>8. Counted(r) /\ Kept(id, r)
  <2>1. Counted(slave[id]) /\ Kept(id, slave[id])
    BY <1>1, SlaveIs
  <2>2. slave[id].status \in {"wait", "down"}
    BY <1>1, <2>1 DEF Kept
  <2> QED BY <1>6, <1>7, <2>1, <2>2 DEF Counted, Kept
<1>9. /\ slave' \in [Id -> SlaveRecord]
      /\ slave'[id] = r /\ \A i \in Id \ {id} : slave'[i] = slave[i]
      /\ \A i \in Id : Counted(slave[i])' /\ Kept(i, slave'[i])
  BY <1>1, <1>5, <1>7, <1>8, OneSlave
<1>10. sent' \in Seq(SentRecord)
  <2>1. handshake(id, c) \in SentRecord /\ sent \in Seq(SentRecord)
    BY <1>1, <1>6, HandshakeTyped DEF Base, Types
  <2>2. dispatch_queue(id, c) \in Seq(SentRecord)
    BY <1>1, <1>6, SlaveIs, ContentsTyped, LeavingAllTyped DEF dispatch_queue
  <2>3. Append(sent, handshake(id, c)) \in Seq(SentRecord)
    BY <2>1, AppendProperties
  <2>4. sent' = Append(sent, handshake(id, c)) \o dispatch_queue(id, c)
    BY <1>1, <1>3
  <2> QED BY <2>2, <2>3, <2>4, ConcatProperties
<1>11. Types'
  <2>1. conns' \in 0 .. MaxFd
    BY <1>3, <1>6
  <2> QED BY <1>1, <1>2, <1>9, <1>10, <2>1 DEF Base, Types
<1>12. KeptNames'
  BY <1>1, BaseIs DEF KeptNames
<1>13. Base'
  BY <1>1, <1>9, <1>11, <1>12, BaseNext
<1> QED BY <1>3, <1>7, <1>9, <1>13

LEMMA SocketCloseTyped ==
  ASSUME Base, NEW fds, SocketClose(fds)
  PROVE  /\ sock' \in [Fd -> SockRecord]
         /\ \A fd \in Fd : /\ sock'[fd].wire = sock[fd].wire
                           /\ sock'[fd].link = IF fd \in fds /\ sock[fd].link = "open" THEN "ended" ELSE sock[fd].link
<1>1. sock \in [Fd -> SockRecord]
  BY DEF Base, Types
<1>2. \A r \in SockRecord : LET e == [r EXCEPT !.link = "ended"] IN e \in SockRecord /\ e.link = "ended" /\ e.wire = r.wire
  BY DEF SockRecord
<1>3. sock' = [fd \in Fd |-> IF fd \in fds /\ sock[fd].link = "open"
                             THEN [sock[fd] EXCEPT !.link = "ended"] ELSE sock[fd]]
  BY DEF SocketClose
<1> QED BY <1>1, <1>2, <1>3


(***************************************************************************)
(* The bytes in.                                                           *)
(***************************************************************************)
LEMMA SuffixTyped ==
  ASSUME NEW S, NEW b \in Seq(S), NEW k \in 0 .. Len(b)
  PROVE  /\ SubSeq(b, k + 1, Len(b)) \in Seq(S)
         /\ Len(SubSeq(b, k + 1, Len(b))) = Len(b) - k
         /\ \A j \in 1 .. Len(b) - k : SubSeq(b, k + 1, Len(b))[j] = b[k + j]
<1> DEFINE l == Len(b)
<1>1. l \in Nat /\ k \in 0 .. l /\ \A i \in 1 .. l : b[i] \in S
  OBVIOUS
<1> HIDE DEF l
<1>2. k + 1 \in Int /\ l \in Int /\ \A i \in (k + 1) .. l : b[i] \in S
  BY <1>1
<1> DEFINE u == SubSeq(b, k + 1, l)
<1>3. /\ u \in Seq(S) /\ Len(u) = IF k + 1 <= l THEN l - (k + 1) + 1 ELSE 0
      /\ \A i \in 1 .. l - (k + 1) + 1 : u[i] = b[k + 1 + i - 1]
  BY <1>2, SubSeqProperties
<1> HIDE DEF u
<1>4. Len(u) = l - k
  BY <1>1, <1>3
<1>5. ASSUME NEW j \in 1 .. l - k PROVE u[j] = b[k + j]
  <2>1. j \in 1 .. l - (k + 1) + 1 /\ k + 1 + j - 1 = k + j
    BY <1>1
  <2> QED BY <1>3, <2>1
<1> QED BY <1>3, <1>4, <1>5 DEF u, l

LEMMA PrefixTyped ==
  ASSUME NEW S, NEW b \in Seq(S), NEW k \in 1 .. Len(b)
  PROVE  /\ SubSeq(b, 1, k) \in Seq(S)
         /\ Len(SubSeq(b, 1, k)) = k
         /\ \A j \in 1 .. k : SubSeq(b, 1, k)[j] = b[j]
<1>1. k \in Nat \ {0} /\ 1 \in Int /\ \A i \in 1 .. k : b[i] \in S
  OBVIOUS
<1> DEFINE u == SubSeq(b, 1, k)
<1>3. /\ u \in Seq(S) /\ Len(u) = IF 1 <= k THEN k - 1 + 1 ELSE 0
      /\ \A i \in 1 .. k - 1 + 1 : u[i] = b[1 + i - 1]
  BY <1>1, SubSeqProperties
<1> HIDE DEF u
<1>4. Len(u) = k /\ \A j \in 1 .. k : j \in 1 .. k - 1 + 1 /\ 1 + j - 1 = j
  BY <1>1, <1>3
<1> QED BY <1>3, <1>4 DEF u

LEMMA HarborIdIs ==
  ASSUME Base, Owners, NEW fd \in Fd
  PROVE  /\ harbor_id(fd) # 0 => harbor_id(fd) \in Remote /\ slave[harbor_id(fd)].fd = fd
         /\ \A i \in Remote : slave[i].fd = fd => harbor_id(fd) = i
<1> DEFINE ids == {i \in Remote : slave[i].fd = fd}
<1>1. fd # 0 /\ Remote \subseteq Nat \ {0}
  BY HarborAssumption DEF Fd
<1>2. \A i, j \in ids : i = j
  BY <1>1 DEF Owners
<1>3. harbor_id(fd) = IF ids = {} THEN 0 ELSE CHOOSE i \in ids : \A j \in ids : i <= j
  BY DEF harbor_id
<1>4. ASSUME NEW i \in ids PROVE harbor_id(fd) = i
  <2>1. \A j \in ids : i <= j
    BY <1>1, <1>2
  <2> HIDE DEF ids
  <2> QED BY <1>2, <1>3, <2>1
<1>5. ids = {} => harbor_id(fd) = 0
  BY <1>3
<1> QED BY <1>4, <1>5

LEMMA DataBase ==
  ASSUME Base, Owners, NEW fd \in Fd, Data(fd)
  PROVE  /\ Base' /\ SameSlaves /\ slave' = slave
         /\ \E k \in 1 .. Len(sock[fd].wire) :
              /\ sock'[fd].wire = SubSeq(sock[fd].wire, k + 1, Len(sock[fd].wire))
              /\ sock'[fd].link = sock[fd].link
              /\ reading' = IF harbor_id(fd) = 0 THEN None
                            ELSE [id |-> harbor_id(fd), buf |-> SubSeq(sock[fd].wire, 1, k)]
         /\ \A f \in Fd \ {fd} : sock'[f] = sock[f]
<1>1. /\ UNCHANGED <<slave, names, running, sent, answered, dropped, asked, downs, torn, next, conns, frames>>
      /\ reading = None /\ running
  BY DEF Data, Idle, history
<1>2. PICK k \in 1 .. Len(sock[fd].wire) :
        /\ sock' = [sock EXCEPT ![fd].wire = SubSeq(@, k + 1, Len(@))]
        /\ reading' = IF harbor_id(fd) = 0 THEN None
                      ELSE [id |-> harbor_id(fd), buf |-> SubSeq(sock[fd].wire, 1, k)]
  BY DEF Data
<1> DEFINE w == sock[fd].wire
<1>3. sock \in [Fd -> SockRecord] /\ sock[fd] \in SockRecord /\ w \in Seq(Bytes)
  BY DEF Base, Types, SockRecord
<1>4. PICK u \in Seq(Bytes) : u = SubSeq(w, k + 1, Len(w))
  <2>1. k \in 0 .. Len(w)
    BY <1>3
  <2> QED BY <1>3, <2>1, SuffixTyped
<1>5. PICK p \in Seq(Bytes) : p = SubSeq(w, 1, k) /\ p # <<>>
  <2>1. SubSeq(w, 1, k) \in Seq(Bytes) /\ Len(SubSeq(w, 1, k)) = k
    BY <1>3, PrefixTyped
  <2> DEFINE v == SubSeq(w, 1, k)
  <2>2. v \in Seq(Bytes) /\ Len(v) # 0
    BY <1>3, <2>1
  <2> HIDE DEF v
  <2>3. v # <<>>
    BY <2>2
  <2> QED BY <2>2, <2>3 DEF v
<1>6. PICK r : r = [sock[fd] EXCEPT !.wire = u]
  OBVIOUS
<1>7. r \in SockRecord /\ r.wire = u /\ r.link = sock[fd].link
  BY <1>3, <1>6 DEF SockRecord
<1>8. sock' = [sock EXCEPT ![fd] = r]
  BY <1>2, <1>4, <1>6
<1>9. sock' \in [Fd -> SockRecord] /\ sock'[fd] = r /\ \A f \in Fd \ {fd} : sock'[f] = sock[f]
  BY <1>3, <1>7, <1>8
<1>10. PICK h : h = harbor_id(fd)
  OBVIOUS
<1>11. h # 0 => h \in Remote /\ slave[h].fd = fd /\ fd # 0
  BY <1>10, HarborIdIs DEF Fd
<1>12. reading' = IF h = 0 THEN None ELSE [id |-> h, buf |-> p]
  BY <1>2, <1>5, <1>10
<1>13. /\ reading' \in {None} \cup [id : Remote, buf : Seq(Bytes)]
       /\ reading' # None => reading'.buf # <<>> /\ slave'[reading'.id].fd # 0
  <2>1. CASE h = 0
    BY <1>12, <2>1
  <2>2. CASE h # 0
    BY <1>1, <1>5, <1>11, <1>12, <2>2
  <2> QED BY <2>1, <2>2
<1>14. /\ slave' \in [Id -> SlaveRecord] /\ SameSlaves
       /\ \A i \in Id : Counted(slave[i])' /\ Kept(i, slave'[i])
  BY <1>1, SlavesUnchanged
<1>15. Types'
  BY <1>1, <1>9, <1>13, <1>14 DEF Base, Types
<1>16. KeptNames'
  BY <1>1, BaseIs DEF KeptNames
<1>17. Base'
  BY <1>1, <1>13, <1>14, <1>15, <1>16, BaseNext
<1> QED BY <1>1, <1>2, <1>4, <1>7, <1>9, <1>14, <1>17

\* The loop goes on with what is left after k bytes.
LEMMA GoOnTyped ==
  ASSUME Base, reading # None, NEW k \in 1 .. Len(reading.buf), GoOn(Skip(k))
  PROVE  /\ reading' \in {None} \cup [id : Remote, buf : Seq(Bytes)]
         /\ Skip(k) \in Seq(Bytes)
         /\ Skip(k) = <<>> => reading' = None
         /\ Skip(k) # <<>> => reading' # None /\ reading'.id = reading.id /\ reading'.buf = Skip(k)
         /\ reading' # None => reading'.id = reading.id /\ reading'.buf = Skip(k) /\ Skip(k) # <<>>
<1>1. reading \in [id : Remote, buf : Seq(Bytes)] /\ reading.id \in Remote /\ reading.buf \in Seq(Bytes)
  BY DEF Base, Types
<1>2. PICK u \in Seq(Bytes) : u = Skip(k)
  <2>1. k \in 0 .. Len(reading.buf)
    BY <1>1
  <2> QED BY <1>1, <2>1, SuffixTyped DEF Skip
<1>3. PICK r : r = [reading EXCEPT !.buf = u]
  OBVIOUS
<1>4. r \in [id : Remote, buf : Seq(Bytes)] /\ r.id = reading.id /\ r.buf = u
  BY <1>1, <1>3
<1>5. r # None
  <2>1. Bytes \subseteq Byte
    <3>1. \A x \in {0} \cup Lengths : x \in Nat
      BY HarborAssumption
    <3>2. [at : Nat, len : {0} \cup Lengths, bad : BOOLEAN] \subseteq Byte
      BY <3>1 DEF Byte
    <3> QED BY <3>2 DEF Bytes
  <2>2. u \in Seq(Byte)
    BY <2>1, SeqMonotonic
  <2>3. r \in [id : Remote, buf : Seq(Byte)]
    BY <1>4, <2>2
  <2> QED BY <2>3, NullAssumption
<1>6. reading' = IF u = <<>> THEN None ELSE r
  BY <1>2, <1>3 DEF GoOn
<1> QED BY <1>1, <1>2, <1>4, <1>5, <1>6


\* The harbor whose bytes are being read.
LEMMA ReadingIs ==
  ASSUME Base, reading # None
  PROVE  /\ reading.id \in Remote /\ reading.id \in Id /\ reading.buf \in Seq(Bytes)
         /\ Len(reading.buf) \in Nat \ {0} /\ running
         /\ slave[reading.id].fd \in Fd
         /\ slave[reading.id].status \in {"handshake", "header", "content"}
<1> DEFINE i == reading.id
<1>1. /\ reading \in [id : Remote, buf : Seq(Bytes)] /\ i \in Remote /\ reading.buf \in Seq(Bytes)
      /\ running /\ reading.buf # <<>> /\ slave[i].fd # 0
  BY DEF Base, Types, Reads
<1>2. i \in Id /\ MaxFd \in Nat
  BY <1>1, Ids, HarborAssumption
<1> HIDE DEF i
<1>3. slave[i].fd \in 0 .. MaxFd /\ slave[i].status \in Status /\ Kept(i, slave[i])
  BY <1>2, SlaveIs
<1>4. slave[i].fd \in Fd
  BY <1>1, <1>2, <1>3 DEF Fd
<1>5. slave[i].status \in {"handshake", "header", "content"}
  BY <1>1, <1>3 DEF Kept, Status
<1>6. Len(reading.buf) \in Nat \ {0}
  BY <1>1
<1> QED BY <1>1, <1>2, <1>4, <1>5, <1>6 DEF i

LEMMA CloseBase ==
  ASSUME Base, reading # None, NEW id \in Remote, id = reading.id,
         slave[id].status \in {"handshake", "header"},
         NEW z \in [1 .. HeaderSize -> Bytes \cup {None}],
         \A k \in 1 .. HeaderSize : k <= slave[id].read => z[k] \in Bytes,
         CloseAndReturn(id, z), torn' \subseteq Remote,
         UNCHANGED <<names, running, sent, answered, asked, downs, next, conns, frames>>
  PROVE  /\ Base'
         /\ slave'[id].fd = 0 /\ slave'[id].status = "down" /\ slave'[id].read = slave[id].read
         /\ \A i \in Id \ {id} : slave'[i] = slave[i]
         /\ reading' = None /\ SocketClose({slave[id].fd})
<1>0. /\ slave[id] \in SlaveRecord /\ slave[id].queue \in {None} \cup Queue /\ id \in Id /\ Counted(slave[id])
      /\ slave[id].read \in Nat /\ running
  BY Ids, SlaveIs, ReadingIs
<1>1. PICK r : r = close_harbor([slave[id] EXCEPT !.size = z])
  OBVIOUS
<1>2. /\ slave' = [slave EXCEPT ![id] = r] /\ SocketClose({slave[id].fd}) /\ reading' = None
      /\ dropped' = dropped \cup Numbers(slave[id].queue)
  BY <1>1 DEF CloseAndReturn
<1>3. /\ r \in SlaveRecord /\ r.fd = 0 /\ r.status = "down" /\ r.queue = None /\ r.read = slave[id].read
      /\ r.length = slave[id].length /\ r.size = z
  <2>1. PICK s : s = [slave[id] EXCEPT !.size = z]
    OBVIOUS
  <2>2. s \in SlaveRecord /\ s.read = slave[id].read /\ s.length = slave[id].length /\ s.size = z
    BY <1>0, <2>1 DEF SlaveRecord
  <2>3. r = [s EXCEPT !.status = "down", !.fd = 0, !.queue = None]
    BY <1>1, <2>1 DEF close_harbor
  <2> QED BY <2>2, <2>3, Ids DEF SlaveRecord, Status
<1>4. Counted(r) /\ Kept(id, r)
  <2>1. Kept(id, r)
    BY <1>3 DEF Kept
  <2>2. slave[id].read < HeaderSize
    BY <1>0 DEF Counted
  <2> QED BY <1>3, <2>1, <2>2 DEF Counted
<1>5. /\ slave' \in [Id -> SlaveRecord]
      /\ slave'[id] = r /\ \A i \in Id \ {id} : slave'[i] = slave[i]
      /\ \A i \in Id : Counted(slave[i])' /\ Kept(i, slave'[i])
  BY <1>0, <1>2, <1>3, <1>4, OneSlave
<1>6. Types'
  <2>1. dropped' \subseteq Nat /\ sock' \in [Fd -> SockRecord]
    BY <1>0, <1>2, ContentsTyped, SocketCloseTyped DEF Base, Types
  <2> QED BY <1>2, <1>5, <2>1 DEF Base, Types
<1>7. KeptNames'
  BY BaseIs DEF KeptNames
<1>8. Base'
  BY <1>2, <1>5, <1>6, <1>7, BaseNext
<1> QED BY <1>2, <1>3, <1>5, <1>8

LEMMA ReadHandshakeBase ==
  ASSUME Base, ReadHandshake
  PROVE  /\ Base' /\ reading # None /\ slave[reading.id].status = "handshake"
         /\ UNCHANGED <<running, torn, conns>>
         /\ \A i \in Id \ {reading.id} : slave'[i] = slave[i]
         /\ \/ /\ slave'[reading.id].fd = 0 /\ slave'[reading.id].status = "down"
               /\ slave'[reading.id].read = slave[reading.id].read
               /\ reading' = None /\ SocketClose({slave[reading.id].fd})
            \/ /\ slave'[reading.id].fd = slave[reading.id].fd /\ slave'[reading.id].status = "header"
               /\ slave'[reading.id].read = slave[reading.id].read
               /\ GoOn(Skip(1)) /\ sock' = sock
<1>1. PICK id : id = reading.id
  OBVIOUS
<1>0. /\ id \in Remote /\ id \in Id /\ reading.buf \in Seq(Bytes) /\ 1 \in 1 .. Len(reading.buf)
      /\ running /\ slave[id].fd \in Fd /\ reading # None
  BY <1>1, ReadingIs DEF ReadHandshake
<1>2. /\ slave[id] \in SlaveRecord /\ slave[id].queue \in {None} \cup Queue /\ Counted(slave[id])
      /\ slave[id].size \in [1 .. HeaderSize -> Bytes \cup {None}] /\ slave[id].read \in Nat
      /\ slave[id].fd \in 0 .. MaxFd /\ slave[id].fd # 0
  BY <1>0, SlaveIs DEF Fd
<1>3. /\ slave[id].status = "handshake"
      /\ UNCHANGED <<names, running, answered, asked, downs, torn, next, conns, frames>>
  BY <1>1 DEF ReadHandshake
<1>4. CASE CloseAndReturn(id, slave[id].size) /\ UNCHANGED sent
  <2>1. \A k \in 1 .. HeaderSize : k <= slave[id].read => slave[id].size[k] \in Bytes
    BY <1>2 DEF Counted
  <2>2. torn' \subseteq Remote
    BY <1>3 DEF Base, Types
  <2>3. PICK z \in [1 .. HeaderSize -> Bytes \cup {None}] : z = slave[id].size
    BY <1>2
  <2>4. /\ Base'
        /\ slave'[id].fd = 0 /\ slave'[id].status = "down" /\ slave'[id].read = slave[id].read
        /\ \A i \in Id \ {id} : slave'[i] = slave[i]
        /\ reading' = None /\ SocketClose({slave[id].fd})
    BY <1>0, <1>1, <1>3, <1>4, <2>1, <2>2, <2>3, CloseBase
  <2> QED BY <1>0, <1>1, <1>3, <2>4
<1>5. CASE /\ slave' = [slave EXCEPT ![id].status = "header", ![id].queue = None]
           /\ sent' = sent \o dispatch_queue(id, slave[id].fd)
           /\ GoOn(Skip(1))
           /\ UNCHANGED <<dropped, sock>>
  <2>1. PICK r : r = [slave[id] EXCEPT !.status = "header", !.queue = None]
    OBVIOUS
  <2>2. /\ r \in SlaveRecord /\ r.fd = slave[id].fd /\ r.status = "header" /\ r.queue = None
        /\ r.read = slave[id].read /\ r.length = slave[id].length /\ r.size = slave[id].size
    BY <1>2, <2>1 DEF SlaveRecord, Status
  <2>3. Counted(r) /\ Kept(id, r) /\ slave' = [slave EXCEPT ![id] = r]
    BY <1>2, <1>3, <1>5, <2>1, <2>2 DEF Counted, Kept
  <2>4. /\ slave' \in [Id -> SlaveRecord]
        /\ slave'[id] = r /\ \A i \in Id \ {id} : slave'[i] = slave[i]
        /\ \A i \in Id : Counted(slave[i])' /\ Kept(i, slave'[i])
    BY <1>0, <1>3, <2>2, <2>3, OneSlave
  <2>5. sent' \in Seq(SentRecord)
    <3>1. dispatch_queue(id, slave[id].fd) \in Seq(SentRecord)
      BY <1>0, <1>2, ContentsTyped, LeavingAllTyped DEF dispatch_queue
    <3>2. sent \in Seq(SentRecord)
      BY DEF Base, Types
    <3> QED BY <1>5, <3>1, <3>2, ConcatProperties
  <2>6. /\ reading' \in {None} \cup [id : Remote, buf : Seq(Bytes)]
        /\ reading' # None => reading'.id = reading.id /\ reading'.buf = Skip(1) /\ Skip(1) # <<>>
    BY <1>0, <1>5, GoOnTyped
  <2>7. Types'
    BY <1>3, <1>5, <2>4, <2>5, <2>6 DEF Base, Types
  <2>8. KeptNames'
    BY <1>3, BaseIs DEF KeptNames
  <2>9. reading' # None => running' /\ reading'.buf # <<>> /\ slave'[reading'.id].fd # 0
    BY <1>0, <1>1, <1>2, <1>3, <2>2, <2>4, <2>6
  <2>10. Base'
    BY <2>4, <2>7, <2>8, <2>9, BaseNext
  <2> QED BY <1>0, <1>1, <1>3, <1>5, <2>2, <2>4, <2>10
<1> QED BY <1>1, <1>4, <1>5 DEF ReadHandshake



\* What the bytes of the buffer make of s->size.
LEMMA FillIs ==
  ASSUME NEW s \in SlaveRecord, NEW buf \in Seq(Bytes),
         \A k \in 1 .. HeaderSize : k <= s.read => s.size[k] \in Bytes
  PROVE  /\ Fill(s, buf) \in [1 .. HeaderSize -> Bytes \cup {None}]
         /\ \A k \in 1 .. HeaderSize : k <= s.read => Fill(s, buf)[k] = s.size[k]
         /\ \A k \in 1 .. HeaderSize : k > s.read /\ k <= s.read + Len(buf) =>
              k - s.read \in 1 .. Len(buf) /\ Fill(s, buf)[k] = buf[k - s.read]
         /\ \A k \in 1 .. HeaderSize : k <= s.read + Len(buf) => Fill(s, buf)[k] \in Bytes
<1> DEFINE l == Len(buf)
           a == s.read
           z == s.size
           f == [k \in 1 .. HeaderSize |-> IF k > a /\ k <= a + l THEN buf[k - a] ELSE z[k]]
<1>1. /\ l \in Nat /\ a \in Nat /\ z \in [1 .. HeaderSize -> Bytes \cup {None}] /\ HeaderSize \in Nat
      /\ \A k \in 1 .. l : buf[k] \in Bytes
      /\ \A k \in 1 .. HeaderSize : k <= a => z[k] \in Bytes
  BY HarborAssumption DEF SlaveRecord
<1>2. Fill(s, buf) = f
  BY DEF Fill
<1> HIDE DEF l, a, z
<1>3. \A k \in 1 .. HeaderSize : k > a /\ k <= a + l => k - a \in 1 .. l
  BY <1>1
<1>4. \A k \in 1 .. HeaderSize : f[k] = IF k > a /\ k <= a + l THEN buf[k - a] ELSE z[k]
  OBVIOUS
<1>5. \A k \in 1 .. HeaderSize : f[k] \in Bytes \cup {None}
  BY <1>1, <1>3, <1>4
<1>6. f \in [1 .. HeaderSize -> Bytes \cup {None}]
  BY <1>5
<1> HIDE DEF f
<1>7. \A k \in 1 .. HeaderSize : k <= a => f[k] = z[k]
  BY <1>1, <1>4
<1>8. \A k \in 1 .. HeaderSize : k > a /\ k <= a + l => k - a \in 1 .. l /\ f[k] = buf[k - a]
  BY <1>3, <1>4
<1>9. \A k \in 1 .. HeaderSize : k <= a + l => f[k] \in Bytes
  <2> SUFFICES ASSUME NEW k \in 1 .. HeaderSize, k <= a + l PROVE f[k] \in Bytes
    OBVIOUS
  <2>1. k <= a \/ k > a
    BY <1>1
  <2> QED BY <1>1, <1>7, <1>8, <2>1
<1> QED BY <1>2, <1>6, <1>7, <1>8, <1>9 DEF l, a, z

\* A step of push_socket_data that gives the slave the record r and consumes
\* n bytes, the whole buffer or less.
Consumes(n) == \/ n = Len(reading.buf) /\ reading' = None
               \/ GoOn(Skip(n))

LEMMA ConsumeBase ==
  ASSUME Base, reading # None, NEW id \in Remote, id = reading.id, NEW r \in SlaveRecord,
         r.fd = slave[id].fd, r.queue = None \/ r.queue = slave[id].queue,
         r.status \in {"header", "content"}, slave[id].status # "handshake", Counted(r),
         slave' = [slave EXCEPT ![id] = r], NEW n \in 1 .. Len(reading.buf), Consumes(n),
         UNCHANGED <<names, running, sent, answered, dropped, asked, downs, torn, next, sock, conns, frames>>
  PROVE  /\ Base' /\ slave'[id] = r /\ \A i \in Id \ {id} : slave'[i] = slave[i]
<1>0. /\ id \in Remote /\ id \in Id /\ running /\ slave[id].fd \in Fd /\ slave[id].fd # 0
      /\ Kept(id, slave[id]) /\ slave[id].status \in {"handshake", "header", "content"}
  BY ReadingIs, SlaveIs DEF Fd
<1>1. Kept(id, r)
  BY <1>0 DEF Kept
<1>2. /\ slave' \in [Id -> SlaveRecord]
      /\ slave'[id] = r /\ \A i \in Id \ {id} : slave'[i] = slave[i]
      /\ \A i \in Id : Counted(slave[i])' /\ Kept(i, slave'[i])
  BY <1>0, <1>1, OneSlave
<1>3. /\ reading' \in {None} \cup [id : Remote, buf : Seq(Bytes)]
      /\ reading' # None => reading'.id = id /\ reading'.buf # <<>>
  <2>1. CASE reading' = None
    BY <2>1
  <2>2. CASE GoOn(Skip(n))
    BY <2>2, GoOnTyped
  <2> QED BY <2>1, <2>2 DEF Consumes
<1>4. Types'
  BY <1>2, <1>3 DEF Base, Types
<1>5. KeptNames'
  BY BaseIs DEF KeptNames
<1>6. reading' # None => running' /\ reading'.buf # <<>> /\ slave'[reading'.id].fd # 0
  BY <1>0, <1>2, <1>3
<1>7. Base'
  BY <1>2, <1>4, <1>5, <1>6, BaseNext
<1> QED BY <1>2, <1>7

LEMMA ReadHeaderBase ==
  ASSUME Base, ReadHeader
  PROVE  /\ Base' /\ reading # None /\ slave[reading.id].status = "header"
         /\ UNCHANGED <<running, conns>> /\ torn \subseteq torn'
         /\ \A i \in Id \ {reading.id} : slave'[i] = slave[i]
         /\ slave[reading.id].read < HeaderSize
         /\ \/ /\ slave'[reading.id].fd = 0 /\ slave'[reading.id].status = "down"
               /\ slave'[reading.id].read = slave[reading.id].read
               /\ reading' = None /\ SocketClose({slave[reading.id].fd})
               /\ slave[reading.id].read # 0 => reading.id \in torn'
            \/ /\ Len(reading.buf) < HeaderSize - slave[reading.id].read
               /\ slave'[reading.id].fd = slave[reading.id].fd /\ slave'[reading.id].status = "header"
               /\ slave'[reading.id].read = slave[reading.id].read + Len(reading.buf)
               /\ slave'[reading.id].size = Fill(slave[reading.id], reading.buf)
               /\ Consumes(Len(reading.buf)) /\ sock' = sock /\ torn' = torn
            \/ /\ Len(reading.buf) >= HeaderSize - slave[reading.id].read
               /\ slave'[reading.id].fd = slave[reading.id].fd /\ slave'[reading.id].status = "content"
               /\ slave'[reading.id].read = 0
               /\ \E v \in Decode(Fill(slave[reading.id], reading.buf)) :
                     ~v.bad /\ slave'[reading.id].length = v.len
               /\ Consumes(HeaderSize - slave[reading.id].read) /\ sock' = sock /\ torn' = torn
<1>1. PICK id : id = reading.id
  OBVIOUS
<1>0. /\ id \in Remote /\ id \in Id /\ reading.buf \in Seq(Bytes) /\ Len(reading.buf) \in Nat \ {0}
      /\ running /\ slave[id].fd \in Fd /\ reading # None
  BY <1>1, ReadingIs DEF ReadHeader
<1>2. PICK s : s = slave[id]
  OBVIOUS
<1>3. /\ s \in SlaveRecord /\ s.queue \in {None} \cup Queue /\ Counted(s)
      /\ s.size \in [1 .. HeaderSize -> Bytes \cup {None}] /\ s.read \in Nat
      /\ s.fd \in 0 .. MaxFd /\ s.fd # 0 /\ HeaderSize \in Nat
  BY <1>0, <1>2, SlaveIs, HarborAssumption DEF Fd
<1>4. /\ s.status = "header"
      /\ UNCHANGED <<names, running, sent, answered, asked, downs, next, conns, frames>>
  BY <1>1, <1>2 DEF ReadHeader
<1>5. PICK z : z = Fill(s, reading.buf)
  OBVIOUS
<1>6. s.read < HeaderSize /\ \A k \in 1 .. HeaderSize : k <= s.read => s.size[k] \in Bytes
  BY <1>0, <1>3, <1>4 DEF Counted
<1>7. /\ z \in [1 .. HeaderSize -> Bytes \cup {None}]
      /\ \A k \in 1 .. HeaderSize : k <= s.read => z[k] \in Bytes
      /\ \A k \in 1 .. HeaderSize : k <= s.read + Len(reading.buf) => z[k] \in Bytes
  BY <1>0, <1>3, <1>5, <1>6, FillIs
<1>8. PICK n : n = HeaderSize - s.read
  OBVIOUS
<1>9. n \in Nat \ {0} /\ s.read + n = HeaderSize
  BY <1>3, <1>6, <1>8
<1>10. CASE /\ Len(reading.buf) < n
            /\ slave' = [slave EXCEPT ![id].size = z, ![id].read = @ + Len(reading.buf)]
            /\ reading' = None
            /\ UNCHANGED <<dropped, torn, sock>>
  <2>0. PICK m \in Nat : m = s.read + Len(reading.buf)
    BY <1>0, <1>3
  <2>1. PICK r : r = [s EXCEPT !.size = z, !.read = m]
    OBVIOUS
  <2>2. /\ r \in SlaveRecord /\ r.fd = s.fd /\ r.status = "header" /\ r.queue = s.queue
        /\ r.read = s.read + Len(reading.buf) /\ r.size = z
    BY <1>3, <1>4, <1>7, <2>0, <2>1 DEF SlaveRecord
  <2>3. slave' = [slave EXCEPT ![id] = r]
    BY <1>2, <1>10, <2>0, <2>1
  <2>4. Counted(r)
    BY <1>0, <1>3, <1>7, <1>9, <1>10, <2>2 DEF Counted
  <2>5. Consumes(Len(reading.buf)) /\ Len(reading.buf) \in 1 .. Len(reading.buf)
    BY <1>0, <1>10 DEF Consumes
  <2>7. /\ r.fd = slave[id].fd /\ r.queue = slave[id].queue /\ r.status \in {"header", "content"}
        /\ slave[id].status # "handshake"
    BY <1>2, <1>4, <2>2
  <2>6. /\ Base' /\ slave'[id] = r /\ \A i \in Id \ {id} : slave'[i] = slave[i]
    BY <1>0, <1>1, <1>4, <1>10, <2>2, <2>3, <2>4, <2>5, <2>7, ConsumeBase
  <2> QED BY <1>0, <1>1, <1>2, <1>4, <1>5, <1>6, <1>8, <1>10, <2>2, <2>5, <2>6
<1>11. ASSUME NEW v \in Decode(z), v.bad, CloseAndReturn(id, z),
              torn' = IF s.read = 0 THEN torn ELSE torn \cup {id}
       PROVE  /\ Base' /\ \A i \in Id \ {id} : slave'[i] = slave[i]
              /\ slave'[id].fd = 0 /\ slave'[id].status = "down"
              /\ slave'[id].read = s.read
              /\ reading' = None /\ SocketClose({s.fd})
              /\ (s.read # 0 => id \in torn') /\ torn \subseteq torn'
  <2>1. torn' \subseteq Remote /\ (s.read # 0 => id \in torn') /\ torn \subseteq torn'
    BY <1>0, <1>11 DEF Base, Types
  <2> QED BY <1>0, <1>1, <1>2, <1>4, <1>7, <1>11, <2>1, CloseBase
<1>12. ASSUME NEW v \in Decode(z), ~v.bad, Len(reading.buf) >= n,
              slave' = [slave EXCEPT ![id].size = z, ![id].read = 0, ![id].length = v.len,
                                     ![id].status = "content"],
              GoOn(Skip(n)), UNCHANGED <<dropped, torn, sock>>
       PROVE  /\ Base' /\ \A i \in Id \ {id} : slave'[i] = slave[i]
              /\ slave'[id].fd = s.fd /\ slave'[id].status = "content" /\ slave'[id].read = 0
              /\ slave'[id].length = v.len /\ Consumes(n)
  <2>1. \A k \in 1 .. HeaderSize : z[k] \in Bytes
    BY <1>0, <1>3, <1>7, <1>9, <1>12
  <2>2. v.len \in Lengths
    <3>1. CASE v \in [bad : BOOLEAN, len : Lengths]
      BY <3>1
    <3>2. CASE v = [bad |-> z[1].bad, len |-> z[1].len] /\ z[1].at = 1
      <4>1. z[1] \in Bytes
        BY <1>3, <1>6, <2>1
      <4> QED BY <1>12, <3>2, <4>1 DEF Bytes
    <3>3. 1 \in 1 .. HeaderSize
      BY <1>3, <1>6
    <3> QED BY <3>1, <3>2, <3>3 DEF Decode
  <2>3. v.len \in Nat \ {0}
    BY <2>2, HarborAssumption
  <2>4. PICK l \in Lengths : l = v.len
    BY <2>2
  <2>5. PICK r : r = [s EXCEPT !.size = z, !.read = 0, !.length = l, !.status = "content"]
    OBVIOUS
  <2>6. /\ r \in SlaveRecord /\ r.fd = s.fd /\ r.status = "content" /\ r.queue = s.queue
        /\ r.read = 0 /\ r.size = z /\ r.length = l
    BY <1>3, <1>7, <2>5 DEF SlaveRecord, Status
  <2>7. slave' = [slave EXCEPT ![id] = r]
    BY <1>2, <1>12, <2>4, <2>5
  <2>8. Counted(r)
    BY <1>3, <2>1, <2>3, <2>4, <2>6 DEF Counted
  <2>9. Consumes(n) /\ n \in 1 .. Len(reading.buf)
    BY <1>0, <1>9, <1>12 DEF Consumes
  <2>11. /\ r.fd = slave[id].fd /\ r.queue = slave[id].queue /\ r.status \in {"header", "content"}
         /\ slave[id].status # "handshake"
    BY <1>2, <1>4, <2>6
  <2>10. /\ Base' /\ slave'[id] = r /\ \A i \in Id \ {id} : slave'[i] = slave[i]
    BY <1>0, <1>1, <1>4, <1>12, <2>6, <2>7, <2>8, <2>9, <2>11, ConsumeBase
  <2> QED BY <2>4, <2>6, <2>9, <2>10
<1>13. \/ /\ Len(reading.buf) < n
          /\ slave' = [slave EXCEPT ![id].size = z, ![id].read = @ + Len(reading.buf)]
          /\ reading' = None
          /\ UNCHANGED <<dropped, torn, sock>>
       \/ /\ Len(reading.buf) >= n
          /\ \E v \in Decode(z) :
             \/ v.bad /\ CloseAndReturn(id, z) /\ torn' = IF s.read = 0 THEN torn ELSE torn \cup {id}
             \/ /\ ~v.bad
                /\ slave' = [slave EXCEPT ![id].size = z, ![id].read = 0,
                                          ![id].length = v.len, ![id].status = "content"]
                /\ GoOn(Skip(n))
                /\ UNCHANGED <<dropped, torn, sock>>
  BY <1>1, <1>2, <1>5, <1>8 DEF ReadHeader
<1>14. CASE Len(reading.buf) >= n
  <2>1. PICK v \in Decode(z) :
             \/ v.bad /\ CloseAndReturn(id, z) /\ torn' = IF s.read = 0 THEN torn ELSE torn \cup {id}
             \/ /\ ~v.bad
                /\ slave' = [slave EXCEPT ![id].size = z, ![id].read = 0,
                                          ![id].length = v.len, ![id].status = "content"]
                /\ GoOn(Skip(n))
                /\ UNCHANGED <<dropped, torn, sock>>
    <3>1. ~(Len(reading.buf) < n)
      BY <1>0, <1>9, <1>14
    <3> QED BY <1>13, <3>1
  <2>2. CASE v.bad /\ CloseAndReturn(id, z) /\ torn' = IF s.read = 0 THEN torn ELSE torn \cup {id}
    BY <1>0, <1>1, <1>2, <1>4, <1>6, <1>11, <2>2
  <2>3. CASE /\ ~v.bad
             /\ slave' = [slave EXCEPT ![id].size = z, ![id].read = 0,
                                       ![id].length = v.len, ![id].status = "content"]
             /\ GoOn(Skip(n))
             /\ UNCHANGED <<dropped, torn, sock>>
    <3>1. /\ Base' /\ \A i \in Id \ {id} : slave'[i] = slave[i]
          /\ slave'[id].fd = s.fd /\ slave'[id].status = "content" /\ slave'[id].read = 0
          /\ slave'[id].length = v.len /\ Consumes(n)
      BY <1>12, <1>14, <2>3
    <3> QED BY <1>0, <1>1, <1>2, <1>4, <1>5, <1>6, <1>8, <1>14, <2>3, <3>1
  <2> QED BY <2>1, <2>2, <2>3
<1>15. Len(reading.buf) < n \/ Len(reading.buf) >= n
  BY <1>0, <1>9
<1> QED BY <1>10, <1>13, <1>14, <1>15

LEMMA ReadContentBase ==
  ASSUME Base, ReadContent
  PROVE  /\ Base' /\ reading # None /\ slave[reading.id].status = "content"
         /\ UNCHANGED <<running, conns, torn, sock>>
         /\ \A i \in Id \ {reading.id} : slave'[i] = slave[i]
         /\ slave'[reading.id].fd = slave[reading.id].fd
         /\ slave[reading.id].read < slave[reading.id].length
         /\ \/ /\ Len(reading.buf) < slave[reading.id].length - slave[reading.id].read
               /\ slave'[reading.id].status = "content"
               /\ slave'[reading.id].read = slave[reading.id].read + Len(reading.buf)
               /\ slave'[reading.id].length = slave[reading.id].length
               /\ Consumes(Len(reading.buf))
            \/ /\ Len(reading.buf) >= slave[reading.id].length - slave[reading.id].read
               /\ slave'[reading.id].status = "header" /\ slave'[reading.id].read = 0
               /\ Consumes(slave[reading.id].length - slave[reading.id].read)
<1>1. PICK id : id = reading.id
  OBVIOUS
<1>0. /\ id \in Remote /\ id \in Id /\ reading.buf \in Seq(Bytes) /\ Len(reading.buf) \in Nat \ {0}
      /\ running /\ slave[id].fd \in Fd /\ reading # None
  BY <1>1, ReadingIs DEF ReadContent
<1>2. PICK s : s = slave[id]
  OBVIOUS
<1>3. /\ s \in SlaveRecord /\ s.queue \in {None} \cup Queue /\ Counted(s)
      /\ s.read \in Nat /\ s.length \in Nat /\ HeaderSize \in Nat \ {0}
  <2>1. {0} \cup Lengths \subseteq Nat /\ HeaderSize \in Nat \ {0}
    BY HarborAssumption
  <2> QED BY <1>0, <1>2, <2>1, SlaveIs
<1>4. /\ s.status = "content"
      /\ UNCHANGED <<names, running, sent, answered, dropped, asked, downs, torn, next, sock, conns, frames>>
  BY <1>1, <1>2 DEF ReadContent, history, env
<1>5. s.read < s.length /\ \A k \in 1 .. HeaderSize : s.size[k] \in Bytes
  BY <1>3, <1>4 DEF Counted
<1>6. PICK n : n = s.length - s.read
  OBVIOUS
<1>7. n \in Nat \ {0} /\ s.read + n = s.length
  BY <1>3, <1>5, <1>6
<1>8. CASE /\ Len(reading.buf) < n
           /\ slave' = [slave EXCEPT ![id].read = @ + Len(reading.buf)]
           /\ reading' = None
  <2>1. PICK r : r = [s EXCEPT !.read = @ + Len(reading.buf)]
    OBVIOUS
  <2>2. /\ r \in SlaveRecord /\ r.fd = s.fd /\ r.status = "content" /\ r.queue = s.queue
        /\ r.read = s.read + Len(reading.buf) /\ r.size = s.size /\ r.length = s.length
    BY <1>0, <1>3, <1>4, <2>1 DEF SlaveRecord
  <2>3. slave' = [slave EXCEPT ![id] = r]
    BY <1>2, <1>8, <2>1
  <2>4. Counted(r)
    BY <1>0, <1>3, <1>5, <1>7, <1>8, <2>2 DEF Counted
  <2>5. Consumes(Len(reading.buf)) /\ Len(reading.buf) \in 1 .. Len(reading.buf)
    BY <1>0, <1>8 DEF Consumes
  <2>7. /\ r.fd = slave[id].fd /\ r.queue = slave[id].queue /\ r.status \in {"header", "content"}
        /\ slave[id].status # "handshake"
    BY <1>2, <1>4, <2>2
  <2>6. /\ Base' /\ slave'[id] = r /\ \A i \in Id \ {id} : slave'[i] = slave[i]
    BY <1>0, <1>1, <1>4, <2>2, <2>3, <2>4, <2>5, <2>7, ConsumeBase
  <2> QED BY <1>0, <1>1, <1>2, <1>4, <1>5, <1>6, <1>8, <2>2, <2>5, <2>6
<1>9. CASE /\ Len(reading.buf) >= n
           /\ slave' = [slave EXCEPT ![id].length = 0, ![id].read = 0, ![id].status = "header"]
           /\ GoOn(Skip(n))
  <2>1. PICK r : r = [s EXCEPT !.length = 0, !.read = 0, !.status = "header"]
    OBVIOUS
  <2>2. /\ r \in SlaveRecord /\ r.fd = s.fd /\ r.status = "header" /\ r.queue = s.queue
        /\ r.read = 0 /\ r.size = s.size /\ r.length = 0
    BY <1>3, <2>1 DEF SlaveRecord, Status
  <2>3. slave' = [slave EXCEPT ![id] = r]
    BY <1>2, <1>9, <2>1
  <2>4. Counted(r)
    BY <1>3, <1>5, <2>2 DEF Counted
  <2>5. Consumes(n) /\ n \in 1 .. Len(reading.buf)
    BY <1>0, <1>7, <1>9 DEF Consumes
  <2>7. /\ r.fd = slave[id].fd /\ r.queue = slave[id].queue /\ r.status \in {"header", "content"}
        /\ slave[id].status # "handshake"
    BY <1>2, <1>4, <2>2
  <2>6. /\ Base' /\ slave'[id] = r /\ \A i \in Id \ {id} : slave'[i] = slave[i]
    BY <1>0, <1>1, <1>4, <2>2, <2>3, <2>4, <2>5, <2>7, ConsumeBase
  <2> QED BY <1>0, <1>1, <1>2, <1>4, <1>5, <1>6, <1>9, <2>2, <2>5, <2>6
<1> QED BY <1>1, <1>2, <1>6, <1>8, <1>9 DEF ReadContent


\* Another record for the socket fd, and nothing else of the service.
LEMMA SocketStepBase ==
  ASSUME Base, NEW fd \in Fd, NEW r \in SockRecord, sock' = [sock EXCEPT ![fd] = r],
         downs' \subseteq Remote, frames' \in Nat,
         UNCHANGED <<slave, names, reading, running, sent, answered, dropped, asked, torn, next, conns>>
  PROVE  /\ Base' /\ sock'[fd] = r /\ \A f \in Fd \ {fd} : sock'[f] = sock[f]
<1>1. sock' \in [Fd -> SockRecord] /\ sock'[fd] = r /\ \A f \in Fd \ {fd} : sock'[f] = sock[f]
  BY DEF Base, Types
<1>2. /\ slave' \in [Id -> SlaveRecord] /\ SameSlaves
      /\ \A i \in Id : Counted(slave[i])' /\ Kept(i, slave'[i])
  BY SlavesUnchanged
<1>3. Types'
  BY <1>1, <1>2 DEF Base, Types
<1>4. KeptNames' /\ (reading' # None => running' /\ reading'.buf # <<>> /\ slave'[reading'.id].fd # 0)
  BY BaseIs DEF KeptNames
<1> QED BY <1>1, <1>2, <1>3, <1>4, BaseNext

LEMMA SocketClosedBase ==
  ASSUME Base, Owners, NEW fd \in Fd, SocketClosed(fd)
  PROVE  /\ Base' /\ slave' = slave /\ UNCHANGED <<reading, running, torn, conns>>
         /\ sock'[fd] = [link |-> "closed", wire |-> <<>>]
         /\ \A f \in Fd \ {fd} : sock'[f] = sock[f]
<1>1. /\ sock' = [sock EXCEPT ![fd] = [link |-> "closed", wire |-> <<>>]]
      /\ UNCHANGED <<slave, names, reading, running, sent, answered, dropped, asked, torn, next, conns, frames>>
      /\ downs' = downs \/ (harbor_id(fd) # 0 /\ downs' = downs \cup {harbor_id(fd)})
  BY DEF SocketClosed, report_harbor_down
<1>2. downs' \subseteq Remote /\ frames' \in Nat
  BY <1>1, HarborIdIs DEF Base, Types
<1>3. PICK r : r = [link |-> "closed", wire |-> <<>>]
  OBVIOUS
<1>4. r \in SockRecord
  BY <1>3 DEF SockRecord
<1> QED BY <1>1, <1>2, <1>3, <1>4, SocketStepBase

LEMMA FramesTyped ==
  /\ \A len \in Lengths : Frame(len) \in Seq(Bytes) /\ Len(Frame(len)) = HeaderSize + len
  /\ LongHeader \in Seq(Bytes) /\ Len(LongHeader) = HeaderSize
  /\ HeaderSize \in Nat \ {0} /\ Lengths \subseteq Nat \ {0}
<1>1. HeaderSize \in Nat \ {0} /\ Lengths \subseteq Nat \ {0}
  BY HarborAssumption
<1>2. ASSUME NEW len \in Lengths
      PROVE  Frame(len) \in Seq(Bytes) /\ Len(Frame(len)) = HeaderSize + len
  <2>1. HeaderSize + len \in Nat
    BY <1>1
  <2>2. PICK n \in Nat : n = HeaderSize + len
    BY <2>1
  <2>3. \A k \in 1 .. n : [at |-> k, len |-> len, bad |-> FALSE] \in Bytes
    BY <1>1, <2>2 DEF Bytes
  <2>4. Frame(len) = [k \in 1 .. n |-> [at |-> k, len |-> len, bad |-> FALSE]]
    BY <2>2 DEF Frame
  <2>5. Frame(len) \in [1 .. n -> Bytes]
    BY <2>3, <2>4
  <2>6. Frame(len) \in Seq(Bytes)
    BY <2>2, <2>5, IsASeq
  <2>7. DOMAIN Frame(len) = 1 .. n
    BY <2>4
  <2> QED BY <2>2, <2>6, <2>7, LenProperties
<1>3. LongHeader \in Seq(Bytes) /\ Len(LongHeader) = HeaderSize
  <2>1. \A k \in 1 .. HeaderSize : [at |-> k, len |-> 0, bad |-> TRUE] \in Bytes
    BY <1>1 DEF Bytes
  <2>2. LongHeader \in [1 .. HeaderSize -> Bytes]
    BY <2>1 DEF LongHeader
  <2>3. LongHeader \in Seq(Bytes)
    BY <1>1, <2>2, IsASeq
  <2>4. DOMAIN LongHeader = 1 .. HeaderSize
    BY <2>2
  <2> QED BY <1>1, <2>3, <2>4, LenProperties
<1> QED BY <1>1, <1>2, <1>3

LEMMA PeerSendBase ==
  ASSUME Base, NEW fd \in Fd, PeerSend(fd)
  PROVE  /\ Base' /\ slave' = slave /\ UNCHANGED <<running, torn, conns>> /\ reading = None /\ reading' = None
         /\ sock[fd].link = "open" /\ sock'[fd].link = "open"
         /\ \E bytes \in {Frame(len) : len \in Lengths} \cup {LongHeader} :
               bytes \in Seq(Bytes) /\ sock'[fd].wire = sock[fd].wire \o bytes
         /\ \A f \in Fd \ {fd} : sock'[f] = sock[f]
<1>1. /\ frames' = frames + 1 /\ sock[fd].link = "open" /\ reading = None
      /\ UNCHANGED <<slave, names, reading, running, sent, answered, dropped, asked, downs, torn, next, conns>>
  BY DEF PeerSend, history, Idle
<1>2. PICK bytes \in {Frame(len) : len \in Lengths} \cup {LongHeader} :
        sock' = [sock EXCEPT ![fd].wire = @ \o bytes]
  BY DEF PeerSend
<1>3. bytes \in Seq(Bytes)
  BY <1>2, FramesTyped
<1>4. sock[fd] \in SockRecord /\ sock[fd].wire \in Seq(Bytes) /\ downs' \subseteq Remote /\ frames' \in Nat
  BY <1>1 DEF Base, Types, SockRecord
<1>5. PICK w \in Seq(Bytes) : w = sock[fd].wire \o bytes
  BY <1>3, <1>4, ConcatProperties
<1>6. PICK r : r = [sock[fd] EXCEPT !.wire = w]
  OBVIOUS
<1>7. r \in SockRecord /\ r.wire = w /\ r.link = sock[fd].link
  BY <1>4, <1>6 DEF SockRecord
<1>8. sock' = [sock EXCEPT ![fd] = r]
  BY <1>2, <1>5, <1>6
<1>9. /\ Base' /\ sock'[fd] = r /\ \A f \in Fd \ {fd} : sock'[f] = sock[f]
  BY <1>1, <1>4, <1>7, <1>8, SocketStepBase
<1> QED BY <1>1, <1>3, <1>5, <1>7, <1>9

LEMMA PeerCloseBase ==
  ASSUME Base, NEW fd \in Fd, PeerClose(fd)
  PROVE  /\ Base' /\ slave' = slave /\ UNCHANGED <<reading, running, torn, conns>>
         /\ sock'[fd].link = "ended" /\ sock'[fd].wire = sock[fd].wire
         /\ \A f \in Fd \ {fd} : sock'[f] = sock[f]
<1>1. /\ sock' = [sock EXCEPT ![fd].link = "ended"]
      /\ UNCHANGED <<slave, names, reading, running, sent, answered, dropped, asked, downs, torn, next, conns,
                     frames>>
  BY DEF PeerClose, history
<1>2. sock[fd] \in SockRecord /\ downs' \subseteq Remote /\ frames' \in Nat
  BY <1>1 DEF Base, Types
<1>3. PICK r : r = [sock[fd] EXCEPT !.link = "ended"]
  OBVIOUS
<1>4. r \in SockRecord /\ r.wire = sock[fd].wire /\ r.link = "ended"
  BY <1>2, <1>3 DEF SockRecord
<1>5. sock' = [sock EXCEPT ![fd] = r]
  BY <1>1, <1>3
<1>6. /\ Base' /\ sock'[fd] = r /\ \A f \in Fd \ {fd} : sock'[f] = sock[f]
  BY <1>1, <1>2, <1>4, <1>5, SocketStepBase
<1> QED BY <1>1, <1>4, <1>6

LEMMA ReleaseBase ==
  ASSUME Base, harbor_release
  PROVE  /\ Base' /\ ~running' /\ UNCHANGED <<torn, conns>> /\ \A i \in Id : slave'[i].fd = 0
<1> DEFINE A == UNION {Numbers(slave[i].queue) : i \in Id}
           B == UNION {Numbers(names[n].queue) : n \in Name}
<1>1. /\ running' = FALSE /\ slave' = [i \in Id |-> close_harbor(slave[i])]
      /\ SocketClose({slave[i].fd : i \in Id})
      /\ names' = [n \in Name |-> [names[n] EXCEPT !.queue = None]]
      /\ UNCHANGED <<reading, sent, answered, asked, downs, torn, next, conns, frames>>
      /\ reading = None
  BY DEF harbor_release, hash_delete, Idle
<1>0. dropped' = dropped \cup A \cup B
  BY Zenon DEF harbor_release
<1>2. /\ \A i \in Id : slave[i] \in SlaveRecord /\ slave[i].queue \in {None} \cup Queue
      /\ \A n \in Name : names[n] \in NameRecord /\ names[n].queue \in {None} \cup Queue
  BY DEF Base, Types, SlaveRecord, NameRecord
<1>3. \A s \in SlaveRecord : /\ close_harbor(s) \in SlaveRecord /\ close_harbor(s).fd = 0
                             /\ close_harbor(s).status = "down" /\ close_harbor(s).queue = None
                             /\ close_harbor(s).read = s.read /\ close_harbor(s).length = s.length
                             /\ close_harbor(s).size = s.size
  BY Ids DEF close_harbor, SlaveRecord, Status
<1>4. slave' \in [Id -> SlaveRecord]
  BY <1>1, <1>2, <1>3
<1>5. ASSUME NEW i \in Id PROVE Counted(slave[i])' /\ Kept(i, slave'[i]) /\ slave'[i].fd = 0
  <2>1. /\ slave'[i].fd = 0 /\ slave'[i].status = "down" /\ slave'[i].queue = None
        /\ slave'[i].read = slave[i].read /\ slave'[i].length = slave[i].length
        /\ slave'[i].size = slave[i].size
    BY <1>1, <1>2, <1>3
  <2>2. Counted(slave[i])
    BY BaseIs
  <2>3. Counted(slave[i])'
    BY <1>1, <2>1, <2>2 DEF Counted
  <2> QED BY <2>1, <2>3 DEF Kept
<1>6. \A r \in NameRecord : LET e == [r EXCEPT !.queue = None] IN e \in NameRecord /\ e.queue = None
  BY DEF NameRecord
<1>7. names' \in [Name -> NameRecord] /\ \A n \in Name : names'[n].queue = None
  BY <1>1, <1>2, <1>6
<1>8. dropped' \subseteq Nat
  <2>1. dropped \subseteq Nat
    BY DEF Base, Types
  <2>2. /\ \A i \in Id : Numbers(slave[i].queue) \subseteq Nat
        /\ \A n \in Name : Numbers(names[n].queue) \subseteq Nat
    BY <1>2, ContentsTyped
  <2>3. UNION {Numbers(slave[i].queue) : i \in Id} \subseteq Nat
    BY <2>2, Zenon
  <2>4. UNION {Numbers(names[n].queue) : n \in Name} \subseteq Nat
    BY <2>2, Zenon
  <2>5. A \subseteq Nat /\ B \subseteq Nat
    BY <2>3, <2>4
  <2> HIDE DEF A, B
  <2> QED BY <1>0, <2>1, <2>5
<1>9. sock' \in [Fd -> SockRecord]
  BY <1>1, SocketCloseTyped
<1>10. Types'
  BY <1>1, <1>4, <1>7, <1>8, <1>9 DEF Base, Types
<1>11. KeptNames'
  BY <1>7 DEF KeptNames
<1>12. Base'
  BY <1>1, <1>5, <1>10, <1>11, BaseNext
<1> QED BY <1>1, <1>5, <1>12

LEMMA InitBase == Init => Base
<1> SUFFICES ASSUME Init PROVE Base
  OBVIOUS
<1>1. HeaderSize \in Nat \ {0} /\ MaxFd \in Nat
  BY HarborAssumption
<1>2. PICK r : r = [fd |-> 0, status |-> "wait", queue |-> None, read |-> 0,
                    length |-> 0, size |-> [k \in 1 .. HeaderSize |-> None]]
  OBVIOUS
<1>3. r \in SlaveRecord /\ r.fd = 0 /\ r.status = "wait" /\ r.queue = None /\ r.read = 0 /\ r.length = 0
  BY <1>1, <1>2 DEF SlaveRecord, Status
<1>4. slave = [i \in Id |-> r] /\ \A i \in Id : slave[i] = r
  BY <1>2 DEF Init
<1>5. Counted(r) /\ \A i \in Id : Kept(i, r)
  BY <1>1, <1>3 DEF Counted, Kept
<1>6. \A n \in Name : names[n] \in NameRecord /\ names[n].queue = None
  BY DEF Init, NameRecord
<1>7. sock \in [Fd -> SockRecord]
  BY DEF Init, SockRecord
<1>8. reading = None
  BY DEF Init
<1>9. Types
  BY <1>1, <1>3, <1>4, <1>6, <1>7 DEF Init, Types
<1>10. KeptNames
  BY <1>6 DEF KeptNames
<1>11. \A i \in Id : Counted(slave[i]) /\ Kept(i, slave[i])
  BY <1>4, <1>5
<1> QED BY <1>8, <1>9, <1>10, <1>11, BaseIs


(***************************************************************************)
(* The stream of frames.                                                   *)
(***************************************************************************)
\* From the byte at place a on, a stream runs to the end of the frame, and
\* another frame follows.
LEMMA RunOn ==
  ASSUME NEW b \in Seq(Bytes), Framed(b), b # <<>>, b[1].at # 0,
         NEW n, n = HeaderSize + b[1].len - b[1].at + 1
  PROVE  /\ n \in Nat \ {0} /\ n <= Len(b)
         /\ \A k \in 1 .. n : b[k].at = b[1].at + k - 1 /\ b[k].len = b[1].len /\ b[k].bad = b[1].bad
         /\ n < Len(b) => b[n + 1].at = 1
<1> DEFINE l == Len(b)
           a == b[1].at
           e == HeaderSize + b[1].len
<1>1. /\ l \in Nat \ {0} /\ \A k \in 1 .. l : b[k] \in Bytes /\ b[k].at \in Nat
      /\ HeaderSize \in Nat \ {0} /\ {0} \cup Lengths \subseteq Nat
  BY HarborAssumption DEF Bytes
<1>2. a \in Nat \ {0} /\ e \in Nat /\ a <= e /\ n = e - a + 1
  <2>1. b[1] \in Bytes
    BY <1>1
  <2>2. b[1].len \in {0} \cup Lengths /\ b[1].at <= HeaderSize + b[1].len /\ b[1].at \in Nat
    BY <2>1 DEF Bytes
  <2> QED BY <1>1, <2>2
<1>3. /\ \A k \in 1 .. l - 1 : Follows(b[k], b[k + 1])
      /\ End(b[l])
  BY DEF Framed
<1> DEFINE P(k) == /\ k <= l /\ b[k].at = a + k - 1
                   /\ b[k].len = b[1].len /\ b[k].bad = b[1].bad
           T == {k \in Nat : k + 1 <= n => P(k + 1)}
<1>4. n \in Nat \ {0} /\ n + a = e + 1
  BY <1>2
<1> HIDE DEF a
<1>5. 0 \in T
  <2>1. P(0 + 1)
    BY <1>1, <1>2 DEF a
  <2> QED BY <2>1
<1>6. ASSUME NEW k \in Nat, k \in T, k + 1 + 1 <= n PROVE P(k + 1 + 1)
  <2>1. PICK j \in Nat : j = k + 1
    OBVIOUS
  <2>2. P(j) /\ j + 1 <= n /\ j \in 1 .. l
    BY <1>1, <1>4, <1>6, <2>1
  <2>3. ~End(b[j])
    <3>1. b[j].at = a + j - 1 /\ HeaderSize + b[j].len = e
      BY <2>2
    <3>2. a + j - 1 # 0 /\ a + j - 1 < e
      BY <1>2, <1>4, <2>2
    <3> HIDE DEF e
    <3> QED BY <1>2, <3>1, <3>2 DEF End
  <2>4. j # l
    BY <1>3, <2>3
  <2>5. j \in 1 .. l - 1
    BY <1>1, <2>2, <2>4
  <2>6. Follows(b[j], b[j + 1])
    BY <1>3, <2>5
  <2>7. b[j + 1].at = b[j].at + 1 /\ b[j + 1].len = b[j].len /\ b[j + 1].bad = b[j].bad
    BY <2>3, <2>6 DEF Follows
  <2>8. b[j + 1].at = a + (j + 1) - 1
    BY <1>2, <2>2, <2>7
  <2>9. P(j + 1)
    BY <1>1, <2>2, <2>5, <2>7, <2>8
  <2> QED BY <2>1, <2>9
<1>7. Nat \subseteq T
  <2>1. \A k \in Nat : k \in T => k + 1 \in T
    BY <1>6
  <2> HIDE DEF T
  <2> QED BY <1>5, <2>1, Everyone
<1>8. ASSUME NEW k \in 1 .. n PROVE P(k)
  <2>1. PICK j \in Nat : k = j + 1
    <3>1. k - 1 \in Nat /\ k = (k - 1) + 1
      BY <1>4
    <3> QED BY <3>1
  <2>2. j \in T /\ j + 1 <= n
    BY <1>4, <1>7, <2>1
  <2> QED BY <2>1, <2>2
<1>9. P(n)
  BY <1>4, <1>8
<1>10. ASSUME n < l PROVE b[n + 1].at = 1
  <2>1. n \in 1 .. l - 1
    BY <1>1, <1>4, <1>10
  <2>2. b[n].at = e /\ HeaderSize + b[n].len = e
    <3>1. b[n].at = a + n - 1 /\ b[n].len = b[1].len
      BY <1>9
    <3>2. a + n - 1 = e
      BY <1>2, <1>4
    <3> QED BY <3>1, <3>2
  <2> HIDE DEF e
  <2>3. End(b[n])
    BY <2>2 DEF End
  <2> QED BY <1>3, <2>1, <2>3 DEF Follows
<1>11. n <= Len(b)
  BY <1>9
<1>12. \A k \in 1 .. n : b[k].at = b[1].at + k - 1 /\ b[k].len = b[1].len /\ b[k].bad = b[1].bad
  BY <1>8 DEF a
<1> QED BY <1>4, <1>10, <1>11, <1>12

\* What is left of a stream after some bytes is one as well.
LEMMA FramedRest ==
  ASSUME NEW b \in Seq(Bytes), Framed(b), NEW n \in 0 .. Len(b), NEW c \in Seq(Bytes),
         Len(c) = Len(b) - n, \A k \in 1 .. Len(c) : c[k] = b[n + k]
  PROVE  Framed(c)
<1> DEFINE l == Len(b)
           m == Len(c)
<1>1. l \in Nat /\ m \in Nat /\ m = l - n /\ n \in 0 .. l /\ \A k \in 1 .. m : c[k] = b[n + k]
  OBVIOUS
<1>2. \A k \in 1 .. l - 1 : Follows(b[k], b[k + 1])
  BY DEF Framed
<1>3. b # <<>> => End(b[l])
  BY DEF Framed
<1>0. (c # <<>> => m # 0) /\ (b = <<>> => l = 0)
  OBVIOUS
<1> HIDE DEF l, m
<1>4. ASSUME NEW k \in 1 .. m - 1 PROVE Follows(c[k], c[k + 1])
  <2>1. n + k \in 1 .. l - 1 /\ k \in 1 .. m /\ k + 1 \in 1 .. m /\ n + (k + 1) = (n + k) + 1
    BY <1>1
  <2>2. c[k] = b[n + k] /\ c[k + 1] = b[(n + k) + 1]
    BY <1>1, <2>1
  <2> QED BY <1>2, <2>1, <2>2
<1>5. ASSUME c # <<>> PROVE End(c[m])
  <2>1. m \in 1 .. m /\ n + m = l /\ l # 0
    BY <1>0, <1>1, <1>5
  <2> QED BY <1>0, <1>1, <1>3, <2>1
<1> QED BY <1>4, <1>5 DEF Framed, m

\* A whole frame at the end.
LEMMA FramedMore ==
  ASSUME NEW b \in Seq(Bytes), Framed(b), NEW f \in Seq(Bytes), Framed(f), f # <<>>, f[1].at = 1
  PROVE  Framed(b \o f) /\ b \o f \in Seq(Bytes) /\ b \o f # <<>>
         /\ (b \o f)[1] = IF b = <<>> THEN f[1] ELSE b[1]
<1> DEFINE l == Len(b)
           m == Len(f)
           c == b \o f
<1>1. /\ l \in Nat /\ m \in Nat \ {0} /\ c \in Seq(Bytes) /\ Len(c) = l + m
      /\ \A k \in 1 .. l : c[k] = b[k]
      /\ \A k \in 1 .. m : c[l + k] = f[k]
  <2>1. l \in Nat /\ m \in Nat \ {0}
    OBVIOUS
  <2>2. c \in Seq(Bytes) /\ Len(c) = l + m /\ \A k \in 1 .. l + m : c[k] = IF k <= l THEN b[k] ELSE f[k - l]
    BY ConcatProperties
  <2> HIDE DEF l, m, c
  <2>3. ASSUME NEW k \in 1 .. m PROVE c[l + k] = f[k]
    <3>1. l + k \in 1 .. l + m /\ ~(l + k <= l) /\ (l + k) - l = k
      BY <2>1
    <3> QED BY <2>2, <3>1
  <2>4. ASSUME NEW k \in 1 .. l PROVE c[k] = b[k]
    <3>1. k \in 1 .. l + m /\ k <= l
      BY <2>1
    <3> QED BY <2>2, <3>1
  <2> QED BY <2>1, <2>2, <2>3, <2>4
<1>2. (b # <<>> => End(b[l])) /\ End(f[m]) /\ (b = <<>> <=> l = 0)
  BY DEF Framed
<1>3. /\ \A k \in 1 .. l - 1 : Follows(b[k], b[k + 1])
      /\ \A k \in 1 .. m - 1 : Follows(f[k], f[k + 1])
  BY DEF Framed
<1> HIDE DEF l, m, c
<1>4. ASSUME NEW k \in 1 .. l + m - 1 PROVE Follows(c[k], c[k + 1])
  <2>1. CASE k < l
    <3>1. k \in 1 .. l /\ k + 1 \in 1 .. l /\ k \in 1 .. l - 1
      BY <1>1, <2>1
    <3> QED BY <1>1, <1>3, <3>1
  <2>2. CASE k = l
    <3>1. l \in 1 .. l /\ 1 \in 1 .. m /\ l # 0
      BY <1>1, <2>2
    <3>2. End(c[k]) /\ c[k + 1] = f[1]
      BY <1>1, <1>2, <2>2, <3>1
    <3> QED BY <3>2 DEF Follows
  <2>3. CASE k > l
    <3>1. PICK j \in Nat : k = l + j
      <4>1. k - l \in Nat /\ k = l + (k - l)
        BY <1>1, <2>3
      <4> QED BY <4>1
    <3>2. j \in 1 .. m /\ j + 1 \in 1 .. m /\ j \in 1 .. m - 1 /\ k + 1 = l + (j + 1)
      BY <1>1, <2>3, <3>1
    <3>3. c[k] = f[j] /\ c[k + 1] = f[j + 1]
      BY <1>1, <3>1, <3>2
    <3> QED BY <1>3, <3>2, <3>3
  <2> QED BY <1>1, <2>1, <2>2, <2>3
<1>5. c # <<>> /\ End(c[Len(c)])
  <2>1. m \in 1 .. m
    BY <1>1
  <2>2. c[l + m] = f[m]
    BY <1>1, <2>1
  <2>3. Len(c) # 0
    BY <1>1
  <2> QED BY <1>1, <1>2, <2>2, <2>3
<1>6. c[1] = IF b = <<>> THEN f[1] ELSE b[1]
  <2>1. CASE l = 0
    <3>1. 1 \in 1 .. m /\ l + 1 = 1
      BY <1>1, <2>1
    <3> QED BY <1>1, <1>2, <2>1, <3>1
  <2>2. CASE l # 0
    <3>1. 1 \in 1 .. l
      BY <1>1, <2>2
    <3> QED BY <1>1, <1>2, <2>2, <3>1
  <2> QED BY <2>1, <2>2
<1>7. Framed(c)
  BY <1>1, <1>4, <1>5 DEF Framed
<1> QED BY <1>1, <1>5, <1>6, <1>7 DEF c

LEMMA FramesFramed ==
  ASSUME NEW f \in {Frame(len) : len \in Lengths} \cup {LongHeader}
  PROVE  f \in Seq(Bytes) /\ Framed(f) /\ f # <<>> /\ f[1].at = 1
<1>1. PICK n \in Nat \ {0}, len \in Nat, bad \in BOOLEAN :
        /\ f = [k \in 1 .. n |-> [at |-> k, len |-> len, bad |-> bad]]
        /\ n = HeaderSize + len
  <2>1. CASE f = LongHeader
    <3>1. /\ f = [k \in 1 .. HeaderSize |-> [at |-> k, len |-> 0, bad |-> TRUE]]
          /\ HeaderSize \in Nat \ {0} /\ HeaderSize = HeaderSize + 0 /\ 0 \in Nat
      BY <2>1, FramesTyped DEF LongHeader
    <3> QED BY <3>1
  <2>2. ASSUME NEW len \in Lengths, f = Frame(len)
        PROVE \E n \in Nat \ {0}, x \in Nat, bad \in BOOLEAN :
                /\ f = [k \in 1 .. n |-> [at |-> k, len |-> x, bad |-> bad]]
                /\ n = HeaderSize + x
    <3>1. /\ f = [k \in 1 .. (HeaderSize + len) |-> [at |-> k, len |-> len, bad |-> FALSE]]
          /\ len \in Nat /\ HeaderSize + len \in Nat \ {0}
      BY <2>2, FramesTyped DEF Frame
    <3> QED BY <3>1
  <2> QED BY <2>1, <2>2
<1>2. f \in Seq(Bytes) /\ Len(f) = n
  <2>1. f \in Seq(Bytes)
    BY FramesTyped
  <2>2. DOMAIN f = 1 .. n
    BY <1>1
  <2> QED BY <2>1, <2>2, LenProperties
<1>3. \A k \in 1 .. n : f[k].at = k /\ f[k].len = len /\ f[k].bad = bad
  <2> SUFFICES ASSUME NEW k \in 1 .. n PROVE f[k].at = k /\ f[k].len = len /\ f[k].bad = bad
    OBVIOUS
  <2>1. f[k] = [at |-> k, len |-> len, bad |-> bad]
    BY <1>1
  <2> QED BY <2>1
<1>4. ASSUME NEW k \in 1 .. n - 1 PROVE Follows(f[k], f[k + 1])
  <2>1. k \in 1 .. n /\ k + 1 \in 1 .. n /\ k # 0 /\ k # n
    BY <1>1
  <2>2. f[k].at = k /\ f[k + 1].at = k + 1 /\ f[k].len = len /\ f[k + 1].len = len /\ f[k].bad = f[k + 1].bad
    BY <1>3, <2>1
  <2> QED BY <1>1, <2>1, <2>2 DEF Follows, End
<1>5. End(f[n]) /\ f[1].at = 1
  <2>1. n \in 1 .. n /\ 1 \in 1 .. n
    BY <1>1
  <2>2. f[n].at = n /\ f[n].len = len /\ f[1].at = 1
    BY <1>3, <2>1
  <2> QED BY <1>1, <2>2 DEF End
<1>6. f # <<>>
  BY <1>1, <1>2
<1> QED BY <1>2, <1>4, <1>5, <1>6 DEF Framed


(***************************************************************************)
(* Who owns a connection, and what stands on its stream.                   *)
(***************************************************************************)
Buf(i) == IF reading # None /\ reading.id = i THEN reading.buf ELSE <<>>

Right(i) == /\ slave[i].fd # 0 => InStream(i)
            /\ running /\ slave[i].status \notin {"header", "content"} => slave[i].read = 0

LEMMA StreamIs ==
  ASSUME Base, NEW i \in Remote, slave[i].fd # 0
  PROVE  /\ Stream(i) = Buf(i) \o sock[slave[i].fd].wire
         /\ slave[i].fd \in Fd /\ Buf(i) \in Seq(Bytes) /\ sock[slave[i].fd].wire \in Seq(Bytes)
         /\ Stream(i) \in Seq(Bytes)
<1>1. Stream(i) = Buf(i) \o sock[slave[i].fd].wire
  BY DEF Stream, Buf
<1>2. slave[i].fd \in Fd
  <2>1. slave[i].fd \in 0 .. MaxFd /\ MaxFd \in Nat
    BY Ids, SlaveIs, HarborAssumption
  <2> QED BY <2>1 DEF Fd
<1>3. sock[slave[i].fd].wire \in Seq(Bytes)
  BY <1>2 DEF Base, Types, SockRecord
<1>4. Buf(i) \in Seq(Bytes)
  BY ReadingIs DEF Buf
<1> QED BY <1>1, <1>2, <1>3, <1>4, ConcatProperties

LEMMA RightKept ==
  ASSUME NEW i, Right(i), Buf(i)' = Buf(i), running' = running,
         /\ slave'[i].fd = slave[i].fd /\ slave'[i].status = slave[i].status
         /\ slave'[i].read = slave[i].read /\ slave'[i].length = slave[i].length
         /\ slave'[i].size = slave[i].size,
         slave[i].fd # 0 => /\ sock'[slave[i].fd].wire = sock[slave[i].fd].wire
                            /\ \/ sock'[slave[i].fd].link = sock[slave[i].fd].link
                               \/ sock'[slave[i].fd].link # "open"
  PROVE  Right(i)'
<1>1. ASSUME slave[i].fd # 0 PROVE InStream(i)'
  <2>1. Stream(i) = Buf(i) \o sock[slave[i].fd].wire /\ Stream(i)' = Buf(i)' \o sock'[slave'[i].fd].wire
    BY DEF Stream, Buf
  <2>2. Stream(i)' = Stream(i)
    BY <1>1, <2>1
  <2>3. InStream(i)
    BY <1>1 DEF Right
  <2>4. PICK b : b = Stream(i)
    OBVIOUS
  <2>5. /\ Framed(b) /\ (b # <<>> => Expected(slave[i], b[1]))
        /\ b = <<>> => \/ sock[slave[i].fd].link # "open"
                       \/ slave[i].status = "header" /\ slave[i].read = 0
    BY <2>3, <2>4 DEF InStream
  <2>6. Expected(slave[i], b[1]) => Expected(slave'[i], b[1])
    BY DEF Expected
  <2>7. b = <<>> => \/ sock'[slave'[i].fd].link # "open"
                    \/ slave'[i].status = "header" /\ slave'[i].read = 0
    BY <1>1, <2>5
  <2>8. Stream(i)' = b
    BY <2>2, <2>4
  <2> QED BY <2>5, <2>6, <2>7, <2>8 DEF InStream
<1> QED BY <1>1 DEF Right

LEMMA StreamsNext ==
  ASSUME \A i \in Remote : i \notin torn' => Right(i)'
  PROVE  Streams'
BY DEF Streams, Right

LEMMA RightIs ==
  ASSUME Streams, NEW i \in Remote, i \notin torn
  PROVE  Right(i)
BY DEF Streams, Right

LEMMA OwnersKept ==
  ASSUME Owners, conns' = conns, \A i \in Remote : slave'[i].fd = slave[i].fd \/ slave'[i].fd = 0,
         conns \in Nat
  PROVE  Owners'
BY DEF Owners

\* Only queues change.
LEMMA QueueStep ==
  ASSUME HarborInv, SameSlaves, UNCHANGED <<reading, running, torn, sock, conns>>
  PROVE  Owners' /\ Streams'
<1>1. Owners'
  <2>1. \A i \in Remote : slave'[i].fd = slave[i].fd
    BY Ids DEF SameSlaves
  <2>2. conns \in Nat
    BY DEF HarborInv, Base, Types
  <2> QED BY <2>1, <2>2, OwnersKept DEF HarborInv
<1>2. ASSUME NEW i \in Remote, i \notin torn' PROVE Right(i)'
  <2>1. Right(i)
    BY <1>2, RightIs DEF HarborInv
  <2>2. Buf(i)' = Buf(i)
    BY DEF Buf
  <2>3. /\ slave'[i].fd = slave[i].fd /\ slave'[i].status = slave[i].status
        /\ slave'[i].read = slave[i].read /\ slave'[i].length = slave[i].length
        /\ slave'[i].size = slave[i].size
    BY Ids DEF SameSlaves
  <2> QED BY <2>1, <2>2, <2>3, RightKept
<1> QED BY <1>1, <1>2, StreamsNext

\* A step of one slave's read loop keeps the others.
LEMMA OthersRight ==
  ASSUME HarborInv, reading # None, reading' = None \/ reading'.id = reading.id,
         NEW id \in Remote, id = reading.id, UNCHANGED <<running, conns>>, torn \subseteq torn',
         \A i \in Id \ {reading.id} : slave'[i] = slave[i],
         slave'[reading.id].fd = slave[reading.id].fd \/ slave'[reading.id].fd = 0,
         sock' = sock \/ SocketClose({slave[reading.id].fd}),
         id \notin torn' => Right(id)'
  PROVE  Owners' /\ Streams'
<1>1. Owners'
  <2>1. \A i \in Remote : slave'[i].fd = slave[i].fd \/ slave'[i].fd = 0
    BY Ids
  <2>2. conns \in Nat
    BY DEF HarborInv, Base, Types
  <2> QED BY <2>1, <2>2, OwnersKept DEF HarborInv
<1>2. ASSUME NEW i \in Remote, i \notin torn' PROVE Right(i)'
  <2>1. CASE i = reading.id
    BY <1>2, <2>1
  <2>2. CASE i # reading.id
    <3>1. Right(i)
      BY <1>2, RightIs DEF HarborInv
    <3>2. Buf(i)' = Buf(i)
      BY <2>2 DEF Buf
    <3>3. slave'[i] = slave[i]
      BY <2>2, Ids
    <3>4. ASSUME slave[i].fd # 0
          PROVE  /\ sock'[slave[i].fd].wire = sock[slave[i].fd].wire
                 /\ \/ sock'[slave[i].fd].link = sock[slave[i].fd].link
                    \/ sock'[slave[i].fd].link # "open"
      <4>1. PICK f \in Fd : f = slave[i].fd
        BY <3>4, StreamIs DEF HarborInv
      <4>2. CASE sock' = sock
        BY <4>2
      <4>3. CASE SocketClose({slave[reading.id].fd})
        BY <4>1, <4>3, SocketCloseTyped DEF HarborInv
      <4> QED BY <4>2, <4>3
    <3> QED BY <3>1, <3>2, <3>3, <3>4, RightKept
  <2> QED BY <2>1, <2>2
<1> QED BY <1>1, <1>2, StreamsNext

\* What a step that consumes n bytes does to the stream.
LEMMA StreamMoves ==
  ASSUME Base, Base', reading # None, NEW id \in Remote, id = reading.id,
         NEW n \in 1 .. Len(reading.buf), Consumes(n), sock' = sock, slave'[id].fd = slave[id].fd
  PROVE  /\ Stream(id) \in Seq(Bytes) /\ Stream(id)' \in Seq(Bytes)
         /\ Len(reading.buf) <= Len(Stream(id))
         /\ \A k \in 1 .. Len(reading.buf) : Stream(id)[k] = reading.buf[k]
         /\ Len(Stream(id)') = Len(Stream(id)) - n
         /\ \A k \in 1 .. Len(Stream(id)) - n : Stream(id)'[k] = Stream(id)[n + k]
         /\ Framed(Stream(id)) => Framed(Stream(id)')
         /\ reading' = None \/ reading'.id = reading.id
<1>1. PICK f : f = slave[id].fd
  OBVIOUS
<1>0. /\ f \in Fd /\ f # 0 /\ reading.buf \in Seq(Bytes) /\ Len(reading.buf) \in Nat \ {0}
  BY <1>1, ReadingIs DEF Fd
<1>2. PICK w : w = sock[f].wire
  OBVIOUS
<1>3. PICK u : u = reading.buf
  OBVIOUS
<1>4. PICK r : r = Skip(n)
  OBVIOUS
<1>5. /\ r \in Seq(Bytes) /\ Len(r) = Len(u) - n
      /\ \A k \in 1 .. Len(u) - n : r[k] = u[n + k]
  <2>1. n \in 0 .. Len(u) /\ u \in Seq(Bytes)
    BY <1>0, <1>3
  <2>2. r = SubSeq(u, n + 1, Len(u))
    BY <1>3, <1>4 DEF Skip
  <2> QED BY <2>1, <2>2, SuffixTyped
<1>6. Stream(id) = u \o w /\ w \in Seq(Bytes)
  <2>1. Buf(id) = u
    BY <1>3 DEF Buf
  <2> QED BY <1>0, <1>1, <1>2, <2>1, StreamIs
<1>7. Stream(id)' = r \o w /\ (reading' = None \/ reading'.id = reading.id)
  <2>1. CASE n = Len(reading.buf) /\ reading' = None
    <3>1. Len(r) = 0
      BY <1>0, <1>3, <1>5, <2>1
    <3>2. r = <<>>
      BY <1>5, <3>1
    <3>3. Stream(id)' = <<>> \o sock'[slave'[id].fd].wire
      BY <2>1 DEF Stream
    <3> QED BY <1>1, <1>2, <2>1, <3>2, <3>3
  <2>2. CASE GoOn(Skip(n))
    <3>1. /\ r = <<>> => reading' = None
          /\ r # <<>> => reading' # None /\ reading'.id = reading.id /\ reading'.buf = r
      BY <1>4, <2>2, GoOnTyped
    <3>2. Stream(id)' = (IF reading' # None /\ reading'.id = id THEN reading'.buf ELSE <<>>) \o sock'[slave'[id].fd].wire
      BY DEF Stream
    <3>3. (IF reading' # None /\ reading'.id = id THEN reading'.buf ELSE <<>>) = r
      BY <3>1
    <3> QED BY <1>1, <1>2, <3>1, <3>2, <3>3
  <2> QED BY <2>1, <2>2 DEF Consumes
<1>8. PICK b, c : b = u \o w /\ c = r \o w
  OBVIOUS
<1> DEFINE lu == Len(u)
           lw == Len(w)
           lr == Len(r)
<1>9. /\ b \in Seq(Bytes) /\ c \in Seq(Bytes) /\ Len(b) = lu + lw /\ Len(c) = lr + lw
      /\ \A k \in 1 .. lu + lw : b[k] = IF k <= lu THEN u[k] ELSE w[k - lu]
      /\ \A k \in 1 .. lr + lw : c[k] = IF k <= lr THEN r[k] ELSE w[k - lr]
  <2>1. u \in Seq(Bytes)
    BY <1>0, <1>3
  <2>2. /\ u \o w \in Seq(Bytes) /\ Len(u \o w) = lu + lw
        /\ \A k \in 1 .. lu + lw : (u \o w)[k] = IF k <= lu THEN u[k] ELSE w[k - lu]
    BY <1>6, <2>1, ConcatProperties
  <2>3. /\ r \o w \in Seq(Bytes) /\ Len(r \o w) = lr + lw
        /\ \A k \in 1 .. lr + lw : (r \o w)[k] = IF k <= lr THEN r[k] ELSE w[k - lr]
    BY <1>5, <1>6, ConcatProperties
  <2> HIDE DEF lu, lw, lr
  <2> QED BY <1>8, <2>2, <2>3
<1>10. lu \in Nat /\ lw \in Nat /\ lr \in Nat /\ lr = lu - n /\ n \in 1 .. lu /\ \A k \in 1 .. lr : r[k] = u[n + k]
  BY <1>0, <1>3, <1>5, <1>6
<1> HIDE DEF lu, lw, lr
<1>11. ASSUME NEW k \in 1 .. lr + lw PROVE c[k] = b[n + k]
  <2>1. n + k \in 1 .. lu + lw
    BY <1>10
  <2>2. CASE k <= lr
    <3>1. n + k <= lu /\ k \in 1 .. lr
      BY <1>10, <2>2
    <3> QED BY <1>9, <1>10, <2>1, <2>2, <3>1
  <2>3. CASE ~(k <= lr)
    <3>1. ~(n + k <= lu) /\ (n + k) - lu = k - lr
      BY <1>10, <2>3
    <3> QED BY <1>9, <2>1, <2>3, <3>1
  <2> QED BY <2>2, <2>3
<1>12. Len(c) = Len(b) - n /\ Len(b) \in Nat /\ n \in 0 .. Len(b) /\ lu <= Len(b) /\ lr + lw = Len(b) - n
  BY <1>9, <1>10
<1>13. \A k \in 1 .. lu : b[k] = u[k]
  <2> SUFFICES ASSUME NEW k \in 1 .. lu PROVE b[k] = u[k]
    OBVIOUS
  <2>1. k \in 1 .. lu + lw /\ k <= lu
    BY <1>10
  <2> QED BY <1>9, <2>1
<1>14. ASSUME Framed(b) PROVE Framed(c)
  <2>1. \A k \in 1 .. Len(c) : c[k] = b[n + k]
    BY <1>9, <1>11
  <2> QED BY <1>9, <1>12, <1>14, <2>1, FramedRest
<1>15. Stream(id) = b /\ Stream(id)' = c
  BY <1>6, <1>7, <1>8
<1>16. \A k \in 1 .. Len(b) - n : c[k] = b[n + k]
  BY <1>11, <1>12
<1> QED BY <1>3, <1>7, <1>9, <1>12, <1>13, <1>14, <1>15, <1>16 DEF lu


LEMMA InStreamNext ==
  ASSUME NEW i, NEW c, c = Stream(i)', Framed(c), c # <<>> => Expected(slave'[i], c[1]),
         c = <<>> => slave'[i].status = "header" /\ slave'[i].read = 0
  PROVE  InStream(i)'
BY DEF InStream

LEMMA HandshakeStep ==
  ASSUME HarborInv, ReadHandshake
  PROVE  Owners' /\ Streams'
<1>1. PICK id : id = reading.id
  OBVIOUS
<1>2. /\ Base' /\ reading # None /\ slave[id].status = "handshake"
      /\ UNCHANGED <<running, torn, conns>>
      /\ \A i \in Id \ {id} : slave'[i] = slave[i]
      /\ \/ /\ slave'[id].fd = 0 /\ slave'[id].status = "down"
            /\ slave'[id].read = slave[id].read
            /\ reading' = None /\ SocketClose({slave[id].fd})
         \/ /\ slave'[id].fd = slave[id].fd /\ slave'[id].status = "header"
            /\ slave'[id].read = slave[id].read
            /\ GoOn(Skip(1)) /\ sock' = sock
  BY <1>1, ReadHandshakeBase DEF HarborInv
<1>3. Base /\ Streams /\ id \in Remote /\ Len(reading.buf) \in Nat \ {0} /\ running /\ slave[id].fd # 0
  BY <1>1, <1>2, ReadingIs DEF HarborInv, Fd
<1>4. torn \subseteq torn'
  BY <1>2
<1>5. CASE /\ slave'[id].fd = 0 /\ slave'[id].status = "down"
           /\ slave'[id].read = slave[id].read
           /\ reading' = None /\ SocketClose({slave[id].fd})
  <2>1. ASSUME id \notin torn' PROVE Right(id)'
    <3>1. Right(id)
      BY <1>2, <1>3, <2>1, RightIs
    <3> QED BY <1>2, <1>3, <1>5, <3>1 DEF Right
  <2> QED BY <1>1, <1>2, <1>3, <1>4, <1>5, <2>1, OthersRight
<1>6. CASE /\ slave'[id].fd = slave[id].fd /\ slave'[id].status = "header"
           /\ slave'[id].read = slave[id].read
           /\ GoOn(Skip(1)) /\ sock' = sock
  <2>1. PICK b : b = Stream(id)
    OBVIOUS
  <2>2. PICK c : c = Stream(id)'
    OBVIOUS
  <2>3. /\ b \in Seq(Bytes) /\ c \in Seq(Bytes) /\ Len(reading.buf) <= Len(b)
        /\ Len(c) = Len(b) - 1 /\ \A k \in 1 .. Len(b) - 1 : c[k] = b[1 + k]
        /\ (Framed(b) => Framed(c)) /\ (reading' = None \/ reading'.id = reading.id)
    <3>1. 1 \in 1 .. Len(reading.buf) /\ Consumes(1)
      BY <1>3, <1>6 DEF Consumes
    <3> QED BY <1>1, <1>2, <1>3, <1>6, <2>1, <2>2, <3>1, StreamMoves
  <2>4. ASSUME id \notin torn' PROVE Right(id)'
    <3>1. Right(id)
      BY <1>2, <1>3, <2>4, RightIs
    <3>2. slave[id].read = 0 /\ Framed(b) /\ (b # <<>> => Expected(slave[id], b[1]))
      BY <1>2, <1>3, <2>1, <3>1 DEF Right, InStream
    <3>3. Len(b) \in Nat \ {0} /\ b # <<>>
      BY <1>3, <2>3
    <3>4. End(b[1])
      BY <1>2, <3>2, <3>3 DEF Expected, End
    <3>5. ASSUME c # <<>> PROVE Expected(slave'[id], c[1])
      <4>1. Len(c) # 0
        BY <2>3, <3>5
      <4>2. 1 \in 1 .. Len(b) - 1
        BY <2>3, <3>3, <4>1
      <4>3. Follows(b[1], b[1 + 1]) /\ c[1] = b[1 + 1]
        BY <2>3, <3>2, <4>2 DEF Framed
      <4>4. c[1].at = 1
        BY <3>4, <4>3 DEF Follows
      <4> QED BY <1>6, <3>2, <4>4 DEF Expected
    <3>6. InStream(id)'
      BY <1>6, <2>2, <2>3, <3>2, <3>5, InStreamNext
    <3> QED BY <1>6, <3>6 DEF Right
  <2> QED BY <1>1, <1>2, <1>3, <1>4, <1>6, <2>3, <2>4, OthersRight
<1> QED BY <1>2, <1>5, <1>6

\* The bytes that the reader takes, from the one it expects on.
LEMMA TakeBytes ==
  ASSUME Base, Base', Right(reading.id), reading # None, NEW id \in Remote, id = reading.id,
         slave[id].status \in {"header", "content"},
         NEW n \in 1 .. Len(reading.buf), Consumes(n), sock' = sock, slave'[id].fd = slave[id].fd,
         NEW b, b = Stream(id), NEW c, c = Stream(id)',
         NEW m, m = HeaderSize + b[1].len - b[1].at + 1
  PROVE  /\ b \in Seq(Bytes) /\ c \in Seq(Bytes) /\ Framed(c) /\ b[1] \in Bytes /\ Expected(slave[id], b[1])
         /\ \A k \in 1 .. Len(reading.buf) : b[k] = reading.buf[k]
         /\ m \in Nat \ {0}
         /\ \A k \in 1 .. m : b[k].at = b[1].at + k - 1 /\ b[k].len = b[1].len /\ b[k].bad = b[1].bad
         /\ n < m => c # <<>> /\ c[1].at = b[1].at + n /\ c[1].len = b[1].len /\ c[1].bad = b[1].bad
         /\ n = m /\ c # <<>> => c[1].at = 1
<1>1. /\ slave[id].fd # 0 /\ slave[id].read \in Nat /\ HeaderSize \in Nat
      /\ reading.buf \in Seq(Bytes) /\ Len(reading.buf) \in Nat \ {0}
  BY ReadingIs, SlaveIs, Ids, HarborAssumption DEF Fd
<1>2. /\ b \in Seq(Bytes) /\ c \in Seq(Bytes) /\ Len(reading.buf) <= Len(b)
      /\ \A k \in 1 .. Len(reading.buf) : b[k] = reading.buf[k]
      /\ Len(c) = Len(b) - n /\ \A k \in 1 .. Len(b) - n : c[k] = b[n + k]
      /\ Framed(b) => Framed(c)
  BY StreamMoves
<1>3. Len(b) \in Nat \ {0} /\ b # <<>> /\ b[1] \in Bytes
  BY <1>1, <1>2
<1>4. Framed(b) /\ Expected(slave[id], b[1])
  BY <1>1, <1>3 DEF Right, InStream
<1>5. b[1].at # 0 /\ b[1].at \in Nat
  BY <1>1, <1>3, <1>4 DEF Expected, Bytes
<1>6. /\ m \in Nat \ {0} /\ m <= Len(b)
      /\ \A k \in 1 .. m : b[k].at = b[1].at + k - 1 /\ b[k].len = b[1].len /\ b[k].bad = b[1].bad
      /\ m < Len(b) => b[m + 1].at = 1
  BY <1>2, <1>3, <1>4, <1>5, RunOn, ZenonT(30)
<1>7. ASSUME n < m PROVE c # <<>> /\ c[1].at = b[1].at + n /\ c[1].len = b[1].len /\ c[1].bad = b[1].bad
  <2>1. n + 1 \in 1 .. m /\ 1 \in 1 .. Len(b) - n
    BY <1>1, <1>3, <1>6, <1>7
  <2>2. c[1] = b[n + 1]
    BY <1>2, <2>1
  <2>3. Len(c) # 0
    BY <1>2, <1>3, <2>1
  <2>4. b[n + 1].at = b[1].at + (n + 1) - 1
    BY <1>6, <2>1
  <2>5. b[1].at + (n + 1) - 1 = b[1].at + n
    BY <1>1, <1>5
  <2>6. c # <<>>
    BY <1>2, <2>3
  <2> QED BY <1>6, <2>1, <2>2, <2>4, <2>5, <2>6
<1>8. ASSUME n = m, c # <<>> PROVE c[1].at = 1
  <2>1. Len(c) # 0
    BY <1>2, <1>8
  <2>2. 1 \in 1 .. Len(b) - n /\ m < Len(b)
    BY <1>1, <1>2, <1>3, <1>6, <1>8, <2>1
  <2> QED BY <1>2, <1>6, <1>8, <2>2
<1> QED BY <1>2, <1>3, <1>4, <1>6, <1>7, <1>8


\* The bytes in s->size once those of the buffer are there: one header.
LEMMA HeaderFilled ==
  ASSUME NEW s \in SlaveRecord, NEW buf \in Seq(Bytes), NEW x \in Bytes,
         \A k \in 1 .. HeaderSize : k <= s.read => s.size[k] \in Bytes,
         \A k \in 1 .. s.read : s.size[k].at = k /\ s.size[k].len = x.len /\ s.size[k].bad = x.bad,
         NEW n \in 1 .. Len(buf), s.read + n <= HeaderSize,
         \A k \in 1 .. n : buf[k].at = s.read + k /\ buf[k].len = x.len /\ buf[k].bad = x.bad
  PROVE  \A k \in 1 .. s.read + n : /\ Fill(s, buf)[k].at = k /\ Fill(s, buf)[k].len = x.len
                                    /\ Fill(s, buf)[k].bad = x.bad
<1> DEFINE l == Len(buf)
           a == s.read
<1>1. l \in Nat /\ a \in Nat /\ n \in 1 .. l /\ HeaderSize \in Nat /\ a + n <= HeaderSize
  BY HarborAssumption DEF SlaveRecord
<1>2. PICK f : f = Fill(s, buf)
  OBVIOUS
<1>3. /\ \A k \in 1 .. HeaderSize : k <= a => f[k] = s.size[k]
      /\ \A k \in 1 .. HeaderSize : k > a /\ k <= a + l => f[k] = buf[k - a]
  BY <1>2, FillIs
<1> SUFFICES ASSUME NEW k \in 1 .. a + n PROVE f[k].at = k /\ f[k].len = x.len /\ f[k].bad = x.bad
  BY <1>2
<1>4. \A j \in 1 .. a : s.size[j].at = j /\ s.size[j].len = x.len /\ s.size[j].bad = x.bad
  OBVIOUS
<1>5. \A j \in 1 .. n : buf[j].at = a + j /\ buf[j].len = x.len /\ buf[j].bad = x.bad
  OBVIOUS
<1> HIDE DEF a, l
<1>6. k \in 1 .. HeaderSize
  BY <1>1
<1>7. CASE k <= a
  <2>1. k \in 1 .. a
    BY <1>1, <1>7
  <2> QED BY <1>3, <1>4, <1>6, <1>7, <2>1
<1>8. CASE ~(k <= a)
  <2>1. k > a /\ k <= a + l /\ k - a \in 1 .. n /\ a + (k - a) = k
    BY <1>1, <1>8
  <2>2. f[k] = buf[k - a]
    BY <1>3, <1>6, <2>1
  <2> QED BY <1>5, <2>1, <2>2
<1> QED BY <1>7, <1>8

LEMMA HeaderStep ==
  ASSUME HarborInv, ReadHeader
  PROVE  Owners' /\ Streams'
<1>1. PICK id : id = reading.id
  OBVIOUS
<1>2. PICK s : s = slave[id]
  OBVIOUS
<1>3. /\ Base' /\ reading # None /\ s.status = "header"
      /\ UNCHANGED <<running, conns>> /\ torn \subseteq torn'
      /\ \A i \in Id \ {id} : slave'[i] = slave[i]
      /\ s.read < HeaderSize
      /\ \/ /\ slave'[id].fd = 0 /\ slave'[id].status = "down"
            /\ slave'[id].read = s.read
            /\ reading' = None /\ SocketClose({s.fd})
            /\ s.read # 0 => id \in torn'
         \/ /\ Len(reading.buf) < HeaderSize - s.read
            /\ slave'[id].fd = s.fd /\ slave'[id].status = "header"
            /\ slave'[id].read = s.read + Len(reading.buf)
            /\ slave'[id].size = Fill(s, reading.buf)
            /\ Consumes(Len(reading.buf)) /\ sock' = sock /\ torn' = torn
         \/ /\ Len(reading.buf) >= HeaderSize - s.read
            /\ slave'[id].fd = s.fd /\ slave'[id].status = "content"
            /\ slave'[id].read = 0
            /\ \E v \in Decode(Fill(s, reading.buf)) : ~v.bad /\ slave'[id].length = v.len
            /\ Consumes(HeaderSize - s.read) /\ sock' = sock /\ torn' = torn
  BY <1>1, <1>2, ReadHeaderBase DEF HarborInv
<1>4. /\ Base /\ Streams /\ id \in Remote /\ Len(reading.buf) \in Nat \ {0} /\ running /\ s.fd # 0
      /\ reading.buf \in Seq(Bytes) /\ s \in SlaveRecord /\ s.read \in Nat /\ HeaderSize \in Nat \ {0}
      /\ Counted(s) /\ id \in Id
  BY <1>1, <1>2, <1>3, ReadingIs, SlaveIs, HarborAssumption DEF HarborInv, Fd
<1>5. \A k \in 1 .. HeaderSize : k <= s.read => s.size[k] \in Bytes
  BY <1>4 DEF Counted
<1>6. CASE /\ slave'[id].fd = 0 /\ slave'[id].status = "down"
           /\ slave'[id].read = s.read
           /\ reading' = None /\ SocketClose({s.fd})
           /\ s.read # 0 => id \in torn'
  <2>1. ASSUME id \notin torn' PROVE Right(id)'
    BY <1>6, <2>1 DEF Right
  <2> QED BY <1>1, <1>2, <1>3, <1>4, <1>6, <2>1, OthersRight
<1>7. PICK b : b = Stream(id)
  OBVIOUS
<1>8. PICK c : c = Stream(id)'
  OBVIOUS
<1>9. PICK m : m = HeaderSize + b[1].len - b[1].at + 1
  OBVIOUS
<1>10. ASSUME NEW n \in 1 .. Len(reading.buf), n <= HeaderSize - s.read, Consumes(n), sock' = sock,
              torn' = torn, id \notin torn, slave'[id].fd = s.fd
       PROVE  /\ Framed(c) /\ b[1].at = s.read + 1 /\ b[1] \in Bytes /\ b[1].len \in Nat
              /\ m = HeaderSize + b[1].len - s.read /\ m \in Nat \ {0}
              /\ \A k \in 1 .. s.read + n : /\ Fill(s, reading.buf)[k].at = k
                                            /\ Fill(s, reading.buf)[k].len = b[1].len
                                            /\ Fill(s, reading.buf)[k].bad = b[1].bad
              /\ n < m => c # <<>> /\ c[1].at = s.read + 1 + n /\ c[1].len = b[1].len /\ c[1].bad = b[1].bad
  <2>1. Right(reading.id)
    BY <1>1, <1>4, <1>10, RightIs
  <2>2. /\ Framed(c) /\ b[1] \in Bytes /\ Expected(slave[id], b[1])
        /\ \A k \in 1 .. Len(reading.buf) : b[k] = reading.buf[k]
        /\ m \in Nat \ {0}
        /\ \A k \in 1 .. m : b[k].at = b[1].at + k - 1 /\ b[k].len = b[1].len /\ b[k].bad = b[1].bad
        /\ n < m => c # <<>> /\ c[1].at = b[1].at + n /\ c[1].len = b[1].len /\ c[1].bad = b[1].bad
    <3>1. slave[id].status \in {"header", "content"} /\ slave'[id].fd = slave[id].fd
      BY <1>2, <1>3, <1>10
    <3> QED BY <1>1, <1>3, <1>4, <1>7, <1>8, <1>9, <1>10, <2>1, <3>1, TakeBytes
  <2>3. /\ b[1].at = s.read + 1
        /\ \A k \in 1 .. s.read : s.size[k].at = k /\ s.size[k].len = b[1].len /\ s.size[k].bad = b[1].bad
    BY <1>2, <1>3, <2>2 DEF Expected
  <2>4. b[1].len \in Nat /\ n \in Nat
    <3>1. {0} \cup Lengths \subseteq Nat
      BY HarborAssumption
    <3> QED BY <2>2, <3>1, <1>4 DEF Bytes
  <2>5. m = HeaderSize + b[1].len - s.read /\ n <= m
    <3>1. PICK l \in Nat : l = b[1].len
      BY <2>4
    <3>2. m = HeaderSize + l - (s.read + 1) + 1
      BY <1>9, <2>3, <3>1
    <3>3. m = HeaderSize + l - s.read
      BY <1>4, <3>2
    <3>4. n <= m
      BY <1>4, <1>10, <2>4, <3>3
    <3> QED BY <3>1, <3>3, <3>4
  <2>6. ASSUME NEW k \in 1 .. n
        PROVE reading.buf[k].at = s.read + k /\ reading.buf[k].len = b[1].len /\ reading.buf[k].bad = b[1].bad
    <3>1. k \in 1 .. m /\ k \in 1 .. Len(reading.buf)
      BY <1>4, <2>2, <2>4, <2>5
    <3>2. b[k] = reading.buf[k] /\ b[k].at = b[1].at + k - 1 /\ b[k].len = b[1].len /\ b[k].bad = b[1].bad
      BY <2>2, <3>1
    <3>3. b[1].at + k - 1 = s.read + k
      BY <1>4, <2>3
    <3> QED BY <3>2, <3>3
  <2>7. s.read + n <= HeaderSize
    BY <1>4, <1>10, <2>4
  <2>8. PICK x \in Bytes : x = b[1]
    BY <2>2
  <2>9. \A k \in 1 .. s.read + n : /\ Fill(s, reading.buf)[k].at = k
                                   /\ Fill(s, reading.buf)[k].len = x.len
                                   /\ Fill(s, reading.buf)[k].bad = x.bad
    <3>1. \A k \in 1 .. s.read : s.size[k].at = k /\ s.size[k].len = x.len /\ s.size[k].bad = x.bad
      BY <2>3, <2>8
    <3>2. \A k \in 1 .. n : reading.buf[k].at = s.read + k /\ reading.buf[k].len = x.len /\ reading.buf[k].bad = x.bad
      BY <2>6, <2>8
    <3>3. PICK buf \in Seq(Bytes) : buf = reading.buf
      BY <1>4
    <3>4. n \in 1 .. Len(buf) /\ \A k \in 1 .. n : buf[k].at = s.read + k /\ buf[k].len = x.len /\ buf[k].bad = x.bad
      BY <1>10, <3>2, <3>3
    <3>5. \A k \in 1 .. s.read + n : /\ Fill(s, buf)[k].at = k /\ Fill(s, buf)[k].len = x.len
                                     /\ Fill(s, buf)[k].bad = x.bad
      BY <1>4, <1>5, <2>7, <3>1, <3>4, HeaderFilled, ZenonT(60)
    <3> QED BY <3>3, <3>5
  <2> QED BY <2>2, <2>3, <2>4, <2>5, <2>8, <2>9
<1>11. CASE /\ Len(reading.buf) < HeaderSize - s.read
            /\ slave'[id].fd = s.fd /\ slave'[id].status = "header"
            /\ slave'[id].read = s.read + Len(reading.buf)
            /\ slave'[id].size = Fill(s, reading.buf)
            /\ Consumes(Len(reading.buf)) /\ sock' = sock /\ torn' = torn
  <2>1. PICK n \in 1 .. Len(reading.buf) : n = Len(reading.buf)
    BY <1>4
  <2>0. n <= HeaderSize - s.read /\ n < HeaderSize - s.read /\ Consumes(n)
    BY <1>4, <1>11, <2>1
  <2>2. ASSUME id \notin torn' PROVE Right(id)'
    <3>1. /\ Framed(c) /\ b[1].at = s.read + 1 /\ b[1].len \in Nat
          /\ m = HeaderSize + b[1].len - s.read
          /\ \A k \in 1 .. s.read + n : /\ Fill(s, reading.buf)[k].at = k
                                        /\ Fill(s, reading.buf)[k].len = b[1].len
                                        /\ Fill(s, reading.buf)[k].bad = b[1].bad
          /\ n < m => c # <<>> /\ c[1].at = s.read + 1 + n /\ c[1].len = b[1].len /\ c[1].bad = b[1].bad
      BY <1>10, <1>11, <2>0, <2>2
    <3>2. n < m
      BY <1>4, <2>0, <3>1
    <3>3. s.read + 1 + n = s.read + n + 1 /\ slave'[id].read = s.read + n
      BY <1>4, <1>11, <2>1
    <3>4. c # <<>> /\ Expected(slave'[id], c[1])
      BY <1>11, <3>1, <3>2, <3>3 DEF Expected
    <3>5. InStream(id)'
      BY <1>8, <3>1, <3>4, InStreamNext
    <3> QED BY <1>11, <3>5 DEF Right
  <2>3. reading' = None \/ reading'.id = reading.id
    BY <1>1, <1>2, <1>3, <1>4, <1>11, <2>0, StreamMoves
  <2> QED BY <1>1, <1>2, <1>3, <1>4, <1>11, <2>2, <2>3, OthersRight
<1>12. CASE /\ Len(reading.buf) >= HeaderSize - s.read
            /\ slave'[id].fd = s.fd /\ slave'[id].status = "content"
            /\ slave'[id].read = 0
            /\ \E v \in Decode(Fill(s, reading.buf)) : ~v.bad /\ slave'[id].length = v.len
            /\ Consumes(HeaderSize - s.read) /\ sock' = sock /\ torn' = torn
  <2>1. PICK n \in 1 .. Len(reading.buf) : n = HeaderSize - s.read
    BY <1>3, <1>4, <1>12
  <2>0. n <= HeaderSize - s.read /\ Consumes(n) /\ s.read + n = HeaderSize
    BY <1>4, <1>12, <2>1
  <2>2. ASSUME id \notin torn' PROVE Right(id)'
    <3>1. /\ Framed(c) /\ b[1].at = s.read + 1 /\ b[1] \in Bytes /\ b[1].len \in Nat
          /\ m = HeaderSize + b[1].len - s.read
          /\ \A k \in 1 .. s.read + n : /\ Fill(s, reading.buf)[k].at = k
                                        /\ Fill(s, reading.buf)[k].len = b[1].len
                                        /\ Fill(s, reading.buf)[k].bad = b[1].bad
          /\ n < m => c # <<>> /\ c[1].at = s.read + 1 + n /\ c[1].len = b[1].len /\ c[1].bad = b[1].bad
      BY <1>10, <1>12, <2>0, <2>2
    <3>2. PICK z : z = Fill(s, reading.buf)
      OBVIOUS
    <3>3. \A k \in 1 .. HeaderSize : z[k].at = k /\ z[k].len = b[1].len /\ z[k].bad = b[1].bad
      BY <2>0, <3>1, <3>2
    <3>4. 1 \in 1 .. HeaderSize
      BY <1>4
    <3>5. z[1].len = b[1].len /\ z[1].bad = b[1].bad
      BY <3>3, <3>4
    <3>6. Decode(z) = {[bad |-> z[1].bad, len |-> z[1].len]}
      <4>1. \A k \in 1 .. HeaderSize : z[k].at = k /\ z[k].len = z[1].len
        BY <3>3, <3>5
      <4> QED BY <4>1 DEF Decode
    <3>7. PICK v \in Decode(z) : ~v.bad /\ slave'[id].length = v.len
      BY <1>12, <3>2
    <3>8. ~b[1].bad /\ slave'[id].length = b[1].len
      BY <3>5, <3>6, <3>7
    <3>9. b[1].len \in Nat \ {0}
      <4>1. b[1].len \in Lengths
        BY <1>4, <3>1, <3>8 DEF Bytes
      <4> QED BY <4>1, HarborAssumption
    <3>10. n < m
      BY <1>4, <2>1, <3>1, <3>9
    <3>11. s.read + 1 + n = HeaderSize + 0 + 1
      BY <1>4, <2>1
    <3>12. c # <<>> /\ Expected(slave'[id], c[1])
      BY <1>12, <3>1, <3>8, <3>10, <3>11 DEF Expected
    <3>13. InStream(id)'
      BY <1>8, <3>1, <3>12, InStreamNext
    <3> QED BY <1>12, <3>13 DEF Right
  <2>3. reading' = None \/ reading'.id = reading.id
    BY <1>1, <1>2, <1>3, <1>4, <1>12, <2>0, StreamMoves
  <2> QED BY <1>1, <1>2, <1>3, <1>4, <1>12, <2>2, <2>3, OthersRight
<1> QED BY <1>3, <1>6, <1>11, <1>12

LEMMA ContentStep ==
  ASSUME HarborInv, ReadContent
  PROVE  Owners' /\ Streams'
<1>1. PICK id : id = reading.id
  OBVIOUS
<1>2. PICK s : s = slave[id]
  OBVIOUS
<1>3. /\ Base' /\ reading # None /\ s.status = "content"
      /\ UNCHANGED <<running, conns, torn, sock>>
      /\ \A i \in Id \ {id} : slave'[i] = slave[i]
      /\ slave'[id].fd = s.fd /\ s.read < s.length
      /\ \/ /\ Len(reading.buf) < s.length - s.read
            /\ slave'[id].status = "content"
            /\ slave'[id].read = s.read + Len(reading.buf)
            /\ slave'[id].length = s.length
            /\ Consumes(Len(reading.buf))
         \/ /\ Len(reading.buf) >= s.length - s.read
            /\ slave'[id].status = "header" /\ slave'[id].read = 0
            /\ Consumes(s.length - s.read)
  BY <1>1, <1>2, ReadContentBase DEF HarborInv
<1>4. /\ Base /\ Streams /\ id \in Remote /\ Len(reading.buf) \in Nat \ {0} /\ running /\ s.fd # 0
      /\ reading.buf \in Seq(Bytes) /\ s \in SlaveRecord /\ s.read \in Nat /\ HeaderSize \in Nat \ {0}
      /\ s.length \in Nat
  <2>1. {0} \cup Lengths \subseteq Nat /\ HeaderSize \in Nat \ {0}
    BY HarborAssumption
  <2> QED BY <1>1, <1>2, <1>3, <2>1, ReadingIs, SlaveIs DEF HarborInv, Fd
<1>7. PICK b : b = Stream(id)
  OBVIOUS
<1>8. PICK c : c = Stream(id)'
  OBVIOUS
<1>9. PICK m : m = HeaderSize + b[1].len - b[1].at + 1
  OBVIOUS
<1>10. ASSUME NEW n \in 1 .. Len(reading.buf), Consumes(n), id \notin torn
       PROVE  /\ Framed(c) /\ m = s.length - s.read
              /\ n < m => /\ c # <<>> /\ c[1].at = HeaderSize + s.read + 1 + n /\ c[1].len = s.length
                          /\ ~c[1].bad
              /\ n = m /\ c # <<>> => c[1].at = 1
  <2>1. Right(reading.id)
    BY <1>1, <1>4, <1>10, RightIs
  <2>2. /\ Framed(c) /\ b[1] \in Bytes /\ Expected(slave[id], b[1])
        /\ n < m => c # <<>> /\ c[1].at = b[1].at + n /\ c[1].len = b[1].len /\ c[1].bad = b[1].bad
        /\ n = m /\ c # <<>> => c[1].at = 1
    <3>1. /\ slave[id].status \in {"header", "content"} /\ slave'[id].fd = slave[id].fd /\ sock' = sock
          /\ Base /\ Base' /\ reading # None
      BY <1>2, <1>3, <1>4
    <3> QED BY <1>1, <1>4, <1>7, <1>8, <1>9, <1>10, <2>1, <3>1, TakeBytes
  <2>3. b[1].at = HeaderSize + s.read + 1 /\ b[1].len = s.length /\ ~b[1].bad
    BY <1>2, <1>3, <2>2 DEF Expected
  <2>4. m = s.length - s.read
    BY <1>4, <1>9, <2>3
  <2> QED BY <2>2, <2>3, <2>4
<1>11. CASE /\ Len(reading.buf) < s.length - s.read
            /\ slave'[id].status = "content"
            /\ slave'[id].read = s.read + Len(reading.buf)
            /\ slave'[id].length = s.length
            /\ Consumes(Len(reading.buf))
  <2>1. PICK n \in 1 .. Len(reading.buf) : n = Len(reading.buf)
    BY <1>4
  <2>2. ASSUME id \notin torn' PROVE Right(id)'
    <3>1. /\ Framed(c) /\ m = s.length - s.read
          /\ n < m => c # <<>> /\ c[1].at = HeaderSize + s.read + 1 + n /\ c[1].len = s.length /\ ~c[1].bad
      BY <1>3, <1>10, <1>11, <2>1, <2>2
    <3>2. n < m
      BY <1>11, <2>1, <3>1
    <3>3. HeaderSize + s.read + 1 + n = HeaderSize + slave'[id].read + 1
      BY <1>4, <1>11, <2>1
    <3>4. c # <<>> /\ Expected(slave'[id], c[1])
      BY <1>11, <3>1, <3>2, <3>3 DEF Expected
    <3>5. InStream(id)'
      BY <1>8, <3>1, <3>4, InStreamNext
    <3> QED BY <1>11, <3>5 DEF Right
  <2>3. reading' = None \/ reading'.id = reading.id
    BY <1>1, <1>2, <1>3, <1>4, <1>11, <2>1, StreamMoves
  <2> QED BY <1>1, <1>2, <1>3, <1>4, <1>11, <2>2, <2>3, OthersRight
<1>12. CASE /\ Len(reading.buf) >= s.length - s.read
            /\ slave'[id].status = "header" /\ slave'[id].read = 0
            /\ Consumes(s.length - s.read)
  <2>1. PICK n \in 1 .. Len(reading.buf) : n = s.length - s.read
    BY <1>3, <1>4, <1>12
  <2>2. ASSUME id \notin torn' PROVE Right(id)'
    <3>1. /\ Framed(c) /\ m = s.length - s.read
          /\ n = m /\ c # <<>> => c[1].at = 1
      BY <1>3, <1>10, <1>12, <2>1, <2>2
    <3>2. c # <<>> => c[1].at = 0 + 1
      BY <2>1, <3>1
    <3>3. c # <<>> => Expected(slave'[id], c[1])
      BY <1>12, <3>2 DEF Expected
    <3>4. InStream(id)'
      BY <1>8, <1>12, <3>1, <3>3, InStreamNext
    <3> QED BY <1>12, <3>4 DEF Right
  <2>3. reading' = None \/ reading'.id = reading.id
    BY <1>1, <1>2, <1>3, <1>4, <1>12, <2>1, StreamMoves
  <2> QED BY <1>1, <1>2, <1>3, <1>4, <1>12, <2>2, <2>3, OthersRight
<1> QED BY <1>3, <1>11, <1>12


(***************************************************************************)
(* The other steps, on the connections.                                    *)
(***************************************************************************)
\* The slaves stay as they are, and of the sockets only fd changes: the
\* slaves of the other connections keep what they had.
LEMMA SocketStep ==
  ASSUME HarborInv, slave' = slave, UNCHANGED <<running, torn, conns>>, NEW fd \in Fd,
         \A f \in Fd \ {fd} : sock'[f] = sock[f],
         \A i \in Remote : slave[i].fd # fd => Buf(i)' = Buf(i),
         \A i \in Remote : slave[i].fd = fd /\ i \notin torn => InStream(i)'
  PROVE  Owners' /\ Streams'
<1>1. Owners'
  <2>1. conns \in Nat
    BY DEF HarborInv, Base, Types
  <2> QED BY <2>1, OwnersKept DEF HarborInv
<1>2. ASSUME NEW i \in Remote, i \notin torn' PROVE Right(i)'
  <2>1. Right(i)
    BY <1>2, RightIs DEF HarborInv
  <2>2. CASE slave[i].fd = fd
    <3>1. InStream(i)'
      BY <1>2, <2>2
    <3> QED BY <2>1, <3>1 DEF Right
  <2>3. CASE slave[i].fd # fd
    <3>1. slave[i].fd # 0 => sock'[slave[i].fd] = sock[slave[i].fd]
      BY <2>3, StreamIs DEF HarborInv
    <3>2. Buf(i)' = Buf(i)
      BY <2>3
    <3> QED BY <2>1, <3>1, <3>2, RightKept
  <2> QED BY <2>2, <2>3
<1> QED BY <1>1, <1>2, StreamsNext

LEMMA DataStep ==
  ASSUME HarborInv, NEW fd \in Fd, Data(fd)
  PROVE  Owners' /\ Streams'
<1>1. /\ Base' /\ slave' = slave /\ \A f \in Fd \ {fd} : sock'[f] = sock[f]
      /\ UNCHANGED <<running, torn, conns>> /\ reading = None
  BY DataBase DEF HarborInv, Data, Idle, history
<1>2. PICK k \in 1 .. Len(sock[fd].wire) :
              /\ sock'[fd].wire = SubSeq(sock[fd].wire, k + 1, Len(sock[fd].wire))
              /\ sock'[fd].link = sock[fd].link
              /\ reading' = IF harbor_id(fd) = 0 THEN None
                            ELSE [id |-> harbor_id(fd), buf |-> SubSeq(sock[fd].wire, 1, k)]
  BY DataBase DEF HarborInv
<1>3. PICK h : h = harbor_id(fd)
  OBVIOUS
<1>4. /\ h # 0 => h \in Remote /\ slave[h].fd = fd
      /\ \A i \in Remote : slave[i].fd = fd => h = i
      /\ fd # 0 /\ 0 \notin Remote
  BY <1>3, HarborIdIs, HarborAssumption DEF HarborInv, Fd
<1>5. PICK w \in Seq(Bytes) : w = sock[fd].wire
  BY DEF HarborInv, Base, Types, SockRecord
<1>6. PICK p, u : p = SubSeq(w, 1, k) /\ u = SubSeq(w, k + 1, Len(w))
  OBVIOUS
<1>7. reading' = IF h = 0 THEN None ELSE [id |-> h, buf |-> p]
  BY <1>2, <1>3, <1>5, <1>6
<1>8. p \o u = w
  <2>1. k \in 1 .. Len(w)
    BY <1>2, <1>5
  <2> DEFINE l == Len(w)
  <2>2. l \in Nat /\ k \in 1 .. l /\ k \in 0 .. l
    BY <2>1
  <2>3. p \in Seq(Bytes) /\ Len(p) = k /\ \A j \in 1 .. k : p[j] = w[j]
    BY <1>5, <1>6, <2>1, PrefixTyped
  <2>4. u \in Seq(Bytes) /\ Len(u) = l - k /\ \A j \in 1 .. l - k : u[j] = w[k + j]
    BY <1>5, <1>6, <2>2, SuffixTyped
  <2>5. PICK c : c = p \o u
    OBVIOUS
  <2>6. c \in Seq(Bytes) /\ Len(c) = k + (l - k) /\ \A j \in 1 .. k + (l - k) : c[j] = IF j <= k THEN p[j] ELSE u[j - k]
    <3>1. /\ p \o u \in Seq(Bytes) /\ Len(p \o u) = Len(p) + Len(u)
          /\ \A j \in 1 .. Len(p) + Len(u) : (p \o u)[j] = IF j <= Len(p) THEN p[j] ELSE u[j - Len(p)]
      BY <2>3, <2>4, ConcatProperties
    <3> HIDE DEF l
    <3> QED BY <2>3, <2>4, <2>5, <3>1
  <2>8. w \in Seq(Bytes) /\ Len(w) = l
    BY <1>5
  <2> HIDE DEF l
  <2>7. ASSUME NEW j \in 1 .. l PROVE c[j] = w[j]
    <3>1. j \in 1 .. k + (l - k)
      BY <2>2
    <3>2. CASE j <= k
      <4>1. j \in 1 .. k
        BY <2>2, <3>2
      <4> QED BY <2>3, <2>6, <3>1, <3>2, <4>1
    <3>3. CASE ~(j <= k)
      <4>1. j - k \in 1 .. l - k /\ k + (j - k) = j
        BY <2>2, <3>3
      <4>2. c[j] = u[j - k] /\ u[j - k] = w[k + (j - k)]
        BY <2>4, <2>6, <3>1, <3>3, <4>1
      <4> QED BY <4>1, <4>2
    <3> QED BY <3>2, <3>3
  <2>9. Len(c) = l
    BY <2>2, <2>6
  <2>10. c = w
    BY <2>6, <2>7, <2>8, <2>9, SeqEqual
  <2> QED BY <2>5, <2>10
<1>9. ASSUME NEW i \in Remote, slave[i].fd = fd, i \notin torn PROVE InStream(i)'
  <2>1. h = i /\ h # 0
    BY <1>4, <1>9
  <2>2. Stream(i) = <<>> \o w
    BY <1>1, <1>5, <1>9 DEF Stream
  <2>3. Stream(i) = w
    BY <1>5, <2>2
  <2>4. reading' = [id |-> h, buf |-> p]
    BY <1>7, <2>1
  <2>5. reading' # None
    <3>1. reading' \in {None} \cup [id : Remote, buf : Seq(Bytes)] /\ [id |-> h, buf |-> p] = reading'
      BY <1>1, <2>4 DEF Base, Types
    <3>2. p \in Seq(Byte)
      <4>1. Bytes \subseteq Byte
        <5>1. \A x \in {0} \cup Lengths : x \in Nat
          BY HarborAssumption
        <5>2. [at : Nat, len : {0} \cup Lengths, bad : BOOLEAN] \subseteq Byte
          BY <5>1 DEF Byte
        <5> QED BY <5>2 DEF Bytes
      <4>2. p \in Seq(Bytes)
        BY <1>2, <1>5, <1>6, PrefixTyped
      <4> QED BY <4>1, <4>2, SeqMonotonic
    <3>3. reading' \in [id : Remote, buf : Seq(Byte)]
      BY <2>1, <2>4, <3>2
    <3> QED BY <3>3, NullAssumption
  <2>6. Stream(i)' = (IF reading' # None /\ reading'.id = i THEN reading'.buf ELSE <<>>) \o sock'[slave'[i].fd].wire
    BY DEF Stream
  <2>7. reading'.id = i /\ reading'.buf = p
    BY <2>1, <2>4
  <2>8. sock'[slave'[i].fd].wire = u
    BY <1>1, <1>2, <1>5, <1>6, <1>9
  <2>9. Stream(i)' = p \o u
    BY <2>5, <2>6, <2>7, <2>8
  <2>10. Stream(i)' = w
    BY <1>8, <2>9
  <2>11. InStream(i)
    BY <1>4, <1>9 DEF HarborInv, Streams
  <2>12. sock'[slave'[i].fd].link = sock[slave[i].fd].link
    BY <1>1, <1>2, <1>9
  <2> QED BY <1>1, <2>3, <2>10, <2>11, <2>12 DEF InStream
<1>10. ASSUME NEW i \in Remote, slave[i].fd # fd PROVE Buf(i)' = Buf(i)
  <2>1. h = 0 \/ h # i
    BY <1>4, <1>10
  <2>2. reading' = None \/ reading'.id # i
    BY <1>7, <2>1
  <2> QED BY <1>1, <2>2 DEF Buf
<1> QED BY <1>1, <1>9, <1>10, SocketStep

LEMMA SocketClosedStep ==
  ASSUME HarborInv, NEW fd \in Fd, SocketClosed(fd)
  PROVE  Owners' /\ Streams'
<1>1. /\ Base' /\ slave' = slave /\ UNCHANGED <<reading, running, torn, conns>>
      /\ sock'[fd] = [link |-> "closed", wire |-> <<>>]
      /\ \A f \in Fd \ {fd} : sock'[f] = sock[f]
      /\ reading = None
  BY SocketClosedBase DEF HarborInv, SocketClosed, Idle
<1>2. ASSUME NEW i \in Remote, slave[i].fd = fd PROVE InStream(i)'
  <2>1. Stream(i)' = <<>> \o sock'[fd].wire
    BY <1>1, <1>2 DEF Stream
  <2>2. Stream(i)' = <<>> /\ sock'[slave'[i].fd].link # "open"
    BY <1>1, <1>2, <2>1
  <2>3. Framed(<<>>)
    BY DEF Framed
  <2> QED BY <2>2, <2>3 DEF InStream
<1>3. \A i \in Remote : Buf(i)' = Buf(i)
  BY <1>1 DEF Buf
<1> QED BY <1>1, <1>2, <1>3, SocketStep

LEMMA PeerSendStep ==
  ASSUME HarborInv, NEW fd \in Fd, PeerSend(fd)
  PROVE  Owners' /\ Streams'
<1>1. /\ Base' /\ slave' = slave /\ UNCHANGED <<running, torn, conns>> /\ reading = None /\ reading' = None
      /\ sock[fd].link = "open" /\ sock'[fd].link = "open"
      /\ \A f \in Fd \ {fd} : sock'[f] = sock[f]
  BY PeerSendBase DEF HarborInv
<1>2. PICK bytes \in {Frame(len) : len \in Lengths} \cup {LongHeader} :
        bytes \in Seq(Bytes) /\ sock'[fd].wire = sock[fd].wire \o bytes
  BY PeerSendBase DEF HarborInv
<1>3. bytes \in Seq(Bytes) /\ Framed(bytes) /\ bytes # <<>> /\ bytes[1].at = 1
  BY <1>2, FramesFramed
<1>4. PICK w \in Seq(Bytes) : w = sock[fd].wire
  BY DEF HarborInv, Base, Types, SockRecord
<1>5. ASSUME NEW i \in Remote, slave[i].fd = fd, i \notin torn PROVE InStream(i)'
  <2>1. Stream(i) = <<>> \o w
    BY <1>1, <1>4, <1>5 DEF Stream
  <2>2. Stream(i) = w
    BY <1>4, <2>1
  <2>3. Stream(i)' = <<>> \o (w \o bytes)
    BY <1>1, <1>2, <1>4, <1>5 DEF Stream
  <2>4. InStream(i)
    BY <1>5 DEF HarborInv, Streams, Fd
  <2>5. /\ Framed(w) /\ w # <<>> => Expected(slave[i], w[1])
        /\ w = <<>> => slave[i].status = "header" /\ slave[i].read = 0
    BY <1>1, <1>5, <2>2, <2>4 DEF InStream
  <2>6. Framed(w)
    BY <2>2, <2>4 DEF InStream
  <2>7. PICK c : c = w \o bytes
    OBVIOUS
  <2>8. Framed(c) /\ c \in Seq(Bytes) /\ c # <<>> /\ c[1] = IF w = <<>> THEN bytes[1] ELSE w[1]
    BY <1>3, <2>6, <2>7, FramedMore
  <2>9. Stream(i)' = c
    BY <2>3, <2>7, <2>8
  <2>10. Expected(slave'[i], c[1])
    <3>1. CASE w = <<>>
      BY <1>1, <1>3, <2>5, <2>8, <3>1 DEF Expected
    <3>2. CASE w # <<>>
      BY <1>1, <2>5, <2>6, <2>8, <3>2
    <3> QED BY <3>1, <3>2
  <2> QED BY <2>8, <2>9, <2>10, InStreamNext
<1>6. \A i \in Remote : Buf(i)' = Buf(i)
  BY <1>1 DEF Buf
<1> QED BY <1>1, <1>5, <1>6, SocketStep

LEMMA PeerCloseStep ==
  ASSUME HarborInv, NEW fd \in Fd, PeerClose(fd)
  PROVE  Owners' /\ Streams'
<1>1. /\ Base' /\ slave' = slave /\ UNCHANGED <<reading, running, torn, conns>>
      /\ sock'[fd].link = "ended" /\ sock'[fd].wire = sock[fd].wire
      /\ \A f \in Fd \ {fd} : sock'[f] = sock[f]
  BY PeerCloseBase DEF HarborInv
<1>2. \A i \in Remote : Buf(i)' = Buf(i)
  BY <1>1 DEF Buf
<1>3. ASSUME NEW i \in Remote, slave[i].fd = fd, i \notin torn PROVE InStream(i)'
  <2>1. Right(i) /\ slave[i].fd # 0
    BY <1>3, RightIs DEF HarborInv, Fd
  <2>2. Right(i)'
    BY <1>1, <1>2, <1>3, <2>1, RightKept
  <2> QED BY <1>1, <2>1, <2>2 DEF Right
<1> QED BY <1>1, <1>2, <1>3, SocketStep

\* A new connection.
LEMMA NewConnection ==
  ASSUME HarborInv, Base', NEW id \in Remote, NEW w \in Seq(Bytes), NewSocket(w),
         reading = None, UNCHANGED <<reading, running, torn>>,
         slave'[id].fd = conns', \A i \in Id \ {id} : slave'[i] = slave[i],
         slave'[id].status \in {"handshake", "header"},
         slave[id].status \notin {"header", "content"}, running, slave'[id].read = slave[id].read,
         slave[id].read = 0 =>
           Framed(w) /\ (w # <<>> => Expected(slave'[id], w[1])) /\ (w = <<>> => slave'[id].status = "header")
  PROVE  Owners' /\ Streams'
<1>1. /\ conns' = conns + 1 /\ conns' \in 1 .. MaxFd
      /\ sock'[conns'] = [link |-> "open", wire |-> w]
      /\ \A fd \in Fd \ {conns'} : sock'[fd] = sock[fd]
  BY NewSocketTyped DEF HarborInv
<1>2. conns \in Nat /\ Owners
  BY DEF HarborInv, Base, Types
<1>3. \A i \in Remote \ {id} : slave'[i] = slave[i] /\ slave[i].fd <= conns /\ slave[i].fd \in Nat
  <2>1. \A i \in Remote : slave[i].fd \in Nat
    BY Ids, SlaveIs DEF HarborInv
  <2> QED BY <1>2, <2>1, Ids DEF Owners
<1>4. Owners'
  <2>1. ASSUME NEW i \in Remote PROVE slave'[i].fd <= conns'
    <3>1. CASE i = id
      BY <1>1, <1>2, <3>1
    <3>2. CASE i # id
      BY <1>1, <1>2, <1>3, <3>2
    <3> QED BY <3>1, <3>2
  <2>2. ASSUME NEW i \in Remote, NEW j \in Remote, slave'[i].fd = slave'[j].fd, slave'[i].fd # 0
        PROVE  i = j
    <3>1. CASE i # id /\ j # id
      BY <1>2, <1>3, <2>2, <3>1 DEF Owners
    <3>2. CASE i = id /\ j # id
      BY <1>1, <1>2, <1>3, <2>2, <3>2
    <3>3. CASE i # id /\ j = id
      BY <1>1, <1>2, <1>3, <2>2, <3>3
    <3> QED BY <3>1, <3>2, <3>3
  <2> QED BY <2>1, <2>2 DEF Owners
<1>5. ASSUME NEW i \in Remote, i \notin torn' PROVE Right(i)'
  <2>0. Right(i)
    BY <1>5, RightIs DEF HarborInv
  <2>1. CASE i # id
    <3>1. Buf(i)' = Buf(i)
      BY DEF Buf
    <3>2. ASSUME slave[i].fd # 0 PROVE sock'[slave[i].fd] = sock[slave[i].fd]
      <4>1. slave[i].fd \in Fd
        BY <3>2, StreamIs DEF HarborInv
      <4>2. slave[i].fd # conns'
        BY <1>1, <1>2, <1>3, <2>1
      <4> QED BY <1>1, <4>1, <4>2
    <3> QED BY <1>3, <2>0, <2>1, <3>1, <3>2, RightKept
  <2>2. CASE i = id
    <3>1. slave[id].read = 0
      BY <2>0, <2>2 DEF Right
    <3>2. Stream(id)' = <<>> \o w
      BY <1>1 DEF Stream
    <3>3. w = Stream(id)'
      BY <3>2
    <3>4. InStream(id)'
      BY <3>1, <3>3, InStreamNext
    <3> QED BY <2>2, <3>1, <3>4 DEF Right
  <2> QED BY <2>1, <2>2
<1> QED BY <1>4, <1>5, StreamsNext

LEMMA ConnectStep ==
  ASSUME HarborInv, NEW id \in Remote, Connect(id)
  PROVE  Owners' /\ Streams'
<1>1. /\ Base'
      /\ slave'[id].fd = conns' /\ slave'[id].status = "handshake" /\ slave'[id].read = slave[id].read
      /\ \A i \in Id \ {id} : slave'[i] = slave[i]
  BY ConnectBase DEF HarborInv
<1>2. PICK bad \in BOOLEAN : IdByte(bad) \in Bytes /\ NewSocket(<<IdByte(bad)>>)
  BY ConnectBase DEF HarborInv
<1>3. reading = None /\ running /\ UNCHANGED <<reading, running, torn>> /\ slave[id].fd = 0
  BY DEF Connect, Idle
<1>4. slave[id].status \in {"wait", "down"}
  BY <1>3, Ids, SlaveIs DEF HarborInv, Kept
<1>5. PICK w : w = <<IdByte(bad)>>
  OBVIOUS
<1>6. w \in Seq(Bytes) /\ Len(w) = 1 /\ w[1] = IdByte(bad) /\ w # <<>>
  BY <1>2, <1>5
<1>7. IdByte(bad).at = 0
  BY DEF IdByte
<1>8. Framed(w) /\ Expected(slave'[id], w[1])
  BY <1>1, <1>6, <1>7 DEF Framed, End, Expected
<1> QED BY <1>1, <1>2, <1>3, <1>4, <1>5, <1>6, <1>8, NewConnection

LEMMA AcceptStep ==
  ASSUME HarborInv, NEW id \in Remote, Accept(id)
  PROVE  Owners' /\ Streams'
<1>1. /\ Base'
      /\ slave'[id].fd = conns' /\ slave'[id].status = "header" /\ slave'[id].read = slave[id].read
      /\ \A i \in Id \ {id} : slave'[i] = slave[i]
  BY AcceptBase DEF HarborInv
<1>2. PICK w : w = <<>>
  OBVIOUS
<1>3. /\ reading = None /\ running /\ UNCHANGED <<reading, running, torn>> /\ slave[id].fd = 0
      /\ NewSocket(w) /\ w \in Seq(Bytes)
  BY <1>2 DEF Accept, Idle
<1>4. slave[id].status \in {"wait", "down"}
  BY <1>3, Ids, SlaveIs DEF HarborInv, Kept
<1>5. Framed(w)
  BY <1>2 DEF Framed
<1> QED BY <1>1, <1>2, <1>3, <1>4, <1>5, NewConnection

LEMMA ReleaseStep ==
  ASSUME HarborInv, harbor_release
  PROVE  Owners' /\ Streams'
<1>1. ~running' /\ UNCHANGED <<torn, conns>> /\ \A i \in Id : slave'[i].fd = 0
  BY ReleaseBase DEF HarborInv
<1>2. conns \in Nat /\ Owners
  BY DEF HarborInv, Base, Types
<1>3. Owners'
  BY <1>1, <1>2, OwnersKept, Ids
<1>4. \A i \in Remote : Right(i)'
  BY <1>1, Ids DEF Right
<1> QED BY <1>3, <1>4, StreamsNext

-----------------------------------------------------------------------------

LEMMA InitInv == Init => HarborInv
<1> SUFFICES ASSUME Init PROVE HarborInv
  OBVIOUS
<1>1. Base
  BY InitBase
<1>2. \A i \in Id : slave[i].fd = 0 /\ slave[i].read = 0
  BY DEF Init
<1>3. Owners
  BY <1>2, Ids DEF Init, Owners
<1>4. Streams
  BY <1>2, Ids DEF Streams
<1> QED BY <1>1, <1>3, <1>4 DEF HarborInv

LEMMA NextInv == HarborInv /\ [Next]_vars => HarborInv'
<1> SUFFICES ASSUME HarborInv, [Next]_vars PROVE HarborInv'
  OBVIOUS
<1>0. Base /\ Owners /\ Streams
  BY DEF HarborInv
<1>1. ASSUME NEW fd \in Fd, Data(fd) PROVE HarborInv'
  BY <1>0, <1>1, DataBase, DataStep DEF HarborInv
<1>2. ASSUME NEW fd \in Fd, SocketClosed(fd) PROVE HarborInv'
  BY <1>0, <1>2, SocketClosedBase, SocketClosedStep DEF HarborInv
<1>3. ASSUME NEW n \in Name, NEW value \in Handle, update_name(n, value) PROVE HarborInv'
  <2>1. UNCHANGED <<reading, running, torn, sock, conns>>
    BY <1>3 DEF update_name, env
  <2> QED BY <1>0, <1>3, <2>1, UpdateNameBase, QueueStep DEF HarborInv
<1>4. ASSUME NEW id \in Remote, Connect(id) PROVE HarborInv'
  BY <1>0, <1>4, ConnectBase, ConnectStep DEF HarborInv
<1>5. ASSUME NEW id \in Remote, Accept(id) PROVE HarborInv'
  BY <1>0, <1>5, AcceptBase, AcceptStep DEF HarborInv
<1>6. ASSUME NEW handle \in Handle, SendHandle(handle) PROVE HarborInv'
  <2>1. UNCHANGED <<reading, running, torn, sock, conns>>
    BY <1>6 DEF SendHandle, env
  <2> QED BY <1>0, <1>6, <2>1, SendHandleBase, QueueStep DEF HarborInv
<1>7. ASSUME NEW n \in Name, SendName(n) PROVE HarborInv'
  <2>1. UNCHANGED <<reading, running, torn, sock, conns>>
    BY <1>7 DEF SendName, env
  <2> QED BY <1>0, <1>7, <2>1, SendNameBase, QueueStep DEF HarborInv
<1>8. ASSUME push_socket_data PROVE HarborInv'
  <2>1. ASSUME ReadHandshake PROVE HarborInv'
    BY <1>0, <2>1, ReadHandshakeBase, HandshakeStep DEF HarborInv
  <2>2. ASSUME ReadHeader PROVE HarborInv'
    BY <1>0, <2>2, ReadHeaderBase, HeaderStep DEF HarborInv
  <2>3. ASSUME ReadContent PROVE HarborInv'
    BY <1>0, <2>3, ReadContentBase, ContentStep DEF HarborInv
  <2> QED BY <1>8, <2>1, <2>2, <2>3 DEF push_socket_data
<1>9. ASSUME harbor_release PROVE HarborInv'
  BY <1>0, <1>9, ReleaseBase, ReleaseStep DEF HarborInv
<1>10. ASSUME NEW fd \in Fd, PeerSend(fd) PROVE HarborInv'
  BY <1>0, <1>10, PeerSendBase, PeerSendStep DEF HarborInv
<1>11. ASSUME NEW fd \in Fd, PeerClose(fd) PROVE HarborInv'
  BY <1>0, <1>11, PeerCloseBase, PeerCloseStep DEF HarborInv
<1>12. ASSUME UNCHANGED vars PROVE HarborInv'
  <2>1. UNCHANGED <<slave, names, reading, running, sent, answered, dropped, asked, downs, torn, next, sock,
                    conns, frames>>
    BY <1>12 DEF vars, history, env
  <2>2. SameSlaves /\ slave' \in [Id -> SlaveRecord] /\ \A i \in Id : Counted(slave[i])' /\ Kept(i, slave'[i])
    BY <1>0, <2>1, SlavesUnchanged
  <2>3. Types'
    BY <1>0, <2>1 DEF Base, Types
  <2>4. KeptNames' /\ (reading' # None => running' /\ reading'.buf # <<>> /\ slave'[reading'.id].fd # 0)
    BY <1>0, <2>1, BaseIs DEF KeptNames
  <2>5. Base'
    BY <2>2, <2>3, <2>4, BaseNext
  <2> QED BY <2>1, <2>2, <2>5, QueueStep DEF HarborInv
<1> QED BY <1>1, <1>2, <1>3, <1>4, <1>5, <1>6, <1>7, <1>8, <1>9, <1>10, <1>11, <1>12
        DEF Next, mainloop, harbor_command

LEMMA InvAlways == Spec => []HarborInv
BY InitInv, NextInv, PTL DEF Spec

LEMMA InvTyped == HarborInv => TypeOK
<1> SUFFICES ASSUME HarborInv PROVE TypeOK
  OBVIOUS
<1>1. Base
  BY DEF HarborInv
<1>2. Bytes \subseteq Byte
  <2>1. \A x \in {0} \cup Lengths : x \in Nat
    BY HarborAssumption
  <2>2. [at : Nat, len : {0} \cup Lengths, bad : BOOLEAN] \subseteq Byte
    BY <2>1 DEF Byte
  <2> QED BY <2>2 DEF Bytes
<1>3. Seq(Bytes) \subseteq Seq(Byte)
  BY <1>2, SeqMonotonic
<1>4. \A q \in Queue : IsQueue(q)
  BY QueueIs DEF IsQueue
<1>5. ASSUME NEW i \in Id
      PROVE  /\ slave[i].fd \in 0..MaxFd
             /\ slave[i].status \in {"wait", "handshake", "header", "content", "down"}
             /\ slave[i].queue = None \/ IsQueue(slave[i].queue)
             /\ slave[i].read \in Nat
             /\ slave[i].read < HeaderSize \/ slave[i].read < slave[i].length
             /\ slave[i].length \in {0} \cup Lengths
             /\ slave[i].size \in [1..HeaderSize -> Byte \cup {None}]
  <2>1. /\ slave[i].fd \in 0 .. MaxFd /\ slave[i].status \in Status
        /\ slave[i].queue \in {None} \cup Queue /\ slave[i].read \in Nat
        /\ slave[i].length \in {0} \cup Lengths
        /\ slave[i].size \in [1 .. HeaderSize -> Bytes \cup {None}]
        /\ Counted(slave[i])
    BY <1>1, SlaveIs
  <2>2. slave[i].read < HeaderSize \/ slave[i].read < slave[i].length
    BY <2>1 DEF Counted
  <2>3. slave[i].size \in [1..HeaderSize -> Byte \cup {None}]
    BY <1>2, <2>1
  <2> QED BY <1>4, <2>1, <2>2, <2>3 DEF Status
<1>6. ASSUME NEW n \in Name
      PROVE  names[n].value \in Handle \cup {None} /\ (names[n].queue = None \/ IsQueue(names[n].queue))
  <2>1. names[n] \in NameRecord
    BY <1>1 DEF Base, Types
  <2> QED BY <1>4, <2>1 DEF NameRecord
<1>7. reading # None => reading.id \in Remote /\ reading.buf \in Seq(Byte)
  BY <1>1, <1>3, ReadingIs
<1>8. \A k \in 1..Len(sent) : sent[k].via \in Id /\ sent[k].fd \in 0..MaxFd
  <2>1. sent \in Seq(SentRecord)
    BY <1>1 DEF Base, Types
  <2>2. \A k \in 1 .. Len(sent) : sent[k] \in SentRecord
    BY <2>1
  <2>3. \A r \in SentRecord : r.via \in Id /\ r.fd \in 0..MaxFd
    BY DEF SentRecord
  <2> QED BY <2>2, <2>3
<1>9. /\ running \in BOOLEAN /\ answered \cup dropped \subseteq Nat
      /\ asked \subseteq Name /\ downs \subseteq Remote /\ torn \subseteq Remote
      /\ next \in Nat /\ conns \in 0..MaxFd /\ frames \in Nat
  BY <1>1 DEF Base, Types
<1>10. \A fd \in Fd : sock[fd].link \in {"open", "ended", "closed"} /\ sock[fd].wire \in Seq(Byte)
  BY <1>1, <1>3 DEF Base, Types, SockRecord
<1> QED BY <1>5, <1>6, <1>7, <1>8, <1>9, <1>10 DEF TypeOK

LEMMA InvInStep == HarborInv => InStep
<1> SUFFICES ASSUME HarborInv, NEW i \in Remote \ torn, slave[i].fd # 0
             PROVE  LET s == slave[i]
                        b == Stream(i)
                    IN  \/ b = <<>> /\ sock[s.fd].link # "open"
                        \/ b = <<>> /\ s.status = "header" /\ s.read = 0
                        \/ /\ b # <<>>
                           /\ CASE s.status = "handshake" -> Head(b).at = 0
                                [] s.status = "header"    -> Head(b).at = s.read + 1
                                [] s.status = "content"   ->
                                      /\ Head(b).at = HeaderSize + s.read + 1
                                      /\ Head(b).len = s.length
  BY DEF InStep
<1>1. InStream(i)
  BY DEF HarborInv, Streams
<1>2. PICK b : b = Stream(i)
  OBVIOUS
<1>3. b \in Seq(Bytes)
  BY <1>2, StreamIs DEF HarborInv
<1>4. CASE b = <<>>
  BY <1>1, <1>2, <1>4 DEF InStream
<1>5. CASE b # <<>>
  <2>1. Expected(slave[i], b[1]) /\ Head(b) = b[1]
    BY <1>1, <1>2, <1>3, <1>5 DEF InStream
  <2>2. (CASE slave[i].status = "handshake" -> Head(b).at = 0
                  [] slave[i].status = "header"    -> Head(b).at = slave[i].read + 1
                  [] slave[i].status = "content"   -> /\ Head(b).at = HeaderSize + slave[i].read + 1
                                                      /\ Head(b).len = slave[i].length)
    BY <2>1 DEF Expected
  <2> QED BY <1>2, <1>5, <2>2
<1> QED BY <1>4, <1>5

\* The harbor service's state stays within its types, whatever is sent,
\* queued, connected, read or closed: in particular s->read stays inside the
\* header or the frame, so that neither copy of push_socket_data runs past
\* its buffer, and a queue's head and tail stay inside its slots through
\* every growth of push_queue_msg.
THEOREM HarborTypeCorrect == Spec => []TypeOK
BY InvAlways, InvTyped, PTL

\* A harbor that shakes hands has bytes to read, or its connection has ended
\* and h->slave was told or will be.
Greets(i) == slave[i].status = "handshake" =>
               \/ Buf(i) # <<>> \/ sock[slave[i].fd].wire # <<>>
               \/ sock[slave[i].fd].link = "ended" \/ i \in downs

LEMMA GreetsKept ==
  ASSUME HarborInv, NEW i \in Remote, Greets(i), Buf(i)' = Buf(i), downs \subseteq downs',
         slave'[i].fd = slave[i].fd, slave'[i].status = slave[i].status,
         slave[i].fd # 0 => /\ sock[slave[i].fd].wire # <<>> => sock'[slave[i].fd].wire # <<>>
                            /\ sock[slave[i].fd].link = "ended" => sock'[slave[i].fd].link = "ended"
  PROVE  Greets(i)'
<1>1. slave[i].status = "handshake" => slave[i].fd # 0
  BY Ids, SlaveIs DEF HarborInv, Kept
<1> QED BY <1>1 DEF Greets

LEMMA InitGreets == Init => \A i \in Remote : Greets(i)
<1> SUFFICES ASSUME Init, NEW i \in Remote PROVE Greets(i)
  OBVIOUS
<1>1. slave[i].status = "wait"
  BY Ids DEF Init
<1> QED BY <1>1 DEF Greets

\* A step that changes the queues only.
LEMMA QueueGreets ==
  ASSUME HarborInv, SameSlaves, UNCHANGED <<reading, sock, downs>>, NEW i \in Remote, Greets(i)
  PROVE  Greets(i)'
<1>1. slave'[i].fd = slave[i].fd /\ slave'[i].status = slave[i].status
  BY Ids DEF SameSlaves
<1>2. Buf(i)' = Buf(i)
  BY DEF Buf
<1> QED BY <1>1, <1>2, GreetsKept

\* A new connection: its first byte is there.
LEMMA ConnectGreets ==
  ASSUME HarborInv, NEW id \in Remote, NEW w \in Seq(Bytes), NewSocket(w),
         slave'[id].fd = conns', w # <<>> \/ slave'[id].status # "handshake",
         \A i \in Id \ {id} : slave'[i] = slave[i], UNCHANGED <<reading, downs>>,
         NEW i \in Remote, Greets(i)
  PROVE  Greets(i)'
<1>1. /\ conns' = conns + 1 /\ conns' \in 1 .. MaxFd
      /\ sock'[conns'] = [link |-> "open", wire |-> w]
      /\ \A fd \in Fd \ {conns'} : sock'[fd] = sock[fd]
  BY NewSocketTyped DEF HarborInv
<1>2. CASE i = id
  <2>1. sock'[slave'[id].fd].wire = w
    BY <1>1
  <2> QED BY <1>2, <2>1 DEF Greets
<1>3. CASE i # id
  <2>1. slave'[i] = slave[i]
    BY <1>3, Ids
  <2>2. Buf(i)' = Buf(i)
    BY DEF Buf
  <2>3. ASSUME slave[i].fd # 0 PROVE sock'[slave[i].fd] = sock[slave[i].fd]
    <3>1. slave[i].fd \in Fd
      BY <2>3, StreamIs DEF HarborInv
    <3>2. slave[i].fd \in Nat /\ slave[i].fd <= conns /\ conns \in Nat
      BY Ids, SlaveIs DEF HarborInv, Owners, Base, Types
    <3>3. slave[i].fd # conns'
      BY <1>1, <3>2
    <3> QED BY <1>1, <3>1, <3>3
  <2> QED BY <2>1, <2>2, <2>3, GreetsKept
<1> QED BY <1>2, <1>3

LEMMA DataGreets ==
  ASSUME HarborInv, HarborInv', NEW fd \in Fd, Data(fd), NEW i \in Remote, Greets(i)
  PROVE  Greets(i)'
<1>1. /\ slave' = slave /\ \A f \in Fd \ {fd} : sock'[f] = sock[f]
      /\ reading = None /\ downs' = downs
  BY DataBase DEF HarborInv, Data, Idle, history
<1>2. PICK k \in 1 .. Len(sock[fd].wire) :
              /\ sock'[fd].wire = SubSeq(sock[fd].wire, k + 1, Len(sock[fd].wire))
              /\ sock'[fd].link = sock[fd].link
              /\ reading' = IF harbor_id(fd) = 0 THEN None
                            ELSE [id |-> harbor_id(fd), buf |-> SubSeq(sock[fd].wire, 1, k)]
  BY DataBase DEF HarborInv
<1>3. PICK h : h = harbor_id(fd)
  OBVIOUS
<1>4. /\ h # 0 => h \in Remote /\ slave[h].fd = fd
      /\ \A j \in Remote : slave[j].fd = fd => h = j
      /\ fd # 0 /\ 0 \notin Remote
  BY <1>3, HarborIdIs, HarborAssumption DEF HarborInv, Fd
<1>5. PICK p : p = SubSeq(sock[fd].wire, 1, k)
  OBVIOUS
<1>6. reading' = IF h = 0 THEN None ELSE [id |-> h, buf |-> p]
  BY <1>2, <1>3, <1>5
<1>7. CASE slave[i].fd = fd
  <2>1. h = i /\ h # 0
    BY <1>4, <1>7
  <2>2. reading' = [id |-> h, buf |-> p]
    BY <1>6, <2>1
  <2>3. PICK w \in Seq(Bytes) : w = sock[fd].wire
    BY DEF HarborInv, Base, Types, SockRecord
  <2>4. p \in Seq(Bytes) /\ Len(p) = k
    BY <1>2, <1>5, <2>3, PrefixTyped
  <2>5. p # <<>>
    BY <1>2, <2>4
  <2>6. reading' # None
    <3>1. Bytes \subseteq Byte
      <4>1. \A x \in {0} \cup Lengths : x \in Nat
        BY HarborAssumption
      <4>2. [at : Nat, len : {0} \cup Lengths, bad : BOOLEAN] \subseteq Byte
        BY <4>1 DEF Byte
      <4> QED BY <4>2 DEF Bytes
    <3>2. p \in Seq(Byte)
      BY <2>4, <3>1, SeqMonotonic
    <3>3. reading' \in [id : Remote, buf : Seq(Byte)]
      BY <2>1, <2>2, <3>2
    <3> QED BY <3>3, NullAssumption
  <2>7. reading'.id = i /\ reading'.buf = p
    BY <2>1, <2>2
  <2>8. Buf(i)' = p
    BY <2>6, <2>7 DEF Buf
  <2> QED BY <2>5, <2>8 DEF Greets
<1>8. CASE slave[i].fd # fd
  <2>1. h = 0 \/ h # i
    BY <1>4, <1>8
  <2>2. reading' = None \/ reading'.id # i
    BY <1>6, <2>1
  <2>3. Buf(i)' = Buf(i)
    BY <1>1, <2>2 DEF Buf
  <2>4. slave[i].fd # 0 => slave[i].fd \in Fd
    BY StreamIs DEF HarborInv
  <2> QED BY <1>1, <1>8, <2>3, <2>4, GreetsKept
<1> QED BY <1>7, <1>8

\* A step of the read loop: whoever it reads for does not shake hands after it.
LEMMA ReadGreets ==
  ASSUME HarborInv, push_socket_data, NEW i \in Remote, Greets(i)
  PROVE  Greets(i)'
<1>1. /\ reading # None /\ slave'[reading.id].status # "handshake"
      /\ \A j \in Id \ {reading.id} : slave'[j] = slave[j]
      /\ sock' = sock \/ SocketClose({slave[reading.id].fd})
  BY ReadHandshakeBase, ReadHeaderBase, ReadContentBase DEF HarborInv, push_socket_data
<1>2. /\ downs' = downs /\ (reading' = None \/ reading'.id = reading.id)
  <2>1. \A rest : GoOn(rest) => reading' = None \/ reading'.id = reading.id
    <3>1. reading # None => reading \in [id : Remote, buf : Seq(Bytes)]
      BY DEF HarborInv, Base, Types
    <3> QED BY <1>1, <3>1 DEF GoOn
  <2>2. CASE ReadHandshake
    BY <2>1, <2>2 DEF ReadHandshake, CloseAndReturn
  <2>3. CASE ReadHeader
    BY <2>1, <2>3 DEF ReadHeader, CloseAndReturn
  <2>4. CASE ReadContent
    BY <2>1, <2>4 DEF ReadContent, history
  <2> QED BY <2>2, <2>3, <2>4 DEF push_socket_data
<1>3. CASE i = reading.id
  BY <1>1, <1>3 DEF Greets
<1>4. CASE i # reading.id
  <2>1. Buf(i)' = Buf(i)
    BY <1>1, <1>2, <1>4 DEF Buf
  <2>2. slave'[i] = slave[i]
    BY <1>1, <1>4, Ids
  <2>3. ASSUME slave[i].fd # 0
        PROVE  /\ sock'[slave[i].fd].wire = sock[slave[i].fd].wire
               /\ sock[slave[i].fd].link = "ended" => sock'[slave[i].fd].link = "ended"
    <3>1. PICK f \in Fd : f = slave[i].fd
      BY <2>3, StreamIs DEF HarborInv
    <3>2. CASE sock' = sock
      BY <3>2
    <3>3. CASE SocketClose({slave[reading.id].fd})
      BY <3>1, <3>3, SocketCloseTyped DEF HarborInv
    <3> QED BY <1>1, <3>2, <3>3
  <2> QED BY <1>2, <2>1, <2>2, <2>3, GreetsKept
<1> QED BY <1>3, <1>4

\* The connection is closed: h->slave is told.
LEMMA ClosedGreets ==
  ASSUME HarborInv, NEW fd \in Fd, SocketClosed(fd), NEW i \in Remote, Greets(i)
  PROVE  Greets(i)'
<1>1. /\ slave' = slave /\ reading' = reading /\ \A f \in Fd \ {fd} : sock'[f] = sock[f]
  BY SocketClosedBase DEF HarborInv
<1>2. downs \subseteq downs' /\ (harbor_id(fd) # 0 => harbor_id(fd) \in downs')
  BY DEF SocketClosed, report_harbor_down
<1>3. CASE slave[i].fd = fd
  <2>1. harbor_id(fd) = i /\ i # 0
    BY <1>3, HarborIdIs, HarborAssumption DEF HarborInv
  <2> QED BY <1>2, <2>1 DEF Greets
<1>4. CASE slave[i].fd # fd
  <2>1. slave[i].fd # 0 => slave[i].fd \in Fd
    BY StreamIs DEF HarborInv
  <2>2. Buf(i)' = Buf(i)
    BY <1>1 DEF Buf
  <2> QED BY <1>1, <1>2, <1>4, <2>1, <2>2, GreetsKept
<1> QED BY <1>3, <1>4

\* The peers' steps: what was on the wire stays there.
LEMMA PeerGreets ==
  ASSUME HarborInv, NEW fd \in Fd, PeerSend(fd) \/ PeerClose(fd), NEW i \in Remote, Greets(i)
  PROVE  Greets(i)'
<1>1. /\ slave' = slave /\ reading' = reading /\ \A f \in Fd \ {fd} : sock'[f] = sock[f]
      /\ downs' = downs
  BY PeerSendBase, PeerCloseBase DEF HarborInv, PeerSend, PeerClose, history
<1>2. Buf(i)' = Buf(i)
  BY <1>1 DEF Buf
<1>3. /\ sock[fd].wire # <<>> => sock'[fd].wire # <<>>
      /\ sock[fd].link = "ended" => sock'[fd].link = "ended"
  <2>1. CASE PeerClose(fd)
    BY <2>1, PeerCloseBase DEF HarborInv
  <2>2. CASE PeerSend(fd)
    <3>1. PICK w \in Seq(Bytes) : w = sock[fd].wire
      BY DEF HarborInv, Base, Types, SockRecord
    <3>2. PICK bytes \in Seq(Bytes) : sock'[fd].wire = sock[fd].wire \o bytes
      BY <2>2, PeerSendBase DEF HarborInv
    <3>3. sock[fd].link = "open"
      BY <2>2, PeerSendBase DEF HarborInv
    <3>4. Len(w \o bytes) = Len(w) + Len(bytes) /\ w \o bytes \in Seq(Bytes)
      BY <3>1, <3>2, ConcatProperties
    <3>5. w # <<>> => w \o bytes # <<>>
      BY <3>1, <3>2, <3>4
    <3> QED BY <3>1, <3>2, <3>3, <3>5
  <2> QED BY <2>1, <2>2
<1>4. slave[i].fd # 0 => slave[i].fd \in Fd
  BY StreamIs DEF HarborInv
<1> QED BY <1>1, <1>2, <1>3, <1>4, GreetsKept

LEMMA NextGreets ==
  HarborInv /\ HarborInv' /\ (\A i \in Remote : Greets(i)) /\ [Next]_vars => (\A i \in Remote : Greets(i))'
<1> SUFFICES ASSUME HarborInv, HarborInv', [Next]_vars, NEW i \in Remote, Greets(i) PROVE Greets(i)'
  OBVIOUS
<1>0. Base
  BY DEF HarborInv
<1>1. ASSUME NEW fd \in Fd, Data(fd) PROVE Greets(i)'
  BY <1>1, DataGreets
<1>2. ASSUME NEW fd \in Fd, SocketClosed(fd) PROVE Greets(i)'
  BY <1>2, ClosedGreets
<1>3. ASSUME NEW n \in Name, NEW value \in Handle, update_name(n, value) PROVE Greets(i)'
  <2>1. UNCHANGED <<reading, sock, downs>>
    BY <1>3 DEF update_name, env
  <2> QED BY <1>0, <1>3, <2>1, UpdateNameBase, QueueGreets
<1>4. ASSUME NEW id \in Remote, Connect(id) PROVE Greets(i)'
  <2>1. slave'[id].fd = conns' /\ \A j \in Id \ {id} : slave'[j] = slave[j]
    BY <1>0, <1>4, ConnectBase
  <2>2. PICK bad \in BOOLEAN : IdByte(bad) \in Bytes /\ NewSocket(<<IdByte(bad)>>)
    BY <1>0, <1>4, ConnectBase
  <2>3. UNCHANGED <<reading, downs>>
    BY <1>4 DEF Connect
  <2>4. PICK w : w = <<IdByte(bad)>>
    OBVIOUS
  <2>5. w \in Seq(Bytes) /\ w # <<>>
    BY <2>2, <2>4
  <2> QED BY <2>1, <2>2, <2>3, <2>4, <2>5, ConnectGreets
<1>5. ASSUME NEW id \in Remote, Accept(id) PROVE Greets(i)'
  <2>1. /\ slave'[id].fd = conns' /\ slave'[id].status = "header"
        /\ \A j \in Id \ {id} : slave'[j] = slave[j]
    BY <1>0, <1>5, AcceptBase
  <2>2. PICK w : w = <<>>
    OBVIOUS
  <2>3. UNCHANGED <<reading, downs>> /\ NewSocket(w) /\ w \in Seq(Bytes)
    BY <1>5, <2>2 DEF Accept
  <2> QED BY <2>1, <2>3, ConnectGreets
<1>6. ASSUME NEW handle \in Handle, SendHandle(handle) PROVE Greets(i)'
  <2>1. UNCHANGED <<reading, sock, downs>>
    BY <1>6 DEF SendHandle, env
  <2> QED BY <1>0, <1>6, <2>1, SendHandleBase, QueueGreets
<1>7. ASSUME NEW n \in Name, SendName(n) PROVE Greets(i)'
  <2>1. UNCHANGED <<reading, sock, downs>>
    BY <1>7 DEF SendName, env
  <2> QED BY <1>0, <1>7, <2>1, SendNameBase, QueueGreets
<1>8. ASSUME push_socket_data PROVE Greets(i)'
  BY <1>8, ReadGreets
<1>9. ASSUME harbor_release PROVE Greets(i)'
  <2>1. slave'[i].fd = 0 /\ Base'
    BY <1>0, <1>9, ReleaseBase, Ids
  <2>2. Kept(i, slave[i])'
    BY <2>1, Ids DEF Base, Waits
  <2> QED BY <2>1, <2>2 DEF Greets, Kept
<1>10. ASSUME NEW fd \in Fd, PeerSend(fd) \/ PeerClose(fd) PROVE Greets(i)'
  BY <1>10, PeerGreets
<1>11. ASSUME UNCHANGED vars PROVE Greets(i)'
  <2>1. UNCHANGED <<slave, reading, running, sock, downs>>
    BY <1>11 DEF vars, history, env
  <2> QED BY <1>0, <2>1, SlavesUnchanged, QueueGreets
<1> QED BY <1>1, <1>2, <1>3, <1>4, <1>5, <1>6, <1>7, <1>8, <1>9, <1>10, <1>11
        DEF Next, mainloop, harbor_command

LEMMA GreetsStranded == HarborInv /\ (\A i \in Remote : Greets(i)) => NothingStranded
<1> SUFFICES ASSUME HarborInv, \A i \in Remote : Greets(i) PROVE NothingStranded
  OBVIOUS
<1>1. Waits
  BY DEF HarborInv, Base
<1>2. ASSUME NEW i \in Id, slave[i].queue # None, slave[i].status = "handshake"
      PROVE  Stream(i) # <<>> \/ sock[slave[i].fd].link = "ended" \/ i \in downs
  <2>1. Kept(i, slave[i])
    BY <1>1 DEF Waits
  <2>2. i \in Remote /\ slave[i].fd # 0
    BY <1>2, <2>1 DEF Kept, Id
  <2>3. PICK b \in Seq(Bytes), w \in Seq(Bytes) :
          Stream(i) = b \o w /\ Buf(i) = b /\ sock[slave[i].fd].wire = w
    BY <2>2, StreamIs DEF HarborInv
  <2>4. Len(b \o w) = Len(b) + Len(w) /\ b \o w \in Seq(Bytes)
    BY <2>3, ConcatProperties
  <2>5. b # <<>> \/ w # <<>> => b \o w # <<>>
    BY <2>3, <2>4
  <2>6. Greets(i)
    BY <2>2
  <2> QED BY <1>2, <2>3, <2>5, <2>6 DEF Greets
<1> QED BY <1>1, <1>2 DEF NothingStranded, Waits, Kept, KeptNames

\* Where a message may wait, whatever order the names, connections, closes and
\* messages come in: no queue is left behind a usable connection, a dead
\* harbor, this harbor or a known name, and a queue that waits for a handshake
\* waits for bytes that are still to be read or for a connection whose end was
\* reported to h->slave or will be.
THEOREM NoMessageStranded == Spec => []NothingStranded
<1>1. Spec => [](HarborInv /\ \A i \in Remote : Greets(i))
  <2>1. Init => HarborInv /\ \A i \in Remote : Greets(i)
    BY InitInv, InitGreets
  <2>2. HarborInv /\ (\A i \in Remote : Greets(i)) /\ [Next]_vars
          => (HarborInv /\ \A i \in Remote : Greets(i))'
    BY NextInv, NextGreets
  <2> QED BY <2>1, <2>2, PTL DEF Spec
<1> QED BY <1>1, GreetsStranded, PTL

\* However the bytes of a connection are cut into pieces, push_socket_data
\* expects exactly the byte that comes next, for every header size, every set
\* of frame lengths and any number of harbors and connections.
THEOREM ReaderInStep == Spec => []InStep
BY InvAlways, InvInStep, PTL

-------------------------------------------------------------------------------
(***************************************************************************)
(* Where the messages are.  Each queue is seen as the sequence of its      *)
(* messages.                                                               *)
(***************************************************************************)
nq == [x \in Name |-> Contents(names[x].queue)]
sq == [i \in Id |-> Contents(slave[i].queue)]
values == [x \in Name |-> names[x].value]
fds == [i \in Id |-> slave[i].fd]

\* The numbers of the messages of a sequence.
Ns(s) == {s[k].n : k \in 1 .. Len(s)}
Distinct(s) == \A j, k \in 1 .. Len(s) : s[j].n = s[k].n /\ s[j].n # 0 => j = k

LEMMA NumbersAre ==
  ASSUME NEW q \in {None} \cup Queue
  PROVE  Numbers(q) = Ns(Contents(q))
<1> DEFINE c == Contents(q)
<1>1. c \in Seq(Messages)
  BY ContentsTyped
<1>2. Numbers(q) = {m.n : m \in {c[k] : k \in DOMAIN c}}
  BY DEF Numbers, ToSet
<1>3. Ns(c) = {c[k].n : k \in 1 .. Len(c)}
  BY DEF Ns
<1> HIDE DEF c
<1>4. DOMAIN c = 1 .. Len(c)
  BY <1>1
<1>5. Numbers(q) = Ns(c)
  BY <1>2, <1>3, <1>4
<1> QED BY <1>5 DEF c

LEMMA ConcatIs ==
  ASSUME NEW S, NEW a \in Seq(S), NEW b \in Seq(S)
  PROVE  /\ a \o b \in Seq(S) /\ Len(a \o b) = Len(a) + Len(b) /\ Len(a) \in Nat /\ Len(b) \in Nat
         /\ \A k \in 1 .. Len(a) : (a \o b)[k] = a[k]
         /\ \A k \in 1 .. Len(b) : (a \o b)[Len(a) + k] = b[k]
         /\ \A k \in 1 .. Len(a \o b) :
              \/ k \in 1 .. Len(a) /\ (a \o b)[k] = a[k]
              \/ k > Len(a) /\ k - Len(a) \in 1 .. Len(b) /\ (a \o b)[k] = b[k - Len(a)]
<1>1. /\ a \o b \in Seq(S) /\ Len(a \o b) = Len(a) + Len(b) /\ Len(a) \in Nat /\ Len(b) \in Nat
      /\ \A k \in 1 .. Len(a) + Len(b) : (a \o b)[k] = IF k <= Len(a) THEN a[k] ELSE b[k - Len(a)]
  BY ConcatProperties
<1> DEFINE c == a \o b
           l == Len(a)
           m == Len(b)
<1> HIDE DEF c, l, m
<1>2. /\ l \in Nat /\ m \in Nat /\ Len(c) = l + m
      /\ \A k \in 1 .. l + m : c[k] = IF k <= l THEN a[k] ELSE b[k - l]
  BY <1>1 DEF c, l, m
<1>3. ASSUME NEW k \in 1 .. l PROVE c[k] = a[k]
  BY <1>2
<1>4. ASSUME NEW k \in 1 .. m PROVE c[l + k] = b[k]
  <2>1. l + k \in 1 .. l + m /\ ~(l + k <= l) /\ (l + k) - l = k
    BY <1>2
  <2> QED BY <1>2, <2>1
<1>5. ASSUME NEW k \in 1 .. l + m
      PROVE  \/ k \in 1 .. l /\ c[k] = a[k]
             \/ k > l /\ k - l \in 1 .. m /\ c[k] = b[k - l]
  BY <1>2
<1> QED BY <1>1, <1>2, <1>3, <1>4, <1>5 DEF c, l, m

LEMMA NsConcat ==
  ASSUME NEW S, NEW a \in Seq(S), NEW b \in Seq(S)
  PROVE  /\ Ns(a \o b) = Ns(a) \cup Ns(b)
         /\ Distinct(a) /\ Distinct(b) /\ Ns(a) \cap Ns(b) \subseteq {0} => Distinct(a \o b)
<1> DEFINE c == a \o b
           l == Len(a)
           m == Len(b)
<1>1. /\ Len(c) = l + m /\ l \in Nat /\ m \in Nat
      /\ \A k \in 1 .. l : c[k] = a[k]
      /\ \A k \in 1 .. m : c[l + k] = b[k]
      /\ \A k \in 1 .. Len(c) : \/ k \in 1 .. l /\ c[k] = a[k]
                                \/ k > l /\ k - l \in 1 .. m /\ c[k] = b[k - l]
  BY ConcatIs
<1>2. /\ Ns(a) = {a[k].n : k \in 1 .. l} /\ Ns(b) = {b[k].n : k \in 1 .. m}
      /\ Ns(c) = {c[k].n : k \in 1 .. Len(c)}
  BY DEF Ns
<1>3. /\ Distinct(a) <=> \A j, k \in 1 .. l : a[j].n = a[k].n /\ a[j].n # 0 => j = k
      /\ Distinct(b) <=> \A j, k \in 1 .. m : b[j].n = b[k].n /\ b[j].n # 0 => j = k
      /\ Distinct(c) <=> \A j, k \in 1 .. Len(c) : c[j].n = c[k].n /\ c[j].n # 0 => j = k
  BY DEF Distinct
<1> HIDE DEF c, l, m
<1>4. \A k \in 1 .. l : k \in 1 .. Len(c)
  BY <1>1
<1>5. \A k \in 1 .. m : l + k \in 1 .. Len(c)
  BY <1>1
<1>6. Ns(c) = Ns(a) \cup Ns(b)
  <2>1. ASSUME NEW x \in Ns(c) PROVE x \in Ns(a) \cup Ns(b)
    BY <1>1, <1>2, <2>1
  <2>2. ASSUME NEW x \in Ns(a) PROVE x \in Ns(c)
    BY <1>1, <1>2, <1>4, <2>2
  <2>3. ASSUME NEW x \in Ns(b) PROVE x \in Ns(c)
    BY <1>1, <1>2, <1>5, <2>3
  <2> QED BY <2>1, <2>2, <2>3
<1>7. ASSUME Distinct(a), Distinct(b), Ns(a) \cap Ns(b) \subseteq {0} PROVE Distinct(c)
  <2> SUFFICES ASSUME NEW j \in 1 .. Len(c), NEW k \in 1 .. Len(c), c[j].n = c[k].n, c[j].n # 0
               PROVE  j = k
    BY <1>3
  <2>1. CASE j \in 1 .. l /\ c[j] = a[j]
    <3>1. CASE k \in 1 .. l /\ c[k] = a[k]
      BY <1>3, <1>7, <2>1, <3>1
    <3>2. CASE k > l /\ k - l \in 1 .. m /\ c[k] = b[k - l]
      <4>1. c[j].n \in Ns(a) /\ c[k].n \in Ns(b)
        BY <1>2, <2>1, <3>2
      <4> QED BY <1>7, <4>1
    <3> QED BY <1>1, <3>1, <3>2
  <2>2. CASE j > l /\ j - l \in 1 .. m /\ c[j] = b[j - l]
    <3>1. CASE k \in 1 .. l /\ c[k] = a[k]
      <4>1. c[k].n \in Ns(a) /\ c[j].n \in Ns(b)
        BY <1>2, <2>2, <3>1
      <4> QED BY <1>7, <4>1
    <3>2. CASE k > l /\ k - l \in 1 .. m /\ c[k] = b[k - l]
      <4>1. j - l = k - l
        BY <1>3, <1>7, <2>2, <3>2
      <4> QED BY <1>1, <4>1
    <3> QED BY <1>1, <3>1, <3>2
  <2> QED BY <1>1, <2>1, <2>2
<1> QED BY <1>6, <1>7 DEF c

LEMMA NsOne ==
  ASSUME NEW m
  PROVE  Ns(<<m>>) = {m.n} /\ Distinct(<<m>>) /\ Ns(<<>>) = {} /\ Distinct(<<>>)
BY DEF Ns, Distinct

LEMMA AppendIs ==
  ASSUME NEW S, NEW a \in Seq(S), NEW m \in S
  PROVE  Append(a, m) = a \o <<m>> /\ <<m>> \in Seq(S)
<1>1. Append(a, m) = a \o <<m>>
  BY AppendIsConcat
<1>2. <<m>> \in Seq(S)
  OBVIOUS
<1> QED BY <1>1, <1>2

\* Leaving the service, and getting a handle, changes no number.
LEMMA LeavingAllIs ==
  ASSUME NEW ms \in Seq(Messages), NEW id, NEW fd, NEW s, s = LeavingAll(ms, id, fd)
  PROVE  /\ Len(s) = Len(ms) /\ Ns(s) = Ns(ms) /\ (Distinct(ms) => Distinct(s))
         /\ \A k \in 1 .. Len(ms) : /\ s[k].n = ms[k].n /\ s[k].to = ms[k].to /\ s[k].dest = ms[k].dest
                                    /\ s[k].via = id /\ s[k].fd = fd
<1> DEFINE l == Len(ms)
<1>1. l \in Nat /\ s = [k \in 1 .. l |-> Leaving(ms[k], id, fd)]
  BY DEF LeavingAll
<1>2. Len(s) = l
  <2> HIDE DEF l
  <2> QED BY <1>1
<1>3. \A k \in 1 .. l : /\ s[k].n = ms[k].n /\ s[k].to = ms[k].to /\ s[k].dest = ms[k].dest
                        /\ s[k].via = id /\ s[k].fd = fd
  <2> HIDE DEF l
  <2> QED BY <1>1 DEF Leaving
<1>4. Ns(s) = Ns(ms)
  BY <1>2, <1>3 DEF Ns
<1> QED BY <1>2, <1>3, <1>4 DEF Distinct

LEMMA WithHandleIs ==
  ASSUME NEW ms \in Seq(Messages), NEW v \in Handle, NEW s, s = WithHandle(ms, v)
  PROVE  /\ s \in Seq(Messages) /\ Len(s) = Len(ms) /\ Ns(s) = Ns(ms) /\ (Distinct(ms) => Distinct(s))
         /\ \A k \in 1 .. Len(ms) : s[k].n = ms[k].n /\ s[k].to = ms[k].to /\ s[k].dest = v
<1> DEFINE l == Len(ms)
<1>1. l \in Nat /\ s = [k \in 1 .. l |-> [ms[k] EXCEPT !.dest = v]] /\ \A k \in 1 .. l : ms[k] \in Messages
  BY DEF WithHandle
<1>2. Len(s) = l
  <2> HIDE DEF l
  <2> QED BY <1>1
<1>3. \A m \in Messages : /\ [m EXCEPT !.dest = v].n = m.n /\ [m EXCEPT !.dest = v].to = m.to
                          /\ [m EXCEPT !.dest = v].dest = v
  BY DEF Messages
<1>4. \A k \in 1 .. l : s[k].n = ms[k].n /\ s[k].to = ms[k].to /\ s[k].dest = v
  <2> HIDE DEF l
  <2> TAKE k \in 1 .. l
  <2>1. ms[k] \in Messages /\ s[k] = [ms[k] EXCEPT !.dest = v]
    BY <1>1
  <2> DEFINE m == ms[k]
             r == s[k]
  <2> HIDE DEF m, r
  <2>2. m \in Messages /\ r = [m EXCEPT !.dest = v]
    BY <2>1 DEF m, r
  <2>3. r.n = m.n /\ r.to = m.to /\ r.dest = v
    BY <1>3, <2>2
  <2> QED BY <2>3 DEF m, r
<1>5. Ns(s) = Ns(ms)
  BY <1>2, <1>4 DEF Ns
<1> QED BY <1>2, <1>4, <1>5, WithHandleTyped DEF Distinct

\* Distinct numbers of a range are at most as many as the range has.
LEMMA FewMessages ==
  ASSUME NEW S, NEW s \in Seq(S), Distinct(s), NEW m \in Nat, Ns(s) \subseteq 1 .. m
  PROVE  Len(s) <= m
<1> DEFINE l == Len(s)
           f == [k \in 1 .. l |-> s[k].n]
<1>1. l \in Nat /\ \A k \in 1 .. l : s[k].n \in 1 .. m /\ s[k].n # 0
  BY DEF Ns
<1>2. \A j, k \in 1 .. l : s[j].n = s[k].n => j = k
  BY <1>1 DEF Distinct
<1> HIDE DEF l
<1>3. f \in [1 .. l -> 1 .. m] /\ \A j, k \in 1 .. l : f[j] = f[k] => j = k
  BY <1>1, <1>2
<1>4. f \in Injection(1 .. l, 1 .. m)
  <2> HIDE DEF f
  <2> QED BY <1>3 DEF Injection, IsInjective
<1>5. /\ IsFiniteSet(1 .. m) /\ IsFiniteSet(1 .. l)
      /\ Cardinality(1 .. m) = m /\ Cardinality(1 .. l) = l
  <2>1. ASSUME NEW k \in Nat PROVE IsFiniteSet(1 .. k) /\ Cardinality(1 .. k) = k
    BY FS_Interval
  <2> QED BY <1>1, <2>1
<1> HIDE DEF f
<1>6. Cardinality(1 .. l) <= Cardinality(1 .. m)
  BY <1>4, <1>5, FS_Injection
<1> QED BY <1>5, <1>6 DEF l

\* A queue that holds as many messages as were ever given is not NULL.
LEMMA NotNull ==
  ASSUME NEW q \in Queue, Len(Waiting(q)) <= MaxInput
  PROVE  q # None /\ Contents(q) = Waiting(q)
<1>1. /\ q.size \in Nat \ {0, 1} /\ q.head = 0 /\ q.tail \in 0 .. q.size - 1 /\ q.tail <= MaxInput
      /\ q.size <= QueueSize + 2 * q.tail + 2 /\ q.data \in [0 .. q.size - 1 -> Messages \cup {None}]
      /\ q = [size |-> q.size, head |-> q.head, tail |-> q.tail, data |-> q.data]
  BY QueueIs DEF Slots
<1>2. q.size \in 1 .. (QueueSize + 2 * MaxInput + 2)
  BY <1>1, HarborAssumption
<1>3. q \in [size : {q.size}, head : {0}, tail : 0 .. (q.size - 1), data : [0 .. (q.size - 1) -> Messages \cup {None}]]
  BY <1>1
<1>4. q # None
  BY <1>2, <1>3, NullAssumption
<1> QED BY <1>4, ContentsIs

LEMMA QueuedIs ==
  ASSUME NEW q \in {None} \cup Queue, NEW m \in Messages, Len(Contents(q)) < MaxInput
  PROVE  Contents(Queued(q, m)) = Append(Contents(q), m) /\ Queued(q, m) # None
<1> DEFINE r == IF q = None THEN new_queue ELSE q
           p == push_queue_msg(r, m)
<1>1. r \in Queue /\ Waiting(r) = Contents(q)
  BY NewIsQueue, ContentsIs DEF Contents
<1>2. Queued(q, m) = p
  BY DEF Queued
<1> HIDE DEF r
<1>3. p \in Queue /\ Waiting(p) = Append(Contents(q), m)
  BY <1>1, PushIs
<1> HIDE DEF p
<1>4. Len(Waiting(p)) <= MaxInput
  BY <1>3, ContentsTyped, HarborAssumption
<1> QED BY <1>2, <1>3, <1>4, NotNull

LEMMA MergedIs ==
  ASSUME NEW to \in {None} \cup Queue, NEW from \in {None} \cup Queue,
         Len(Contents(to)) + Len(Contents(from)) <= MaxInput
  PROVE  Contents(MergeQueues(to, from)) = Contents(to) \o Contents(from)
<1>1. Contents(to) \in Seq(Messages) /\ Contents(from) \in Seq(Messages)
  BY ContentsTyped
<1>2. CASE to = None
  <2>1. Contents(to) = <<>> /\ MergeQueues(to, from) = from
    BY <1>2 DEF MergeQueues, Contents
  <2> QED BY <1>1, <2>1
<1>3. CASE to # None
  <2> DEFINE c == Contents(from)
             p == MergeQueues(to, from)
  <2>1. p = FoldLeft(push_queue_msg, to, c) /\ to \in Queue /\ Waiting(to) = Contents(to)
    BY <1>3, ContentsIs DEF MergeQueues
  <2> HIDE DEF c, p
  <2>2. p \in Queue /\ Waiting(p) = Contents(to) \o c
    BY <1>1, <2>1, MergeIs DEF c
  <2>3. Len(Waiting(p)) <= MaxInput
    BY <1>1, <2>2 DEF c
  <2> QED BY <2>2, <2>3, NotNull DEF c, p
<1> QED BY <1>2, <1>3


(***************************************************************************)
(* The places of messages, in any books of the service: N and S hold the   *)
(* queues of the names and of the harbors, T what was sent, A and D the    *)
(* numbers answered and dropped, and nx is the next number.                *)
(***************************************************************************)
NameAt(x) == <<"name", x>>
SlaveAt(i) == <<"slave", i>>
SentAt == <<"sent", 0>>
AnsweredAt == <<"answered", 0>>
DroppedAt == <<"dropped", 0>>
Loc == {NameAt(x) : x \in Name} \cup {SlaveAt(i) : i \in Id} \cup {SentAt, AnsweredAt, DroppedAt}

Stored(N, S, T, A, D) ==
  [l \in Loc |-> IF l[1] = "name" THEN Ns(N[l[2]])
                 ELSE IF l[1] = "slave" THEN Ns(S[l[2]])
                 ELSE IF l = SentAt THEN Ns(T) \ {0}
                 ELSE IF l = AnsweredAt THEN A ELSE D]

\* Every number that was given is in one place, and no other number is in any.
IsOnce(f, nx) == /\ \A l \in Loc : f[l] \subseteq 1 .. nx - 1
                 /\ \A n \in 1 .. nx - 1 : \E l \in Loc : n \in f[l]
                 /\ \A l, r \in Loc : \A n \in f[l] : n \in f[r] => l = r

Typed(N, S, T, A, D, nx) == /\ N \in [Name -> Seq(Messages)] /\ S \in [Id -> Seq(Messages)]
                            /\ T \in Seq(SentRecord) /\ nx \in Nat \ {0}

AllDistinct(N, S, T) == /\ \A x \in Name : Distinct(N[x])
                        /\ \A i \in Id : Distinct(S[i])
                        /\ Distinct(T)

Whole(N, S, T, A, D, nx) == /\ Typed(N, S, T, A, D, nx)
                            /\ IsOnce(Stored(N, S, T, A, D), nx)
                            /\ AllDistinct(N, S, T)

LEMMA LocIs ==
  /\ \A x \in Name : /\ NameAt(x) \in Loc /\ NameAt(x)[1] = "name" /\ NameAt(x)[2] = x
                     /\ NameAt(x) \notin {SentAt, AnsweredAt, DroppedAt}
                     /\ \A y \in Name : NameAt(x) = NameAt(y) => x = y
                     /\ \A i \in Id : NameAt(x) # SlaveAt(i)
  /\ \A i \in Id : /\ SlaveAt(i) \in Loc /\ SlaveAt(i)[1] = "slave" /\ SlaveAt(i)[2] = i
                   /\ SlaveAt(i) \notin {SentAt, AnsweredAt, DroppedAt}
                   /\ \A j \in Id : SlaveAt(i) = SlaveAt(j) => i = j
  /\ {SentAt, AnsweredAt, DroppedAt} \subseteq Loc
  /\ \A l \in {SentAt, AnsweredAt, DroppedAt} : l[1] \notin {"name", "slave"}
  /\ SentAt # AnsweredAt /\ SentAt # DroppedAt /\ AnsweredAt # DroppedAt
  /\ \A l \in Loc : \/ \E x \in Name : l = NameAt(x)
                    \/ \E i \in Id : l = SlaveAt(i)
                    \/ l \in {SentAt, AnsweredAt, DroppedAt}
BY DEF Loc, NameAt, SlaveAt, SentAt, AnsweredAt, DroppedAt

LEMMA StoredIs ==
  ASSUME NEW N, NEW S, NEW T, NEW A, NEW D
  PROVE  /\ \A x \in Name : Stored(N, S, T, A, D)[NameAt(x)] = Ns(N[x])
         /\ \A i \in Id : Stored(N, S, T, A, D)[SlaveAt(i)] = Ns(S[i])
         /\ Stored(N, S, T, A, D)[SentAt] = Ns(T) \ {0}
         /\ Stored(N, S, T, A, D)[AnsweredAt] = A /\ Stored(N, S, T, A, D)[DroppedAt] = D
<1> DEFINE f == Stored(N, S, T, A, D)
<1>1. \A l \in Loc : f[l] = IF l[1] = "name" THEN Ns(N[l[2]])
                            ELSE IF l[1] = "slave" THEN Ns(S[l[2]])
                            ELSE IF l = SentAt THEN Ns(T) \ {0}
                            ELSE IF l = AnsweredAt THEN A ELSE D
  BY DEF Stored
<1> HIDE DEF f
<1>2. ASSUME NEW x \in Name PROVE f[NameAt(x)] = Ns(N[x])
  <2>1. NameAt(x) \in Loc /\ NameAt(x)[1] = "name" /\ NameAt(x)[2] = x
    BY LocIs
  <2> QED BY <1>1, <2>1
<1>3. ASSUME NEW i \in Id PROVE f[SlaveAt(i)] = Ns(S[i])
  <2>1. SlaveAt(i) \in Loc /\ SlaveAt(i)[1] = "slave" /\ SlaveAt(i)[2] = i
    BY LocIs
  <2> QED BY <1>1, <2>1
<1>4. f[SentAt] = Ns(T) \ {0} /\ f[AnsweredAt] = A /\ f[DroppedAt] = D
  <2>1. /\ SentAt \in Loc /\ AnsweredAt \in Loc /\ DroppedAt \in Loc
        /\ SentAt[1] \notin {"name", "slave"} /\ AnsweredAt[1] \notin {"name", "slave"}
        /\ DroppedAt[1] \notin {"name", "slave"}
        /\ SentAt # AnsweredAt /\ SentAt # DroppedAt /\ AnsweredAt # DroppedAt
    BY LocIs
  <2> QED BY <1>1, <2>1
<1> QED BY <1>2, <1>3, <1>4 DEF f

\* What is in the places P goes to place t.
LEMMA MoveOnce ==
  ASSUME NEW f, NEW g, NEW nx, IsOnce(f, nx), NEW P \in SUBSET Loc, NEW t \in Loc \ P,
         \A l \in P : g[l] = {}, \A n : n \in g[t] <=> n \in f[t] \/ \E l \in P : n \in f[l],
         \A l \in Loc \ P : l # t => g[l] = f[l]
  PROVE  IsOnce(g, nx)
<1>1. ASSUME NEW l \in Loc PROVE g[l] \subseteq 1 .. nx - 1
  BY DEF IsOnce
<1>2. ASSUME NEW n \in 1 .. nx - 1 PROVE \E l \in Loc : n \in g[l]
  <2>1. PICK l \in Loc : n \in f[l]
    BY DEF IsOnce
  <2>2. CASE l \in P
    BY <2>1, <2>2
  <2>3. CASE l \notin P
    BY <2>1, <2>3
  <2> QED BY <2>2, <2>3
<1>3. ASSUME NEW l \in Loc, NEW n \in g[l]
      PROVE  \E r \in Loc : n \in f[r] /\ (l = r \/ (l = t /\ r \in P)) /\ l \notin P
  BY <1>3
<1>4. ASSUME NEW l \in Loc, NEW r \in Loc, NEW n \in g[l], n \in g[r] PROVE l = r
  <2>1. PICK a \in Loc : n \in f[a] /\ (l = a \/ (l = t /\ a \in P)) /\ l \notin P
    BY <1>3
  <2>2. PICK b \in Loc : n \in f[b] /\ (r = b \/ (r = t /\ b \in P)) /\ r \notin P
    BY <1>3, <1>4
  <2>3. a = b
    BY <2>1, <2>2 DEF IsOnce
  <2> QED BY <2>1, <2>2, <2>3
<1> QED BY <1>1, <1>2, <1>4 DEF IsOnce

\* The next number goes to place t.
LEMMA AddOnce ==
  ASSUME NEW f, NEW g, NEW nx \in Nat \ {0}, NEW ny, ny = nx + 1, IsOnce(f, nx), NEW t \in Loc,
         g[t] = f[t] \cup {nx}, \A l \in Loc : l # t => g[l] = f[l]
  PROVE  IsOnce(g, ny)
<1>1. /\ \A n \in 1 .. nx - 1 : n \in 1 .. ny - 1
      /\ nx \in 1 .. ny - 1 /\ nx \notin 1 .. nx - 1
      /\ \A n \in 1 .. ny - 1 : n = nx \/ n \in 1 .. nx - 1
  OBVIOUS
<1>2. /\ \A l \in Loc : f[l] \subseteq 1 .. nx - 1
      /\ \A n \in 1 .. nx - 1 : \E l \in Loc : n \in f[l]
      /\ \A l, r \in Loc : \A n \in f[l] : n \in f[r] => l = r
  BY DEF IsOnce
<1> DEFINE m == ny - 1
<1> HIDE DEF m
<1>3. ASSUME NEW l \in Loc, NEW n \in g[l] PROVE n \in 1 .. m
  BY <1>1, <1>2, <1>3 DEF m
<1>4. ASSUME NEW n \in 1 .. m PROVE \E l \in Loc : n \in g[l]
  BY <1>1, <1>2, <1>4 DEF m
<1>5. ASSUME NEW l \in Loc, NEW r \in Loc, NEW n \in g[l], n \in g[r] PROVE l = r
  <2>1. nx \notin f[l] /\ nx \notin f[r]
    BY <1>1, <1>2
  <2>2. CASE n = nx
    BY <1>5, <2>1, <2>2
  <2>3. CASE n # nx
    <3>1. n \in f[l] /\ n \in f[r]
      BY <1>5, <2>3
    <3> QED BY <1>2, <3>1
  <2> QED BY <2>2, <2>3
<1> QED BY <1>3, <1>4, <1>5 DEF IsOnce, m


LEMMA WholeIs ==
  ASSUME NEW N, NEW S, NEW T, NEW A, NEW D, NEW nx, Whole(N, S, T, A, D, nx)
  PROVE  /\ N \in [Name -> Seq(Messages)] /\ S \in [Id -> Seq(Messages)]
         /\ T \in Seq(SentRecord) /\ nx \in Nat \ {0}
         /\ \A x \in Name : Distinct(N[x]) /\ Ns(N[x]) \subseteq 1 .. nx - 1
         /\ \A i \in Id : Distinct(S[i]) /\ Ns(S[i]) \subseteq 1 .. nx - 1
         /\ Distinct(T) /\ Ns(T) \ {0} \subseteq 1 .. nx - 1
         /\ A \subseteq 1 .. nx - 1 /\ D \subseteq 1 .. nx - 1
         /\ \A x \in Name : Ns(N[x]) \cap Ns(T) \subseteq {0}
         /\ \A i \in Id : Ns(S[i]) \cap Ns(T) \subseteq {0}
         /\ \A x \in Name, i \in Id : Ns(N[x]) \cap Ns(S[i]) = {}
<1> DEFINE f == Stored(N, S, T, A, D)
<1>1. /\ \A x \in Name : f[NameAt(x)] = Ns(N[x])
      /\ \A i \in Id : f[SlaveAt(i)] = Ns(S[i])
      /\ f[SentAt] = Ns(T) \ {0} /\ f[AnsweredAt] = A /\ f[DroppedAt] = D
  BY StoredIs
<1>2. IsOnce(f, nx)
  BY DEF Whole
<1> HIDE DEF f
<1>3. /\ \A l \in Loc : f[l] \subseteq 1 .. nx - 1
      /\ \A l, r \in Loc : \A n \in f[l] : n \in f[r] => l = r
  BY <1>2 DEF IsOnce
<1>4. /\ \A x \in Name : Ns(N[x]) \subseteq 1 .. nx - 1
      /\ \A i \in Id : Ns(S[i]) \subseteq 1 .. nx - 1
      /\ Ns(T) \ {0} \subseteq 1 .. nx - 1 /\ A \subseteq 1 .. nx - 1 /\ D \subseteq 1 .. nx - 1
  <2>1. \A x \in Name : NameAt(x) \in Loc
    BY LocIs
  <2>2. \A i \in Id : SlaveAt(i) \in Loc
    BY LocIs
  <2>3. SentAt \in Loc /\ AnsweredAt \in Loc /\ DroppedAt \in Loc
    BY LocIs
  <2> QED BY <1>1, <1>3, <2>1, <2>2, <2>3
<1>5. ASSUME NEW x \in Name PROVE Ns(N[x]) \cap Ns(T) \subseteq {0}
  <2>1. NameAt(x) \in Loc /\ SentAt \in Loc /\ NameAt(x) # SentAt
    BY LocIs
  <2> QED BY <1>1, <1>3, <2>1
<1>6. ASSUME NEW i \in Id PROVE Ns(S[i]) \cap Ns(T) \subseteq {0}
  <2>1. SlaveAt(i) \in Loc /\ SentAt \in Loc /\ SlaveAt(i) # SentAt
    BY LocIs
  <2> QED BY <1>1, <1>3, <2>1
<1>7. ASSUME NEW x \in Name, NEW i \in Id PROVE Ns(N[x]) \cap Ns(S[i]) = {}
  <2>1. NameAt(x) \in Loc /\ SlaveAt(i) \in Loc /\ SlaveAt(i) # NameAt(x)
    BY LocIs
  <2> QED BY <1>1, <1>3, <2>1
<1> QED BY <1>4, <1>5, <1>6, <1>7 DEF Whole, Typed, AllDistinct

\* Any other places than the named ones keep what they hold.
LEMMA StoredKept ==
  ASSUME NEW N, NEW S, NEW T, NEW A, NEW D, NEW M, NEW R, NEW U, NEW B, NEW E, NEW P \in SUBSET Loc,
         \A x \in Name : NameAt(x) \notin P => Ns(M[x]) = Ns(N[x]),
         \A i \in Id : SlaveAt(i) \notin P => Ns(R[i]) = Ns(S[i]),
         SentAt \notin P => Ns(U) \ {0} = Ns(T) \ {0}, AnsweredAt \notin P => B = A, DroppedAt \notin P => E = D
  PROVE  \A l \in Loc \ P : Stored(M, R, U, B, E)[l] = Stored(N, S, T, A, D)[l]
<1> DEFINE f == Stored(N, S, T, A, D)
           g == Stored(M, R, U, B, E)
<1>1. /\ \A x \in Name : f[NameAt(x)] = Ns(N[x])
      /\ \A i \in Id : f[SlaveAt(i)] = Ns(S[i])
      /\ f[SentAt] = Ns(T) \ {0} /\ f[AnsweredAt] = A /\ f[DroppedAt] = D
  BY StoredIs
<1>2. /\ \A x \in Name : g[NameAt(x)] = Ns(M[x])
      /\ \A i \in Id : g[SlaveAt(i)] = Ns(R[i])
      /\ g[SentAt] = Ns(U) \ {0} /\ g[AnsweredAt] = B /\ g[DroppedAt] = E
  BY StoredIs
<1> HIDE DEF f, g
<1> SUFFICES ASSUME NEW l \in Loc \ P PROVE g[l] = f[l]
  BY DEF f, g
<1>3. CASE \E x \in Name : l = NameAt(x)
  BY <1>1, <1>2, <1>3
<1>4. CASE \E i \in Id : l = SlaveAt(i)
  BY <1>1, <1>2, <1>4
<1>5. CASE l \in {SentAt, AnsweredAt, DroppedAt}
  BY <1>1, <1>2, <1>5
<1> QED BY <1>3, <1>4, <1>5, LocIs

LEMMA AddToQueue ==
  ASSUME NEW q \in Seq(Messages), NEW m \in Messages, NEW nx \in Nat \ {0}, m.n = nx,
         Distinct(q), Ns(q) \subseteq 1 .. nx - 1
  PROVE  Append(q, m) \in Seq(Messages) /\ Distinct(Append(q, m)) /\ Ns(Append(q, m)) = Ns(q) \cup {nx}
<1>1. Append(q, m) = q \o <<m>> /\ <<m>> \in Seq(Messages) /\ Append(q, m) \in Seq(Messages)
  BY AppendIs
<1>2. Ns(<<m>>) = {nx} /\ Distinct(<<m>>)
  BY NsOne
<1>3. Ns(q) \cap Ns(<<m>>) \subseteq {0}
  BY <1>2
<1>4. /\ Ns(q \o <<m>>) = Ns(q) \cup Ns(<<m>>)
      /\ Distinct(q) /\ Distinct(<<m>>) /\ Ns(q) \cap Ns(<<m>>) \subseteq {0} => Distinct(q \o <<m>>)
  BY <1>1, NsConcat
<1> QED BY <1>1, <1>2, <1>3, <1>4

LEMMA AddToName ==
  ASSUME NEW N, NEW S, NEW T, NEW A, NEW D, NEW nx, NEW ny, ny = nx + 1, Whole(N, S, T, A, D, nx),
         NEW x \in Name,
         NEW M, Typed(M, S, T, A, D, ny), \A y \in Name : y # x => M[y] = N[y],
         Distinct(M[x]), Ns(M[x]) = Ns(N[x]) \cup {nx}
  PROVE  Whole(M, S, T, A, D, ny)
<1> DEFINE f == Stored(N, S, T, A, D)
           g == Stored(M, S, T, A, D)
<1>1. nx \in Nat \ {0}
  BY WholeIs
<1>4. f[NameAt(x)] = Ns(N[x]) /\ g[NameAt(x)] = Ns(M[x]) /\ \A l \in Loc : l # NameAt(x) => g[l] = f[l]
  <2>1. f[NameAt(x)] = Ns(N[x]) /\ g[NameAt(x)] = Ns(M[x])
    <3>1. f[NameAt(x)] = Ns(N[x])
      BY StoredIs
    <3>2. g[NameAt(x)] = Ns(M[x])
      BY StoredIs
    <3> QED BY <3>1, <3>2
  <2> DEFINE P == {NameAt(x)}
  <2>2. P \in SUBSET Loc /\ \A y \in Name : NameAt(y) \notin P => Ns(M[y]) = Ns(N[y])
    BY LocIs
  <2> HIDE DEF P
  <2>3. \A l \in Loc \ P : g[l] = f[l]
    BY <2>2, StoredKept
  <2> QED BY <2>1, <2>3 DEF P
<1>5. IsOnce(f, nx)
  BY DEF Whole
<1> HIDE DEF f, g
<1>6. IsOnce(g, ny)
  <2> DEFINE t == NameAt(x)
  <2>1. t \in Loc /\ g[t] = f[t] \cup {nx} /\ \A l \in Loc : l # t => g[l] = f[l]
    BY <1>4, LocIs
  <2> HIDE DEF t
  <2> QED BY <1>1, <1>5, <2>1, AddOnce
<1>7. AllDistinct(M, S, T)
  BY DEF Whole, AllDistinct
<1> QED BY <1>6, <1>7 DEF Whole, g

LEMMA AddToSlave ==
  ASSUME NEW N, NEW S, NEW T, NEW A, NEW D, NEW nx, NEW ny, ny = nx + 1, Whole(N, S, T, A, D, nx),
         NEW i \in Id,
         NEW R, Typed(N, R, T, A, D, ny), \A j \in Id : j # i => R[j] = S[j],
         Distinct(R[i]), Ns(R[i]) = Ns(S[i]) \cup {nx}
  PROVE  Whole(N, R, T, A, D, ny)
<1> DEFINE f == Stored(N, S, T, A, D)
           g == Stored(N, R, T, A, D)
<1>1. nx \in Nat \ {0}
  BY WholeIs
<1>4. f[SlaveAt(i)] = Ns(S[i]) /\ g[SlaveAt(i)] = Ns(R[i]) /\ \A l \in Loc : l # SlaveAt(i) => g[l] = f[l]
  <2>1. f[SlaveAt(i)] = Ns(S[i]) /\ g[SlaveAt(i)] = Ns(R[i])
    <3>1. f[SlaveAt(i)] = Ns(S[i])
      BY StoredIs
    <3>2. g[SlaveAt(i)] = Ns(R[i])
      BY StoredIs
    <3> QED BY <3>1, <3>2
  <2> DEFINE P == {SlaveAt(i)}
  <2>2. P \in SUBSET Loc /\ \A j \in Id : SlaveAt(j) \notin P => Ns(R[j]) = Ns(S[j])
    BY LocIs
  <2> HIDE DEF P
  <2>3. \A l \in Loc \ P : g[l] = f[l]
    BY <2>2, StoredKept
  <2> QED BY <2>1, <2>3 DEF P
<1>5. IsOnce(f, nx)
  BY DEF Whole
<1> HIDE DEF f, g
<1>6. IsOnce(g, ny)
  <2> DEFINE t == SlaveAt(i)
  <2>1. t \in Loc /\ g[t] = f[t] \cup {nx} /\ \A l \in Loc : l # t => g[l] = f[l]
    BY <1>4, LocIs
  <2> HIDE DEF t
  <2> QED BY <1>1, <1>5, <2>1, AddOnce
<1>7. AllDistinct(N, R, T)
  BY DEF Whole, AllDistinct
<1> QED BY <1>6, <1>7 DEF Whole, g

LEMMA AddToSent ==
  ASSUME NEW N, NEW S, NEW T, NEW A, NEW D, NEW nx, NEW ny, ny = nx + 1, Whole(N, S, T, A, D, nx),
         NEW r \in SentRecord, r.n = nx
  PROVE  Whole(N, S, Append(T, r), A, D, ny)
<1> DEFINE U == Append(T, r)
           f == Stored(N, S, T, A, D)
           g == Stored(N, S, U, A, D)
<1>1. /\ T \in Seq(SentRecord) /\ nx \in Nat \ {0} /\ ny \in Nat \ {0}
      /\ Distinct(T) /\ Ns(T) \ {0} \subseteq 1 .. nx - 1
  BY WholeIs
<1>2. U = T \o <<r>> /\ <<r>> \in Seq(SentRecord) /\ U \in Seq(SentRecord) /\ Ns(<<r>>) = {nx} /\ Distinct(<<r>>)
  BY <1>1, AppendIs, NsOne
<1> HIDE DEF U
<1>3. Ns(T) \cap Ns(<<r>>) \subseteq {0}
  BY <1>1, <1>2
<1>4. Distinct(U) /\ Ns(U) = Ns(T) \cup {nx}
  <2>1. /\ Ns(T \o <<r>>) = Ns(T) \cup Ns(<<r>>)
        /\ Distinct(T) /\ Distinct(<<r>>) /\ Ns(T) \cap Ns(<<r>>) \subseteq {0} => Distinct(T \o <<r>>)
    BY <1>1, <1>2, NsConcat
  <2> QED BY <1>1, <1>2, <1>3, <2>1
<1>5. /\ f[SentAt] = Ns(T) \ {0} /\ g[SentAt] = Ns(U) \ {0}
      /\ \A l \in Loc \ {SentAt} : g[l] = f[l]
  BY StoredIs, StoredKept, LocIs
<1>6. IsOnce(f, nx)
  BY DEF Whole
<1> HIDE DEF f, g
<1>7. IsOnce(g, ny)
  BY <1>1, <1>4, <1>5, <1>6, LocIs, AddOnce
<1>8. AllDistinct(N, S, U)
  BY <1>4 DEF Whole, AllDistinct
<1> QED BY <1>1, <1>2, <1>7, <1>8 DEF Whole, Typed, g, U

LEMMA AddToAnswered ==
  ASSUME NEW N, NEW S, NEW T, NEW A, NEW D, NEW nx, NEW ny, ny = nx + 1, Whole(N, S, T, A, D, nx)
  PROVE  Whole(N, S, T, A \cup {nx}, D, ny)
<1> DEFINE f == Stored(N, S, T, A, D)
           g == Stored(N, S, T, A \cup {nx}, D)
<1>1. nx \in Nat \ {0} /\ ny \in Nat \ {0}
  BY WholeIs
<1>2. f[AnsweredAt] = A /\ g[AnsweredAt] = A \cup {nx} /\ \A l \in Loc : l # AnsweredAt => g[l] = f[l]
  <2>1. f[AnsweredAt] = A /\ g[AnsweredAt] = A \cup {nx}
    BY StoredIs
  <2> DEFINE P == {AnsweredAt}
  <2>2. P \in SUBSET Loc /\ AnsweredAt \in P
    BY LocIs
  <2> HIDE DEF P
  <2>3. \A l \in Loc \ P : g[l] = f[l]
    BY <2>2, StoredKept
  <2> QED BY <2>1, <2>3 DEF P
<1>3. IsOnce(f, nx)
  BY DEF Whole
<1> HIDE DEF f, g
<1>4. IsOnce(g, ny)
  BY <1>1, <1>2, <1>3, LocIs, AddOnce
<1> QED BY <1>1, <1>4 DEF Whole, Typed, g


NameEmptied(M, N, x) == Ns(M[x]) = {} /\ \A y \in Name : y # x => M[y] = N[y]
SlaveEmptied(R, S, i) == Ns(R[i]) = {} /\ \A j \in Id : j # i => R[j] = S[j]
SlaveGets(R, S, i, ns) == Ns(R[i]) = Ns(S[i]) \cup ns /\ \A j \in Id : j # i => R[j] = S[j]
SentGets(U, T, ns) == Ns(U) = Ns(T) \cup ns
NameReleased(M, N, X) == /\ \A y \in X : M[y] = <<>>
                         /\ \A y \in Name : y \notin X => M[y] = N[y]
SlaveReleased(R, S, I) == /\ \A j \in I : R[j] = <<>>
                          /\ \A j \in Id : j \notin I => R[j] = S[j]
Drops(E, D, N, S, X, I) ==
  \A n : n \in E <=> n \in D \/ (\E j \in I : n \in Ns(S[j])) \/ (\E y \in X : n \in Ns(N[y]))

\* The messages that waited for a name go into the queue of a harbor.
LEMMA NameToSlave ==
  ASSUME NEW N, NEW S, NEW T, NEW A, NEW D, NEW nx, Whole(N, S, T, A, D, nx),
         NEW M, NEW R, Typed(M, R, T, A, D, nx), AllDistinct(M, R, T), NEW x \in Name, NEW i \in Id,
         NameEmptied(M, N, x), SlaveGets(R, S, i, Ns(N[x]))
  PROVE  Whole(M, R, T, A, D, nx)
<1> DEFINE f == Stored(N, S, T, A, D)
           g == Stored(M, R, T, A, D)
           p == NameAt(x)
           t == SlaveAt(i)
           L == {p}
           P == L \cup {t}
<1>1. f[p] = Ns(N[x]) /\ f[t] = Ns(S[i]) /\ g[p] = {} /\ g[t] = Ns(R[i])
  <2>1. g[p] = Ns(M[x])
    BY StoredIs
  <2> QED BY <2>1, StoredIs DEF NameEmptied
<1>2. /\ P \in SUBSET Loc /\ L \in SUBSET Loc /\ t \in Loc \ L
      /\ \A y \in Name : NameAt(y) \notin P => Ns(M[y]) = Ns(N[y])
      /\ \A j \in Id : SlaveAt(j) \notin P => Ns(R[j]) = Ns(S[j])
  BY LocIs DEF NameEmptied, SlaveGets
<1> HIDE DEF P
<1>3. \A l \in Loc \ P : g[l] = f[l]
  <2> HIDE DEF L, t, p
  <2> QED BY <1>2, StoredKept
<1>4. IsOnce(f, nx)
  BY DEF Whole
<1> HIDE DEF f, g, t
<1>5. /\ \A l \in L : g[l] = {}
      /\ \A n : n \in g[t] <=> n \in f[t] \/ \E l \in L : n \in f[l]
      /\ \A l \in Loc \ L : l # t => g[l] = f[l]
  BY <1>1, <1>2, <1>3 DEF P, SlaveGets
<1>6. IsOnce(g, nx)
  <2> HIDE DEF L
  <2> QED BY <1>2, <1>4, <1>5, MoveOnce
<1> QED BY <1>6 DEF Whole, g

\* They leave.
LEMMA NameToSent ==
  ASSUME NEW N, NEW S, NEW T, NEW A, NEW D, NEW nx, Whole(N, S, T, A, D, nx),
         NEW M, NEW U, Typed(M, S, U, A, D, nx), AllDistinct(M, S, U), NEW x \in Name,
         NameEmptied(M, N, x), SentGets(U, T, Ns(N[x]))
  PROVE  Whole(M, S, U, A, D, nx)
<1> DEFINE f == Stored(N, S, T, A, D)
           g == Stored(M, S, U, A, D)
           p == NameAt(x)
           t == SentAt
           L == {p}
           P == L \cup {t}
<1>1. f[p] = Ns(N[x]) /\ f[t] = Ns(T) \ {0} /\ g[p] = {} /\ g[t] = Ns(U) \ {0}
  <2>1. g[p] = Ns(M[x])
    BY StoredIs
  <2> QED BY <2>1, StoredIs DEF NameEmptied
<1>2. /\ P \in SUBSET Loc /\ L \in SUBSET Loc /\ t \in Loc \ L /\ SentAt \in P
      /\ \A y \in Name : NameAt(y) \notin P => Ns(M[y]) = Ns(N[y])
  BY LocIs DEF NameEmptied
<1> HIDE DEF P
<1>3. \A l \in Loc \ P : g[l] = f[l]
  <2> HIDE DEF L, t, p
  <2> QED BY <1>2, StoredKept
<1>4. IsOnce(f, nx)
  BY DEF Whole
<1>7. 0 \notin Ns(N[x])
  <2>1. Ns(N[x]) \subseteq 1 .. nx - 1 /\ nx \in Nat
    BY WholeIs
  <2> QED BY <2>1
<1> HIDE DEF f, g, t
<1>5. /\ \A l \in L : g[l] = {}
      /\ \A n : n \in g[t] <=> n \in f[t] \/ \E l \in L : n \in f[l]
      /\ \A l \in Loc \ L : l # t => g[l] = f[l]
  BY <1>1, <1>2, <1>3, <1>7 DEF P, SentGets
<1>6. IsOnce(g, nx)
  <2> HIDE DEF L
  <2> QED BY <1>2, <1>4, <1>5, MoveOnce
<1> QED BY <1>6 DEF Whole, g

\* The queue of a harbor leaves.
LEMMA SlaveToSent ==
  ASSUME NEW N, NEW S, NEW T, NEW A, NEW D, NEW nx, Whole(N, S, T, A, D, nx),
         NEW R, NEW U, Typed(N, R, U, A, D, nx), AllDistinct(N, R, U), NEW i \in Id,
         SlaveEmptied(R, S, i), SentGets(U, T, Ns(S[i]))
  PROVE  Whole(N, R, U, A, D, nx)
<1> DEFINE f == Stored(N, S, T, A, D)
           g == Stored(N, R, U, A, D)
           p == SlaveAt(i)
           t == SentAt
           L == {p}
           P == L \cup {t}
<1>1. f[p] = Ns(S[i]) /\ f[t] = Ns(T) \ {0} /\ g[p] = {} /\ g[t] = Ns(U) \ {0}
  <2>1. g[p] = Ns(R[i])
    BY StoredIs
  <2> QED BY <2>1, StoredIs DEF SlaveEmptied
<1>2. /\ P \in SUBSET Loc /\ L \in SUBSET Loc /\ t \in Loc \ L /\ SentAt \in P
      /\ \A j \in Id : SlaveAt(j) \notin P => Ns(R[j]) = Ns(S[j])
  BY LocIs DEF SlaveEmptied
<1> HIDE DEF P
<1>3. \A l \in Loc \ P : g[l] = f[l]
  <2> HIDE DEF L, t, p
  <2> QED BY <1>2, StoredKept
<1>4. IsOnce(f, nx)
  BY DEF Whole
<1>7. 0 \notin Ns(S[i])
  <2>1. Ns(S[i]) \subseteq 1 .. nx - 1 /\ nx \in Nat
    BY WholeIs
  <2> QED BY <2>1
<1> HIDE DEF f, g, t
<1>5. /\ \A l \in L : g[l] = {}
      /\ \A n : n \in g[t] <=> n \in f[t] \/ \E l \in L : n \in f[l]
      /\ \A l \in Loc \ L : l # t => g[l] = f[l]
  BY <1>1, <1>2, <1>3, <1>7 DEF P, SentGets
<1>6. IsOnce(g, nx)
  <2> HIDE DEF L
  <2> QED BY <1>2, <1>4, <1>5, MoveOnce
<1> QED BY <1>6 DEF Whole, g

\* Whole queues are released.
LEMMA QueuesDropped ==
  ASSUME NEW N, NEW S, NEW T, NEW A, NEW D, NEW nx, Whole(N, S, T, A, D, nx),
         NEW M, NEW R, NEW E, Typed(M, R, T, A, E, nx), NEW X \in SUBSET Name, NEW I \in SUBSET Id,
         NameReleased(M, N, X), SlaveReleased(R, S, I), Drops(E, D, N, S, X, I)
  PROVE  Whole(M, R, T, A, E, nx)
<1> DEFINE f == Stored(N, S, T, A, D)
           g == Stored(M, R, T, A, E)
           L == {NameAt(y) : y \in X} \cup {SlaveAt(j) : j \in I}
           t == DroppedAt
           P == L \cup {t}
<1>1. /\ f[t] = D /\ g[t] = E
      /\ \A y \in X : f[NameAt(y)] = Ns(N[y]) /\ g[NameAt(y)] = Ns(M[y])
      /\ \A j \in I : f[SlaveAt(j)] = Ns(S[j]) /\ g[SlaveAt(j)] = Ns(R[j])
  BY StoredIs
<1>2. /\ P \in SUBSET Loc /\ DroppedAt \in P /\ L \in SUBSET Loc /\ t \in Loc \ L
      /\ \A y \in Name : NameAt(y) \notin P => Ns(M[y]) = Ns(N[y])
      /\ \A j \in Id : SlaveAt(j) \notin P => Ns(R[j]) = Ns(S[j])
  BY LocIs DEF NameReleased, SlaveReleased
<1> HIDE DEF P
<1>3. \A l \in Loc \ P : g[l] = f[l]
  BY <1>2, StoredKept
<1>4. IsOnce(f, nx)
  BY DEF Whole
<1>5. \A l \in L : g[l] = {}
  <2>1. Ns(<<>>) = {}
    BY NsOne
  <2>2. /\ \A y \in X : g[NameAt(y)] = {}
        /\ \A j \in I : g[SlaveAt(j)] = {}
    BY <1>1, <2>1 DEF NameReleased, SlaveReleased
  <2> HIDE DEF g
  <2> QED BY <2>2
<1>6. \A n : n \in E <=> n \in D \/ \E l \in L : n \in f[l]
  <2> HIDE DEF f, g, t
  <2>1. \A n : n \in E <=> n \in D \/ (\E j \in I : n \in Ns(S[j])) \/ (\E y \in X : n \in Ns(N[y]))
    BY DEF Drops
  <2>2. \A n : (\E l \in L : n \in f[l]) <=> (\E j \in I : n \in f[SlaveAt(j)]) \/ (\E y \in X : n \in f[NameAt(y)])
    OBVIOUS
  <2> HIDE DEF L
  <2> QED BY <1>1, <2>1, <2>2
<1> HIDE DEF f, g, t, L
<1>7. /\ \A n : n \in g[t] <=> n \in f[t] \/ \E l \in L : n \in f[l]
      /\ \A l \in Loc \ L : l # t => g[l] = f[l]
  BY <1>1, <1>3, <1>6 DEF P
<1>8. IsOnce(g, nx)
  BY <1>2, <1>4, <1>5, <1>7, MoveOnce
<1>9. AllDistinct(M, R, T)
  BY NsOne DEF Whole, AllDistinct, NameReleased, SlaveReleased
<1> QED BY <1>8, <1>9 DEF Whole, g

\* The own id leaves, which is no message.
LEMMA NothingMoved ==
  ASSUME NEW N, NEW S, NEW T, NEW A, NEW D, NEW nx, Whole(N, S, T, A, D, nx),
         NEW U, Typed(N, S, U, A, D, nx), Distinct(U), Ns(U) \ {0} = Ns(T) \ {0}
  PROVE  Whole(N, S, U, A, D, nx)
<1> DEFINE f == Stored(N, S, T, A, D)
           g == Stored(N, S, U, A, D)
<1>1. f = g
  BY DEF Stored
<1> QED BY <1>1 DEF Whole, AllDistinct


(***************************************************************************)
(* The order of messages, in the same books; V holds the handles of the    *)
(* names and F the descriptors of the harbors.                             *)
(*   NameLines     what waits for a name was given with it, in order;      *)
(*   SlaveLines    what waits for a harbor fits it, and what was given     *)
(*                 with the same destination is in order;                  *)
(*   SentLine      the same of what was sent;                              *)
(*   Ahead         what was sent to a harbor comes before what waits for   *)
(*                 it;                                                     *)
(*   Unknown       as long as a name is unknown, nothing that was given    *)
(*                 with it waits for a harbor or was sent;                 *)
(*   Greeted       a connection got the own id first.                      *)
(***************************************************************************)
Fits(m, i) == /\ m.dest # None => HarborOf[m.dest] = i
              /\ m.to \in Handle => m.dest = m.to
Rising(s) == \A j, k \in 1 .. Len(s) : j < k /\ s[j].to = s[k].to => s[j].n < s[k].n
Overtakes(r, p) == r.to = p.to /\ r.via = p.via /\ r.n # 0 => r.n < p.n

NameLine(q, x) == Rising(q) /\ \A k \in 1 .. Len(q) : q[k].to = x /\ q[k].dest = None
SlaveLine(q, i) == Rising(q) /\ \A k \in 1 .. Len(q) : Fits(q[k], i)
NameLines(N) == \A x \in Name : NameLine(N[x], x)
SlaveLines(S) == \A i \in Id : SlaveLine(S[i], i)
SentLine(T) == /\ \A k \in 1 .. Len(T) : Fits(T[k], T[k].via) /\ (T[k].to = None => T[k].n = 0)
               /\ \A j, k \in 1 .. Len(T) : j < k => Overtakes(T[j], T[k])
Ahead(S, T) == \A i \in Id : \A j \in 1 .. Len(S[i]), k \in 1 .. Len(T) :
                 T[k].via = i /\ T[k].to = S[i][j].to => T[k].n < S[i][j].n
Absent(s, x) == \A k \in 1 .. Len(s) : s[k].to # x
Unknown(S, T, V) == \A x \in Name : V[x] = None => Absent(T, x) /\ \A i \in Id : Absent(S[i], x)
HasGreeted(T, k, fd) == \E j \in 1 .. k : T[j].fd = fd /\ T[j].n = 0
Greeted(T, F) == /\ \A i \in Id : F[i] # 0 => HasGreeted(T, Len(T), F[i])
                 /\ \A k \in 1 .. Len(T) : T[k].fd # 0 => HasGreeted(T, k, T[k].fd)

InOrder(N, S, T, V, F) == /\ NameLines(N) /\ SlaveLines(S) /\ SentLine(T)
                          /\ Ahead(S, T) /\ Unknown(S, T, V) /\ Greeted(T, F)

LEMMA RisingMore ==
  ASSUME NEW a \in Seq(Messages), NEW b \in Seq(Messages), Rising(a), Rising(b),
         \A j \in 1 .. Len(a), k \in 1 .. Len(b) : a[j].to = b[k].to => a[j].n < b[k].n
  PROVE  Rising(a \o b)
<1> DEFINE c == a \o b
           l == Len(a)
           m == Len(b)
<1>1. /\ Len(c) = l + m /\ l \in Nat /\ m \in Nat
      /\ \A k \in 1 .. Len(c) : \/ k \in 1 .. l /\ c[k] = a[k]
                                \/ k > l /\ k - l \in 1 .. m /\ c[k] = b[k - l]
  BY ConcatIs
<1>2. /\ \A j, k \in 1 .. l : j < k /\ a[j].to = a[k].to => a[j].n < a[k].n
      /\ \A j, k \in 1 .. m : j < k /\ b[j].to = b[k].to => b[j].n < b[k].n
      /\ \A j \in 1 .. l, k \in 1 .. m : a[j].to = b[k].to => a[j].n < b[k].n
  BY DEF Rising
<1> HIDE DEF c, l, m
<1> SUFFICES ASSUME NEW j \in 1 .. Len(c), NEW k \in 1 .. Len(c), j < k, c[j].to = c[k].to
             PROVE  c[j].n < c[k].n
  BY DEF Rising, c
<1>3. CASE j \in 1 .. l /\ c[j] = a[j]
  <2>1. CASE k \in 1 .. l /\ c[k] = a[k]
    BY <1>2, <1>3, <2>1
  <2>2. CASE k - l \in 1 .. m /\ c[k] = b[k - l]
    BY <1>2, <1>3, <2>2
  <2> QED BY <1>1, <2>1, <2>2
<1>4. CASE j > l /\ j - l \in 1 .. m /\ c[j] = b[j - l]
  <2>1. k > l /\ j - l < k - l
    BY <1>1, <1>4
  <2>2. k - l \in 1 .. m /\ c[k] = b[k - l]
    BY <1>1, <2>1
  <2> QED BY <1>2, <1>4, <2>1, <2>2
<1> QED BY <1>1, <1>3, <1>4

LEMMA EachConcat ==
  ASSUME NEW S, NEW a \in Seq(S), NEW b \in Seq(S), NEW k \in 1 .. Len(a \o b)
  PROVE  \/ k \in 1 .. Len(a) /\ (a \o b)[k] = a[k]
         \/ k > Len(a) /\ k - Len(a) \in 1 .. Len(b) /\ (a \o b)[k] = b[k - Len(a)]
BY ConcatIs

Before(T, e) == \A j \in 1 .. Len(T), k \in 1 .. Len(e) : Overtakes(T[j], e[k])

LEMMA SentMore ==
  ASSUME NEW T \in Seq(SentRecord), NEW e \in Seq(SentRecord), SentLine(T), SentLine(e), Before(T, e)
  PROVE  SentLine(T \o e)
<1> DEFINE c == T \o e
           l == Len(T)
           m == Len(e)
<1>1. /\ Len(c) = l + m /\ l \in Nat /\ m \in Nat
      /\ \A k \in 1 .. Len(c) : \/ k \in 1 .. l /\ c[k] = T[k]
                                \/ k > l /\ k - l \in 1 .. m /\ c[k] = e[k - l]
  BY ConcatIs
<1>2. /\ \A k \in 1 .. l : Fits(T[k], T[k].via) /\ (T[k].to = None => T[k].n = 0)
      /\ \A k \in 1 .. m : Fits(e[k], e[k].via) /\ (e[k].to = None => e[k].n = 0)
      /\ \A j, k \in 1 .. l : j < k => Overtakes(T[j], T[k])
      /\ \A j, k \in 1 .. m : j < k => Overtakes(e[j], e[k])
      /\ \A j \in 1 .. l, k \in 1 .. m : Overtakes(T[j], e[k])
  BY DEF SentLine, Before
<1> HIDE DEF c, l, m
<1>3. \A k \in 1 .. Len(c) : Fits(c[k], c[k].via) /\ (c[k].to = None => c[k].n = 0)
  BY <1>1, <1>2
<1>4. ASSUME NEW j \in 1 .. Len(c), NEW k \in 1 .. Len(c), j < k
      PROVE  Overtakes(c[j], c[k])
  <2>3. CASE j \in 1 .. l /\ c[j] = T[j]
    <3>1. CASE k \in 1 .. l /\ c[k] = T[k]
      BY <1>2, <1>4, <2>3, <3>1
    <3>2. CASE k - l \in 1 .. m /\ c[k] = e[k - l]
      BY <1>2, <2>3, <3>2
    <3> QED BY <1>1, <3>1, <3>2
  <2>4. CASE j > l /\ j - l \in 1 .. m /\ c[j] = e[j - l]
    <3>1. k > l /\ j - l < k - l
      BY <1>1, <1>4, <2>4
    <3>2. k - l \in 1 .. m /\ c[k] = e[k - l]
      BY <1>1, <3>1
    <3> QED BY <1>2, <2>4, <3>1, <3>2
  <2> QED BY <1>1, <2>3, <2>4
<1> QED BY <1>3, <1>4 DEF SentLine, c

LEMMA AheadMore ==
  ASSUME NEW S, NEW T \in Seq(SentRecord), NEW e \in Seq(SentRecord), Ahead(S, T), Ahead(S, e)
  PROVE  Ahead(S, T \o e)
<1> SUFFICES ASSUME NEW i \in Id, NEW j \in 1 .. Len(S[i]), NEW k \in 1 .. Len(T \o e),
                    (T \o e)[k].via = i, (T \o e)[k].to = S[i][j].to
             PROVE  (T \o e)[k].n < S[i][j].n
  BY DEF Ahead
<1>1. CASE k \in 1 .. Len(T) /\ (T \o e)[k] = T[k]
  <2>1. T[k].via = i /\ T[k].to = S[i][j].to
    BY <1>1
  <2> QED BY <1>1, <2>1 DEF Ahead
<1>2. CASE k > Len(T) /\ k - Len(T) \in 1 .. Len(e) /\ (T \o e)[k] = e[k - Len(T)]
  <2> DEFINE h == k - Len(T)
  <2>1. h \in 1 .. Len(e) /\ (T \o e)[k] = e[h] /\ e[h].via = i /\ e[h].to = S[i][j].to
    BY <1>2
  <2> HIDE DEF h
  <2> QED BY <2>1 DEF Ahead
<1> QED BY <1>1, <1>2, EachConcat

LEMMA AbsentMore ==
  ASSUME NEW S, NEW a \in Seq(S), NEW b \in Seq(S), NEW x, Absent(a, x), Absent(b, x)
  PROVE  Absent(a \o b, x)
<1> SUFFICES ASSUME NEW k \in 1 .. Len(a \o b) PROVE (a \o b)[k].to # x
  BY DEF Absent
<1>1. CASE k \in 1 .. Len(a) /\ (a \o b)[k] = a[k]
  BY <1>1 DEF Absent
<1>2. CASE k > Len(a) /\ k - Len(a) \in 1 .. Len(b) /\ (a \o b)[k] = b[k - Len(a)]
  BY <1>2 DEF Absent
<1> QED BY <1>1, <1>2, EachConcat

LEMMA GreetedMore ==
  ASSUME NEW T \in Seq(SentRecord), NEW e \in Seq(SentRecord), NEW F, NEW G, Greeted(T, F),
         \A k \in 1 .. Len(e) : e[k].fd # 0 => e[k].n = 0 \/ HasGreeted(T, Len(T), e[k].fd),
         \A i \in Id : \/ G[i] \in {0, F[i]}
                       \/ \E k \in 1 .. Len(e) : e[k].fd = G[i] /\ e[k].n = 0
  PROVE  Greeted(T \o e, G)
<1> DEFINE c == T \o e
           l == Len(T)
           m == Len(e)
<1>1. /\ Len(c) = l + m /\ l \in Nat /\ m \in Nat
      /\ \A k \in 1 .. l : c[k] = T[k]
      /\ \A k \in 1 .. m : c[l + k] = e[k]
      /\ \A k \in 1 .. Len(c) : \/ k \in 1 .. l /\ c[k] = T[k]
                                \/ k > l /\ k - l \in 1 .. m /\ c[k] = e[k - l]
  BY ConcatIs
<1> HIDE DEF c, l
<1>2. ASSUME NEW fd, NEW k \in 0 .. l, HasGreeted(T, k, fd), NEW h \in Nat, k <= h
      PROVE  HasGreeted(c, h, fd)
  <2>1. PICK j \in 1 .. k : T[j].fd = fd /\ T[j].n = 0
    BY <1>2 DEF HasGreeted
  <2>2. j \in 1 .. l /\ j \in 1 .. h
    BY <1>1, <1>2
  <2>3. c[j] = T[j]
    BY <1>1, <2>2
  <2> QED BY <2>1, <2>2, <2>3 DEF HasGreeted
<1>3. \A i \in Id : G[i] # 0 => HasGreeted(c, Len(c), G[i])
  <2> SUFFICES ASSUME NEW i \in Id, G[i] # 0 PROVE HasGreeted(c, Len(c), G[i])
    OBVIOUS
  <2>1. CASE G[i] = F[i]
    <3>1. HasGreeted(T, l, G[i])
      BY <2>1 DEF Greeted, l
    <3> QED BY <1>1, <1>2, <3>1
  <2>2. CASE \E k \in 1 .. Len(e) : e[k].fd = G[i] /\ e[k].n = 0
    <3>1. PICK k \in 1 .. m : e[k].fd = G[i] /\ e[k].n = 0
      BY <2>2
    <3>2. l + k \in 1 .. Len(c) /\ c[l + k] = e[k]
      BY <1>1
    <3> QED BY <3>1, <3>2 DEF HasGreeted
  <2> QED BY <2>1, <2>2
<1>4. ASSUME NEW k \in 1 .. Len(c), c[k].fd # 0 PROVE HasGreeted(c, k, c[k].fd)
  <2>1. CASE k \in 1 .. l /\ c[k] = T[k]
    <3>1. HasGreeted(T, k, T[k].fd) /\ k \in 0 .. l /\ k \in Nat /\ k <= k
      BY <1>1, <1>4, <2>1 DEF Greeted, l
    <3> QED BY <1>2, <2>1, <3>1
  <2>2. CASE k > l /\ k - l \in 1 .. m /\ c[k] = e[k - l]
    <3>1. CASE c[k].n = 0
      <4>1. k \in 1 .. k
        BY <1>1
      <4> QED BY <3>1, <4>1 DEF HasGreeted
    <3>2. CASE HasGreeted(T, Len(T), c[k].fd)
      <4>1. l \in 0 .. l /\ k \in Nat /\ l <= k
        BY <1>1, <2>2
      <4> QED BY <1>2, <3>2, <4>1 DEF l
    <3> QED BY <1>4, <2>2, <3>1, <3>2
  <2> QED BY <1>1, <2>1, <2>2
<1> QED BY <1>3, <1>4 DEF Greeted, c


-----------------------------------------------------------------------------
\* The queues that are emptied, names that become known and connections that
\* are closed leave the rest in order.
Fewer(M, R, W, G, N, S, V, F) == /\ \A x \in Name : M[x] \in {N[x], <<>>} /\ (W[x] = None => V[x] = None)
                                 /\ \A i \in Id : R[i] \in {S[i], <<>>} /\ G[i] \in {0, F[i]}

LEMMA EmptyLine ==
  /\ \A x : NameLine(<<>>, x) /\ SlaveLine(<<>>, x) /\ Absent(<<>>, x)
  /\ Len(<<>>) = 0
BY DEF NameLine, SlaveLine, Absent, Rising

LEMMA OrderFewer ==
  ASSUME NEW N, NEW S, NEW T, NEW V, NEW F, InOrder(N, S, T, V, F),
         NEW M, NEW R, NEW W, NEW G, Fewer(M, R, W, G, N, S, V, F)
  PROVE  InOrder(M, R, T, W, G)
<1>1. NameLines(M)
  BY EmptyLine DEF InOrder, NameLines, Fewer
<1>2. SlaveLines(R)
  BY EmptyLine DEF InOrder, SlaveLines, Fewer
<1>3. Ahead(R, T)
  <2> SUFFICES ASSUME NEW i \in Id, NEW j \in 1 .. Len(R[i]), NEW k \in 1 .. Len(T),
                      T[k].via = i, T[k].to = R[i][j].to
               PROVE  T[k].n < R[i][j].n
    BY DEF Ahead
  <2>1. R[i] = S[i]
    <3>1. R[i] # <<>>
      BY EmptyLine
    <3> QED BY <3>1 DEF Fewer
  <2> QED BY <2>1 DEF InOrder, Ahead
<1>4. Unknown(R, T, W)
  <2> SUFFICES ASSUME NEW x \in Name, W[x] = None PROVE Absent(T, x) /\ \A i \in Id : Absent(R[i], x)
    BY DEF Unknown
  <2>1. Absent(T, x) /\ \A i \in Id : Absent(S[i], x)
    BY DEF InOrder, Unknown, Fewer
  <2> QED BY <2>1, EmptyLine DEF Fewer
<1>5. Greeted(T, G)
  BY DEF InOrder, Greeted, Fewer
<1> QED BY <1>1, <1>2, <1>3, <1>4, <1>5 DEF InOrder

\* What leaves after T, when the queues are S and the names V.
Joins(e, S, T, V, F, G) ==
  /\ SentLine(e) /\ Before(T, e) /\ Ahead(S, e) /\ \A x \in Name : V[x] = None => Absent(e, x)
  /\ \A k \in 1 .. Len(e) : e[k].fd # 0 => e[k].n = 0 \/ HasGreeted(T, Len(T), e[k].fd)
  /\ \A i \in Id : \/ G[i] \in {0, F[i]}
                   \/ \E k \in 1 .. Len(e) : e[k].fd = G[i] /\ e[k].n = 0

LEMMA OrderJoin ==
  ASSUME NEW N, NEW S, NEW T \in Seq(SentRecord), NEW V, NEW F, InOrder(N, S, T, V, F),
         NEW e \in Seq(SentRecord), NEW G, Joins(e, S, T, V, F, G)
  PROVE  InOrder(N, S, T \o e, V, G)
<1>1. SentLine(T \o e)
  BY SentMore DEF InOrder, Joins
<1>2. Ahead(S, T \o e)
  BY AheadMore DEF InOrder, Joins
<1>3. Unknown(S, T \o e, V)
  <2> SUFFICES ASSUME NEW x \in Name, V[x] = None PROVE Absent(T \o e, x) /\ \A i \in Id : Absent(S[i], x)
    BY DEF Unknown
  <2>1. Absent(T, x) /\ Absent(e, x) /\ \A i \in Id : Absent(S[i], x)
    BY DEF InOrder, Unknown, Joins
  <2> QED BY <2>1, AbsentMore
<1>4. Greeted(T \o e, G)
  <2>1. Greeted(T, F)
    BY DEF InOrder
  <2>2. \A k \in 1 .. Len(e) : e[k].fd # 0 => e[k].n = 0 \/ HasGreeted(T, Len(T), e[k].fd)
    BY DEF Joins
  <2>3. \A i \in Id : \/ G[i] \in {0, F[i]}
                      \/ \E k \in 1 .. Len(e) : e[k].fd = G[i] /\ e[k].n = 0
    BY DEF Joins
  <2> QED BY <2>1, <2>2, <2>3, GreetedMore
<1> QED BY <1>1, <1>2, <1>3, <1>4 DEF InOrder

\* What comes into a queue goes to its end.
NameMore(M, N, x, m) == M[x] = N[x] \o <<m>> /\ \A y \in Name : y # x => M[y] = N[y]
SlaveMore(R, S, i, b) == R[i] = S[i] \o b /\ \A j \in Id : j # i => R[j] = S[j]

LEMMA OrderName ==
  ASSUME NEW N \in [Name -> Seq(Messages)], NEW S, NEW T, NEW V, NEW F, InOrder(N, S, T, V, F),
         NEW x \in Name, NEW m \in Messages, m.to = x, m.dest = None, \A k \in 1 .. Len(N[x]) : N[x][k].n < m.n,
         NEW M, NameMore(M, N, x, m)
  PROVE  InOrder(M, S, T, V, F)
<1> DEFINE a == N[x]
           b == <<m>>
<1>1. a \in Seq(Messages) /\ b \in Seq(Messages) /\ Len(b) = 1 /\ b[1] = m
  OBVIOUS
<1>2. NameLine(a, x)
  BY DEF InOrder, NameLines
<1> HIDE DEF b
<1>3. Rising(b)
  BY <1>1 DEF Rising
<1>4. \A j \in 1 .. Len(a), k \in 1 .. Len(b) : a[j].to = b[k].to => a[j].n < b[k].n
  BY <1>1
<1> HIDE DEF a
<1>5. Rising(a \o b)
  <2>1. Rising(a)
    BY <1>2 DEF NameLine
  <2> QED BY <1>1, <1>3, <1>4, <2>1, RisingMore
<1>6. ASSUME NEW k \in 1 .. Len(a \o b) PROVE (a \o b)[k].to = x /\ (a \o b)[k].dest = None
  <2>1. CASE k \in 1 .. Len(a) /\ (a \o b)[k] = a[k]
    BY <1>2, <2>1 DEF NameLine
  <2>2. CASE k > Len(a) /\ k - Len(a) \in 1 .. Len(b) /\ (a \o b)[k] = b[k - Len(a)]
    BY <1>1, <2>2
  <2> QED BY <1>1, <2>1, <2>2, EachConcat
<1>7. NameLine(a \o b, x)
  BY <1>5, <1>6 DEF NameLine
<1>8. NameLines(M)
  BY <1>7 DEF InOrder, NameLines, NameMore, a, b
<1> QED BY <1>8 DEF InOrder

\* What may be put into the queue of harbor i.
Suits(b, i, S, T, V) ==
  /\ SlaveLine(b, i)
  /\ \A j \in 1 .. Len(S[i]), k \in 1 .. Len(b) : S[i][j].to = b[k].to => S[i][j].n < b[k].n
  /\ \A j \in 1 .. Len(T), k \in 1 .. Len(b) : T[j].via = i /\ T[j].to = b[k].to => T[j].n < b[k].n
  /\ \A x \in Name : V[x] = None => Absent(b, x)

LEMMA OrderSlave ==
  ASSUME NEW N, NEW S \in [Id -> Seq(Messages)], NEW T, NEW V, NEW F, InOrder(N, S, T, V, F),
         NEW i \in Id, NEW b \in Seq(Messages), Suits(b, i, S, T, V), NEW R, SlaveMore(R, S, i, b)
  PROVE  InOrder(N, R, T, V, F)
<1> DEFINE a == S[i]
<1>1. a \in Seq(Messages)
  OBVIOUS
<1>2. SlaveLine(a, i) /\ SlaveLine(b, i)
  BY DEF InOrder, SlaveLines, Suits
<1>3. \A j \in 1 .. Len(a), k \in 1 .. Len(b) : a[j].to = b[k].to => a[j].n < b[k].n
  BY DEF Suits
<1>4. R[i] = a \o b /\ \A j \in Id : j # i => R[j] = S[j]
  BY DEF SlaveMore
<1>5. \A k \in 1 .. Len(T), j \in 1 .. Len(a) : T[k].via = i /\ T[k].to = a[j].to => T[k].n < a[j].n
  BY DEF InOrder, Ahead
<1>6. \A x \in Name : V[x] = None => Absent(T, x) /\ Absent(a, x) /\ Absent(b, x)
  BY DEF InOrder, Unknown, Suits
<1> HIDE DEF a
<1>7. SlaveLine(a \o b, i)
  <2>1. Rising(a) /\ Rising(b) /\ (\A k \in 1 .. Len(a) : Fits(a[k], i)) /\ (\A k \in 1 .. Len(b) : Fits(b[k], i))
    BY <1>2 DEF SlaveLine
  <2>2. Rising(a \o b)
    BY <1>1, <1>3, <2>1, RisingMore
  <2>3. ASSUME NEW k \in 1 .. Len(a \o b) PROVE Fits((a \o b)[k], i)
    BY <1>1, <2>1, EachConcat
  <2> QED BY <2>2, <2>3 DEF SlaveLine
<1>8. SlaveLines(R)
  BY <1>4, <1>7 DEF InOrder, SlaveLines
<1>9. Ahead(R, T)
  <2> SUFFICES ASSUME NEW h \in Id, NEW j \in 1 .. Len(R[h]), NEW k \in 1 .. Len(T),
                      T[k].via = h, T[k].to = R[h][j].to
               PROVE  T[k].n < R[h][j].n
    BY DEF Ahead
  <2>1. CASE h # i
    BY <1>4, <2>1 DEF InOrder, Ahead
  <2>2. CASE h = i
    <3>1. j \in 1 .. Len(a \o b) /\ R[h][j] = (a \o b)[j]
      BY <1>4, <2>2
    <3>2. CASE j \in 1 .. Len(a) /\ (a \o b)[j] = a[j]
      BY <1>5, <2>2, <3>1, <3>2
    <3>3. CASE j > Len(a) /\ j - Len(a) \in 1 .. Len(b) /\ (a \o b)[j] = b[j - Len(a)]
      <4> DEFINE g == j - Len(a)
      <4>1. g \in 1 .. Len(b) /\ R[h][j] = b[g] /\ T[k].to = b[g].to
        BY <3>1, <3>3
      <4> HIDE DEF g
      <4> QED BY <2>2, <4>1 DEF Suits
    <3> QED BY <1>1, <3>1, <3>2, <3>3, EachConcat
  <2> QED BY <2>1, <2>2
<1>10. Unknown(R, T, V)
  <2> SUFFICES ASSUME NEW x \in Name, V[x] = None PROVE Absent(T, x) /\ \A j \in Id : Absent(R[j], x)
    BY DEF Unknown
  <2>1. Absent(a \o b, x)
    BY <1>1, <1>6, AbsentMore
  <2>2. \A j \in Id : Absent(S[j], x)
    BY DEF InOrder, Unknown
  <2> QED BY <1>4, <1>6, <2>1, <2>2
<1> QED BY <1>8, <1>9, <1>10 DEF InOrder


\* What a record of `sent` may hold.
LEMMA SentTyped ==
  ASSUME NEW S, NEW e \in Seq(S), NEW k \in 1 .. Len(e)
  PROVE  e[k] \in S
OBVIOUS

LEMMA MessageTyped ==
  ASSUME NEW m \in Messages
  PROVE  m.n \in Nat /\ m.to \in Handle \cup Name /\ m.to # None /\ m.dest \in Handle \cup {None}
BY HarborAssumption DEF Messages

\* Name x becomes known.
Learns(W, V, x) == W[x] # None /\ \A y \in Name : y # x => W[y] = V[y]
AllFit(e, i) == \A k \in 1 .. Len(e) : Fits(e[k], i)

\* What leaves for harbor i, from messages in order.
Leaves(e, c, i, fd) ==
  /\ Len(e) = Len(c)
  /\ \A k \in 1 .. Len(c) : e[k].n = c[k].n /\ e[k].to = c[k].to /\ e[k].via = i /\ e[k].fd = fd

LEMMA LeavesLine ==
  ASSUME NEW c \in Seq(Messages), NEW e, NEW i, NEW fd, Leaves(e, c, i, fd), Rising(c),
         \A k \in 1 .. Len(e) : Fits(e[k], i)
  PROVE  SentLine(e)
<1>1. \A k \in 1 .. Len(e) : Fits(e[k], e[k].via) /\ e[k].to # None
  BY SentTyped, MessageTyped DEF Leaves
<1>2. \A j, k \in 1 .. Len(e) : j < k => Overtakes(e[j], e[k])
  BY DEF Leaves, Rising, Overtakes
<1> QED BY <1>1, <1>2 DEF SentLine

\* The queue of harbor i leaves on a connection that has been greeted.
LEMMA OrderFlush ==
  ASSUME NEW N, NEW S \in [Id -> Seq(Messages)], NEW T \in Seq(SentRecord), NEW V, NEW F,
         InOrder(N, S, T, V, F), NEW i \in Id, NEW fd, fd # 0 => HasGreeted(T, Len(T), fd),
         NEW e \in Seq(SentRecord), Leaves(e, S[i], i, fd), \A k \in 1 .. Len(e) : e[k].dest = S[i][k].dest,
         NEW R, SlaveReleased(R, S, {i})
  PROVE  InOrder(N, R, T \o e, V, F)
<1> DEFINE c == S[i]
<1>1. c \in Seq(Messages) /\ R[i] = <<>> /\ \A j \in Id : j # i => R[j] = S[j]
  BY DEF SlaveReleased
<1>2. InOrder(N, R, T, V, F)
  <2>1. Fewer(N, R, V, F, N, S, V, F)
    BY <1>1 DEF Fewer
  <2> QED BY <2>1, OrderFewer
<1>3. Rising(c) /\ \A k \in 1 .. Len(c) : Fits(c[k], i)
  BY DEF InOrder, SlaveLines, SlaveLine
<1>4. \A j \in 1 .. Len(T), k \in 1 .. Len(c) : T[j].via = i /\ T[j].to = c[k].to => T[j].n < c[k].n
  BY DEF InOrder, Ahead
<1>5. \A x \in Name : V[x] = None => Absent(c, x)
  BY DEF InOrder, Unknown
<1>6. /\ Len(e) = Len(c)
      /\ \A k \in 1 .. Len(e) : /\ e[k].n = c[k].n /\ e[k].to = c[k].to /\ e[k].via = i /\ e[k].fd = fd
                                /\ e[k].dest = c[k].dest
  BY DEF Leaves
<1>7. SentLine(e)
  <2>1. \A k \in 1 .. Len(e) : Fits(e[k], i)
    BY <1>3, <1>6 DEF Fits
  <2> QED BY <1>1, <1>3, <2>1, LeavesLine
<1> HIDE DEF c
<1>8. Before(T, e)
  BY <1>4, <1>6 DEF Before, Overtakes
<1>9. Ahead(R, e)
  <2> SUFFICES ASSUME NEW h \in Id, NEW j \in 1 .. Len(R[h]), NEW k \in 1 .. Len(e), e[k].via = h
               PROVE  FALSE
    BY DEF Ahead
  <2> QED BY <1>1, <1>6, EmptyLine
<1>10. \A x \in Name : V[x] = None => Absent(e, x)
  BY <1>5, <1>6 DEF Absent
<1>11. Joins(e, R, T, V, F, F)
  BY <1>6, <1>7, <1>8, <1>9, <1>10 DEF Joins
<1> QED BY <1>2, <1>11, OrderJoin

\* What waited for a name that becomes known leaves for its harbor.
LEMMA OrderNamed ==
  ASSUME NEW N \in [Name -> Seq(Messages)], NEW S, NEW T \in Seq(SentRecord), NEW V, NEW F,
         InOrder(N, S, T, V, F), NEW x \in Name, V[x] = None,
         NEW i \in Id, NEW fd, fd # 0 => HasGreeted(T, Len(T), fd),
         NEW e \in Seq(SentRecord), Leaves(e, N[x], i, fd), AllFit(e, i),
         NEW M, NameReleased(M, N, {x}), NEW W, Learns(W, V, x)
  PROVE  InOrder(M, S, T \o e, W, F)
<1> DEFINE c == N[x]
<1>1. c \in Seq(Messages) /\ M[x] = <<>> /\ \A y \in Name : y # x => M[y] = N[y]
  BY DEF NameReleased
<1>2. InOrder(M, S, T, W, F)
  <2>1. Fewer(M, S, W, F, N, S, V, F)
    BY <1>1 DEF Fewer, Learns
  <2> QED BY <2>1, OrderFewer
<1>3. Rising(c) /\ \A k \in 1 .. Len(c) : c[k].to = x
  BY DEF InOrder, NameLines, NameLine
<1>4. Absent(T, x) /\ \A j \in Id : Absent(S[j], x)
  BY DEF InOrder, Unknown
<1>5. SentLine(e)
  BY <1>1, <1>3, LeavesLine DEF AllFit
<1>6. \A k \in 1 .. Len(e) : e[k].to = x /\ e[k].via = i /\ e[k].fd = fd
  BY <1>3 DEF Leaves
<1>7. Before(T, e)
  BY <1>4, <1>6 DEF Before, Overtakes, Absent
<1>8. Ahead(S, e)
  BY <1>4, <1>6 DEF Ahead, Absent
<1>9. \A y \in Name : W[y] = None => Absent(e, y)
  BY <1>6 DEF Absent, Learns
<1>10. Joins(e, S, T, W, F, F)
  BY <1>5, <1>6, <1>7, <1>8, <1>9 DEF Joins
<1> QED BY <1>2, <1>10, OrderJoin

\* It goes into the queue of its harbor.
LEMMA OrderMerged ==
  ASSUME NEW N \in [Name -> Seq(Messages)], NEW S \in [Id -> Seq(Messages)], NEW T, NEW V, NEW F,
         InOrder(N, S, T, V, F), NEW x \in Name, V[x] = None, NEW i \in Id,
         NEW R, SlaveMore(R, S, i, N[x]),
         NEW M, NameReleased(M, N, {x}), NEW W, Learns(W, V, x)
  PROVE  InOrder(M, R, T, W, F)
<1> DEFINE c == N[x]
<1>1. c \in Seq(Messages) /\ M[x] = <<>> /\ \A y \in Name : y # x => M[y] = N[y]
  BY DEF NameReleased
<1>2. InOrder(M, S, T, W, F)
  <2>1. Fewer(M, S, W, F, N, S, V, F)
    BY <1>1 DEF Fewer, Learns
  <2> QED BY <2>1, OrderFewer
<1>3. Rising(c) /\ \A k \in 1 .. Len(c) : c[k].to = x /\ c[k].dest = None
  BY DEF InOrder, NameLines, NameLine
<1>4. Absent(T, x) /\ Absent(S[i], x)
  BY DEF InOrder, Unknown
<1>5. SlaveLine(c, i)
  BY <1>3, HarborAssumption DEF SlaveLine, Fits
<1>6. Suits(c, i, S, T, W)
  BY <1>3, <1>4, <1>5 DEF Suits, Absent, Learns
<1> HIDE DEF c
<1>7. SlaveMore(R, S, i, c)
  BY DEF c
<1> QED BY <1>1, <1>2, <1>6, <1>7, OrderSlave

\* A new message goes into the queue of harbor i.
LEMMA OrderGiven ==
  ASSUME NEW N, NEW S \in [Id -> Seq(Messages)], NEW T, NEW V, NEW F, InOrder(N, S, T, V, F),
         NEW i \in Id, NEW m \in Messages, Fits(m, i),
         \A x \in Name : V[x] = None => m.to # x, \A k \in 1 .. Len(T) : T[k].n < m.n,
         \A k \in 1 .. Len(S[i]) : S[i][k].n < m.n, NEW R, SlaveMore(R, S, i, <<m>>)
  PROVE  InOrder(N, R, T, V, F)
<1> DEFINE b == <<m>>
<1>1. b \in Seq(Messages) /\ Len(b) = 1 /\ b[1] = m
  OBVIOUS
<1> HIDE DEF b
<1>2. SlaveLine(b, i)
  BY <1>1 DEF SlaveLine, Rising
<1>3. \A x \in Name : V[x] = None => Absent(b, x)
  BY <1>1 DEF Absent
<1>6. \A k \in 1 .. Len(b) : b[k] = m
  BY <1>1
<1>7. \A j \in 1 .. Len(S[i]), k \in 1 .. Len(b) : S[i][j].to = b[k].to => S[i][j].n < b[k].n
  BY <1>6
<1>8. \A j \in 1 .. Len(T), k \in 1 .. Len(b) : T[j].via = i /\ T[j].to = b[k].to => T[j].n < b[k].n
  BY <1>6
<1>4. Suits(b, i, S, T, V)
  BY <1>2, <1>3, <1>7, <1>8 DEF Suits
<1>5. SlaveMore(R, S, i, b)
  BY DEF b
<1> QED BY <1>1, <1>4, <1>5, OrderSlave

\* It leaves at once.
LEMMA OrderSent ==
  ASSUME NEW N, NEW S, NEW T \in Seq(SentRecord), NEW V, NEW F, InOrder(N, S, T, V, F),
         NEW i \in Id, NEW m \in Messages, Fits(m, i),
         \A x \in Name : V[x] = None => m.to # x, \A k \in 1 .. Len(T) : T[k].n < m.n,
         S[i] = <<>>, NEW fd, fd # 0 => HasGreeted(T, Len(T), fd), NEW r \in SentRecord,
         r.n = m.n, r.to = m.to, r.dest = m.dest, r.via = i, r.fd = fd
  PROVE  InOrder(N, S, T \o <<r>>, V, F)
<1> DEFINE e == <<r>>
<1>1. e \in Seq(SentRecord) /\ Len(e) = 1 /\ e[1] = r
  OBVIOUS
<1> HIDE DEF e
<1>2. r.to # None /\ Fits(r, i)
  BY MessageTyped DEF Fits
<1>3. SentLine(e)
  BY <1>1, <1>2 DEF SentLine
<1>4. Before(T, e)
  BY <1>1 DEF Before, Overtakes
<1>5. Ahead(S, e)
  <2> SUFFICES ASSUME NEW h \in Id, NEW j \in 1 .. Len(S[h]), NEW k \in 1 .. Len(e), e[k].via = h
               PROVE  FALSE
    BY DEF Ahead
  <2> QED BY <1>1, EmptyLine
<1>6. \A x \in Name : V[x] = None => Absent(e, x)
  BY <1>1 DEF Absent
<1>7. Joins(e, S, T, V, F, F)
  BY <1>1, <1>3, <1>4, <1>5, <1>6 DEF Joins
<1> QED BY <1>1, <1>7, OrderJoin DEF e

\* The own id leaves.
LEMMA OrderGreet ==
  ASSUME NEW N, NEW S \in [Id -> Seq(Messages)], NEW T \in Seq(SentRecord), NEW V, NEW F,
         InOrder(N, S, T, V, F), NEW i \in Id, NEW fd \in 0 .. MaxFd,
         NEW G, G[i] = fd, \A j \in Id : j # i => G[j] = F[j], NEW r \in SentRecord,
         r.n = 0, r.to = None, r.dest = None, r.via = i, r.fd = fd
  PROVE  InOrder(N, S, T \o <<r>>, V, G)
<1> DEFINE e == <<r>>
<1>1. e \in Seq(SentRecord) /\ Len(e) = 1 /\ e[1] = r
  OBVIOUS
<1> HIDE DEF e
<1>2. Fits(r, i) /\ \A x \in Name : x # None
  BY HarborAssumption DEF Fits
<1>3. SentLine(e)
  BY <1>1, <1>2 DEF SentLine
<1>4. Before(T, e)
  <2>1. \A j \in 1 .. Len(T) : T[j].to = None => T[j].n = 0
    BY DEF InOrder, SentLine
  <2> QED BY <1>1, <2>1 DEF Before, Overtakes
<1>5. Ahead(S, e)
  <2> SUFFICES ASSUME NEW h \in Id, NEW j \in 1 .. Len(S[h]), NEW k \in 1 .. Len(e), e[k].to = S[h][j].to
               PROVE  FALSE
    BY DEF Ahead
  <2>1. S[h][j] \in Messages
    BY SentTyped
  <2>2. S[h][j].to # None
    BY <2>1, MessageTyped
  <2> QED BY <1>1, <2>2
<1>6. \A x \in Name : V[x] = None => Absent(e, x)
  BY <1>1, <1>2 DEF Absent
<1>7. Joins(e, S, T, V, F, G)
  <2>1. \A k \in 1 .. Len(e) : e[k].n = 0
    BY <1>1
  <2>2. \E k \in 1 .. Len(e) : e[k].fd = fd /\ e[k].n = 0
    BY <1>1
  <2> QED BY <1>3, <1>4, <1>5, <1>6, <2>1, <2>2 DEF Joins
<1> QED BY <1>1, <1>7, OrderJoin DEF e


-----------------------------------------------------------------------------
\* Both together, and what each kind of step does to them.
Sound(N, S, T, A, D, V, F, nx) == Whole(N, S, T, A, D, nx) /\ InOrder(N, S, T, V, F)

LEMMA Below ==
  ASSUME NEW q, NEW nx \in Nat \ {0}, Ns(q) \ {0} \subseteq 1 .. nx - 1, NEW k \in 1 .. Len(q)
  PROVE  q[k].n < nx
<1>1. q[k].n \in Ns(q)
  BY DEF Ns
<1> QED BY <1>1

LEMMA GivenToName ==
  ASSUME NEW N, NEW S, NEW T, NEW A, NEW D, NEW V, NEW F, NEW nx, NEW ny, ny = nx + 1,
         Sound(N, S, T, A, D, V, F, nx), NEW x \in Name,
         NEW m \in Messages, m.n = nx, m.to = x, m.dest = None,
         NEW M \in [Name -> Seq(Messages)], NameMore(M, N, x, m)
  PROVE  Sound(M, S, T, A, D, V, F, ny)
<1> DEFINE q == N[x]
           p == M[x]
<1>1. /\ N \in [Name -> Seq(Messages)] /\ S \in [Id -> Seq(Messages)] /\ T \in Seq(SentRecord)
      /\ nx \in Nat \ {0} /\ q \in Seq(Messages) /\ Distinct(q) /\ Ns(q) \subseteq 1 .. nx - 1
      /\ Whole(N, S, T, A, D, nx) /\ InOrder(N, S, T, V, F)
  BY WholeIs DEF Sound
<1>2. p = Append(q, m) /\ \A y \in Name : y # x => M[y] = N[y]
  BY <1>1, AppendIs DEF NameMore
<1> HIDE DEF q, p
<1>3. Distinct(p) /\ Ns(p) = Ns(q) \cup {nx}
  BY <1>1, <1>2, AddToQueue
<1>4. Typed(M, S, T, A, D, ny)
  BY <1>1 DEF Typed
<1>5. Whole(M, S, T, A, D, ny)
  <2>1. Distinct(M[x]) /\ Ns(M[x]) = Ns(N[x]) \cup {nx}
    BY <1>3 DEF p, q
  <2>2. Whole(N, S, T, A, D, nx) /\ \A y \in Name : y # x => M[y] = N[y]
    BY <1>1, <1>2
  <2> QED BY <1>4, <2>1, <2>2, AddToName
<1>6. \A k \in 1 .. Len(q) : q[k].n < m.n
  BY <1>1, Below
<1>7. InOrder(M, S, T, V, F)
  BY <1>1, <1>6, OrderName DEF q
<1> QED BY <1>5, <1>7 DEF Sound

LEMMA GivenToSlave ==
  ASSUME NEW N, NEW S, NEW T, NEW A, NEW D, NEW V, NEW F, NEW nx, NEW ny, ny = nx + 1,
         Sound(N, S, T, A, D, V, F, nx), NEW i \in Id,
         NEW m \in Messages, m.n = nx, Fits(m, i), \A x \in Name : V[x] = None => m.to # x,
         NEW R \in [Id -> Seq(Messages)], SlaveMore(R, S, i, <<m>>)
  PROVE  Sound(N, R, T, A, D, V, F, ny)
<1> DEFINE q == S[i]
           p == R[i]
<1>1. /\ N \in [Name -> Seq(Messages)] /\ S \in [Id -> Seq(Messages)] /\ T \in Seq(SentRecord)
      /\ nx \in Nat \ {0} /\ q \in Seq(Messages) /\ Distinct(q) /\ Ns(q) \subseteq 1 .. nx - 1
      /\ Ns(T) \ {0} \subseteq 1 .. nx - 1
      /\ Whole(N, S, T, A, D, nx) /\ InOrder(N, S, T, V, F)
  BY WholeIs DEF Sound
<1>2. p = Append(q, m) /\ \A j \in Id : j # i => R[j] = S[j]
  BY <1>1, AppendIs DEF SlaveMore
<1> HIDE DEF q, p
<1>3. Distinct(p) /\ Ns(p) = Ns(q) \cup {nx}
  BY <1>1, <1>2, AddToQueue
<1>4. Typed(N, R, T, A, D, ny)
  BY <1>1 DEF Typed
<1>5. Whole(N, R, T, A, D, ny)
  <2>1. Distinct(R[i]) /\ Ns(R[i]) = Ns(S[i]) \cup {nx}
    BY <1>3 DEF p, q
  <2> QED BY <1>1, <1>2, <1>4, <2>1, AddToSlave
<1>6. (\A k \in 1 .. Len(q) : q[k].n < m.n) /\ \A k \in 1 .. Len(T) : T[k].n < m.n
  BY <1>1, Below
<1>7. InOrder(N, R, T, V, F)
  BY <1>1, <1>6, OrderGiven DEF q
<1> QED BY <1>5, <1>7 DEF Sound

LEMMA GivenToSent ==
  ASSUME NEW N, NEW S, NEW T, NEW A, NEW D, NEW V, NEW F, NEW nx, NEW ny, ny = nx + 1,
         Sound(N, S, T, A, D, V, F, nx), NEW i \in Id,
         NEW m \in Messages, m.n = nx, Fits(m, i), \A x \in Name : V[x] = None => m.to # x,
         S[i] = <<>>, NEW fd \in 0 .. MaxFd, fd # 0 => F[i] = fd
  PROVE  Sound(N, S, Append(T, Leaving(m, i, fd)), A, D, V, F, ny)
<1> DEFINE r == Leaving(m, i, fd)
<1>1. /\ N \in [Name -> Seq(Messages)] /\ S \in [Id -> Seq(Messages)] /\ T \in Seq(SentRecord)
      /\ nx \in Nat \ {0} /\ Ns(T) \ {0} \subseteq 1 .. nx - 1
      /\ Whole(N, S, T, A, D, nx) /\ InOrder(N, S, T, V, F)
  BY WholeIs DEF Sound
<1>2. r \in SentRecord /\ r.n = m.n /\ r.to = m.to /\ r.dest = m.dest /\ r.via = i /\ r.fd = fd
  BY LeavingTyped DEF Leaving
<1> HIDE DEF r
<1>3. Whole(N, S, Append(T, r), A, D, ny)
  BY <1>1, <1>2, AddToSent
<1>4. \A k \in 1 .. Len(T) : T[k].n < m.n
  BY <1>1, Below
<1>5. fd # 0 => HasGreeted(T, Len(T), fd)
  BY <1>1 DEF InOrder, Greeted
<1>6. InOrder(N, S, T \o <<r>>, V, F)
  BY <1>1, <1>2, <1>4, <1>5, OrderSent
<1>7. Append(T, r) = T \o <<r>>
  BY <1>1, <1>2, AppendIs
<1> QED BY <1>3, <1>6, <1>7 DEF Sound, r

LEMMA GivenToAnswered ==
  ASSUME NEW N, NEW S, NEW T, NEW A, NEW D, NEW V, NEW F, NEW nx, NEW ny, ny = nx + 1,
         Sound(N, S, T, A, D, V, F, nx)
  PROVE  Sound(N, S, T, A \cup {nx}, D, V, F, ny)
BY AddToAnswered DEF Sound

\* What leaves from a queue, in terms of numbers.
LEMMA LeavesIs ==
  ASSUME NEW c \in Seq(Messages), NEW e \in Seq(SentRecord), NEW i, NEW fd, Leaves(e, c, i, fd)
  PROVE  Ns(e) = Ns(c) /\ (Distinct(c) => Distinct(e))
<1>1. Len(e) = Len(c) /\ \A k \in 1 .. Len(c) : e[k].n = c[k].n
  BY DEF Leaves
<1> QED BY <1>1 DEF Ns, Distinct

LEMMA SentAfter ==
  ASSUME NEW T \in Seq(SentRecord), NEW e \in Seq(SentRecord), NEW c,
         Distinct(T), Distinct(e), Ns(e) = Ns(c), Ns(c) \cap Ns(T) \subseteq {0}
  PROVE  T \o e \in Seq(SentRecord) /\ Distinct(T \o e) /\ SentGets(T \o e, T, Ns(c))
<1>1. T \o e \in Seq(SentRecord)
  BY ConcatIs
<1>2. Ns(T \o e) = Ns(T) \cup Ns(e)
  BY NsConcat
<1>3. Distinct(T \o e)
  BY NsConcat
<1> QED BY <1>1, <1>2, <1>3 DEF SentGets

LEMMA Flushed ==
  ASSUME NEW N, NEW S, NEW T, NEW A, NEW D, NEW V, NEW F, NEW nx, Sound(N, S, T, A, D, V, F, nx),
         NEW i \in Id, NEW fd, fd # 0 => F[i] = fd,
         NEW e \in Seq(SentRecord), Leaves(e, S[i], i, fd), \A k \in 1 .. Len(e) : e[k].dest = S[i][k].dest,
         NEW R \in [Id -> Seq(Messages)], SlaveReleased(R, S, {i})
  PROVE  Sound(N, R, T \o e, A, D, V, F, nx)
<1> DEFINE c == S[i]
           U == T \o e
<1>1. /\ N \in [Name -> Seq(Messages)] /\ S \in [Id -> Seq(Messages)] /\ T \in Seq(SentRecord)
      /\ nx \in Nat \ {0} /\ c \in Seq(Messages) /\ Distinct(c) /\ Distinct(T) /\ Ns(c) \cap Ns(T) \subseteq {0}
      /\ Whole(N, S, T, A, D, nx) /\ InOrder(N, S, T, V, F)
  BY WholeIs DEF Sound
<1>2. fd # 0 => HasGreeted(T, Len(T), fd)
  BY <1>1 DEF InOrder, Greeted
<1>3. InOrder(N, R, U, V, F)
  BY <1>1, <1>2, OrderFlush
<1>4. SlaveEmptied(R, S, i) /\ \A j \in Id : Distinct(R[j])
  BY <1>1, NsOne DEF SlaveReleased, SlaveEmptied, Whole, AllDistinct
<1> HIDE DEF c
<1>5. Ns(e) = Ns(c) /\ Distinct(e)
  BY <1>1, LeavesIs DEF c
<1>6. U \in Seq(SentRecord) /\ Distinct(U) /\ SentGets(U, T, Ns(c))
  BY <1>1, <1>5, SentAfter
<1> HIDE DEF U
<1>7. Typed(N, R, U, A, D, nx) /\ AllDistinct(N, R, U)
  BY <1>1, <1>4, <1>6 DEF Typed, AllDistinct, Whole
<1>8. Whole(N, R, U, A, D, nx)
  BY <1>1, <1>4, <1>6, <1>7, SlaveToSent DEF c
<1> QED BY <1>3, <1>8 DEF Sound, U

LEMMA NamedSent ==
  ASSUME NEW N, NEW S, NEW T, NEW A, NEW D, NEW V, NEW F, NEW nx, Sound(N, S, T, A, D, V, F, nx),
         NEW x \in Name, V[x] = None, NEW i \in Id, NEW fd, fd # 0 => F[i] = fd,
         NEW e \in Seq(SentRecord), Leaves(e, N[x], i, fd), AllFit(e, i),
         NEW M \in [Name -> Seq(Messages)], NameReleased(M, N, {x}),
         NEW W, Learns(W, V, x)
  PROVE  Sound(M, S, T \o e, A, D, W, F, nx)
<1> DEFINE c == N[x]
           U == T \o e
<1>1. /\ N \in [Name -> Seq(Messages)] /\ S \in [Id -> Seq(Messages)] /\ T \in Seq(SentRecord)
      /\ nx \in Nat \ {0} /\ c \in Seq(Messages) /\ Distinct(c) /\ Distinct(T) /\ Ns(c) \cap Ns(T) \subseteq {0}
      /\ Whole(N, S, T, A, D, nx) /\ InOrder(N, S, T, V, F)
  BY WholeIs DEF Sound
<1>2. fd # 0 => HasGreeted(T, Len(T), fd)
  BY <1>1 DEF InOrder, Greeted
<1>3. InOrder(M, S, U, W, F)
  BY <1>1, <1>2, OrderNamed
<1>4. NameEmptied(M, N, x) /\ \A y \in Name : Distinct(M[y])
  BY <1>1, NsOne DEF NameReleased, NameEmptied, Whole, AllDistinct
<1> HIDE DEF c
<1>5. Ns(e) = Ns(c) /\ Distinct(e)
  BY <1>1, LeavesIs DEF c
<1>6. U \in Seq(SentRecord) /\ Distinct(U) /\ SentGets(U, T, Ns(c))
  BY <1>1, <1>5, SentAfter
<1> HIDE DEF U
<1>7. Typed(M, S, U, A, D, nx) /\ AllDistinct(M, S, U)
  BY <1>1, <1>4, <1>6 DEF Typed, AllDistinct, Whole
<1>8. Whole(M, S, U, A, D, nx)
  BY <1>1, <1>4, <1>6, <1>7, NameToSent DEF c
<1> QED BY <1>3, <1>8 DEF Sound, U

LEMMA NamedQueued ==
  ASSUME NEW N, NEW S, NEW T, NEW A, NEW D, NEW V, NEW F, NEW nx, Sound(N, S, T, A, D, V, F, nx),
         NEW x \in Name, V[x] = None, NEW i \in Id,
         NEW R \in [Id -> Seq(Messages)], SlaveMore(R, S, i, N[x]),
         NEW M \in [Name -> Seq(Messages)], NameReleased(M, N, {x}),
         NEW W, Learns(W, V, x)
  PROVE  Sound(M, R, T, A, D, W, F, nx)
<1> DEFINE c == N[x]
           a == S[i]
<1>1. /\ N \in [Name -> Seq(Messages)] /\ S \in [Id -> Seq(Messages)] /\ T \in Seq(SentRecord)
      /\ nx \in Nat \ {0} /\ c \in Seq(Messages) /\ a \in Seq(Messages) /\ Distinct(c) /\ Distinct(a)
      /\ Ns(c) \cap Ns(a) = {} /\ Whole(N, S, T, A, D, nx) /\ InOrder(N, S, T, V, F)
  BY WholeIs DEF Sound
<1>2. InOrder(M, R, T, W, F)
  BY <1>1, OrderMerged
<1>3. NameEmptied(M, N, x) /\ \A y \in Name : Distinct(M[y])
  BY <1>1, NsOne DEF NameReleased, NameEmptied, Whole, AllDistinct
<1>4. R[i] = a \o c /\ \A j \in Id : j # i => R[j] = S[j]
  BY DEF SlaveMore
<1> HIDE DEF a, c
<1>5. Ns(R[i]) = Ns(a) \cup Ns(c)
  BY <1>1, <1>4, NsConcat
<1>6. Distinct(R[i])
  <2>1. Ns(a) \cap Ns(c) \subseteq {0}
    BY <1>1
  <2> QED BY <1>1, <1>4, <2>1, NsConcat
<1>7. SlaveGets(R, S, i, Ns(c)) /\ \A j \in Id : Distinct(R[j])
  BY <1>1, <1>4, <1>5, <1>6 DEF SlaveGets, a, Whole, AllDistinct
<1>8. Typed(M, R, T, A, D, nx) /\ AllDistinct(M, R, T)
  BY <1>1, <1>3, <1>7 DEF Typed, AllDistinct, Whole
<1>9. Whole(M, R, T, A, D, nx)
  BY <1>1, <1>3, <1>7, <1>8, NameToSlave DEF c
<1> QED BY <1>2, <1>9 DEF Sound

NoneForgotten(W, V) == \A y \in Name : W[y] = None => V[y] = None
OnlyClosed(G, F) == \A j \in Id : G[j] \in {0, F[j]}

LEMMA Released ==
  ASSUME NEW N, NEW S, NEW T, NEW A, NEW D, NEW V, NEW F, NEW nx, Sound(N, S, T, A, D, V, F, nx),
         NEW M \in [Name -> Seq(Messages)], NEW R \in [Id -> Seq(Messages)], NEW E,
         NEW X \in SUBSET Name, NEW I \in SUBSET Id,
         NameReleased(M, N, X), SlaveReleased(R, S, I), Drops(E, D, N, S, X, I),
         NEW W, NoneForgotten(W, V), NEW G, OnlyClosed(G, F)
  PROVE  Sound(M, R, T, A, E, W, G, nx)
<1>1. Whole(N, S, T, A, D, nx) /\ InOrder(N, S, T, V, F) /\ T \in Seq(SentRecord) /\ nx \in Nat \ {0}
  BY WholeIs DEF Sound
<1>2. Typed(M, R, T, A, E, nx)
  BY <1>1 DEF Typed
<1>3. Whole(M, R, T, A, E, nx)
  BY <1>1, <1>2, QueuesDropped
<1>4. Fewer(M, R, W, G, N, S, V, F)
  BY DEF Fewer, NameReleased, SlaveReleased, NoneForgotten, OnlyClosed
<1>5. InOrder(M, R, T, W, G)
  BY <1>1, <1>4, OrderFewer
<1> QED BY <1>3, <1>5 DEF Sound

LEMMA GreetedBy ==
  ASSUME NEW N, NEW S, NEW T, NEW A, NEW D, NEW V, NEW F, NEW nx, Sound(N, S, T, A, D, V, F, nx),
         NEW i \in Id, NEW fd \in 0 .. MaxFd, NEW G, G[i] = fd, \A j \in Id : j # i => G[j] = F[j]
  PROVE  Sound(N, S, Append(T, handshake(i, fd)), A, D, V, G, nx)
<1> DEFINE r == handshake(i, fd)
           e == <<r>>
           U == T \o e
<1>1. /\ Whole(N, S, T, A, D, nx) /\ InOrder(N, S, T, V, F) /\ T \in Seq(SentRecord) /\ nx \in Nat \ {0}
      /\ N \in [Name -> Seq(Messages)] /\ S \in [Id -> Seq(Messages)] /\ Distinct(T)
  BY WholeIs DEF Sound
<1>2. r \in SentRecord /\ r.n = 0 /\ r.to = None /\ r.dest = None /\ r.via = i /\ r.fd = fd
  BY HandshakeTyped DEF handshake, Leaving
<1> HIDE DEF r
<1>3. InOrder(N, S, U, V, G)
  BY <1>1, <1>2, OrderGreet
<1>4. Append(T, r) = U /\ e \in Seq(SentRecord) /\ Ns(e) = {0} /\ Distinct(e)
  BY <1>1, <1>2, AppendIs, NsOne
<1> HIDE DEF e
<1>5. U \in Seq(SentRecord) /\ Ns(U) = Ns(T) \cup Ns(e)
  <2>1. U \in Seq(SentRecord)
    BY <1>1, <1>4, ConcatIs
  <2>2. Ns(U) = Ns(T) \cup Ns(e)
    BY <1>1, <1>4, NsConcat
  <2> QED BY <2>1, <2>2
<1>6. Distinct(U)
  <2>1. Ns(T) \cap Ns(e) \subseteq {0}
    BY <1>4
  <2> QED BY <1>1, <1>4, <2>1, NsConcat
<1> HIDE DEF U
<1>7. Ns(U) \ {0} = Ns(T) \ {0}
  BY <1>4, <1>5
<1>8. Typed(N, S, U, A, D, nx)
  BY <1>1, <1>5 DEF Typed
<1>9. Whole(N, S, U, A, D, nx)
  BY <1>1, <1>6, <1>7, <1>8, NothingMoved
<1> QED BY <1>3, <1>4, <1>9 DEF Sound, r


(***************************************************************************)
(* The books of the service itself.                                        *)
(***************************************************************************)
Books == /\ Sound(nq, sq, sent, answered, dropped, values, fds, next)
         /\ next - 1 <= MaxInput

LEMMA ViewsAre ==
  ASSUME Base
  PROVE  /\ nq \in [Name -> Seq(Messages)] /\ sq \in [Id -> Seq(Messages)] /\ sent \in Seq(SentRecord)
         /\ \A x \in Name : /\ nq[x] = Contents(names[x].queue) /\ values[x] = names[x].value
                            /\ names[x].queue \in {None} \cup Queue
                            /\ names[x].queue # None => names[x].value = None
         /\ \A i \in Id : sq[i] = Contents(slave[i].queue) /\ fds[i] = slave[i].fd
<1>1. /\ \A x \in Name : names[x] \in NameRecord
      /\ \A x \in Name : names[x].queue # None => names[x].value = None
      /\ sent \in Seq(SentRecord)
  BY BaseIs DEF Types, KeptNames
<1>2. \A x \in Name : names[x].queue \in {None} \cup Queue
  BY <1>1 DEF NameRecord
<1>3. \A i \in Id : slave[i].queue \in {None} \cup Queue
  BY SlaveIs
<1>4. nq \in [Name -> Seq(Messages)]
  BY <1>2, ContentsTyped DEF nq
<1>5. sq \in [Id -> Seq(Messages)]
  BY <1>3, ContentsTyped DEF sq
<1> QED BY <1>1, <1>2, <1>4, <1>5 DEF nq, sq, values, fds

\* The same after a step.
LEMMA ViewsNext ==
  ASSUME Base'
  PROVE  /\ nq' \in [Name -> Seq(Messages)] /\ sq' \in [Id -> Seq(Messages)]
         /\ \A x \in Name : nq'[x] = Contents(names'[x].queue) /\ values'[x] = names'[x].value
         /\ \A i \in Id : sq'[i] = Contents(slave'[i].queue) /\ fds'[i] = slave'[i].fd
<1>1. /\ \A x \in Name : names'[x] \in NameRecord
      /\ \A i \in Id : slave'[i] \in SlaveRecord
  BY DEF Base, Types
<1>2. \A x \in Name : names'[x].queue \in {None} \cup Queue
  BY <1>1 DEF NameRecord
<1>3. \A i \in Id : slave'[i].queue \in {None} \cup Queue
  BY <1>1 DEF SlaveRecord
<1>4. nq' \in [Name -> Seq(Messages)]
  BY <1>2, ContentsTyped DEF nq
<1>5. sq' \in [Id -> Seq(Messages)]
  BY <1>3, ContentsTyped DEF sq
<1> QED BY <1>4, <1>5 DEF nq, sq, values, fds

LEMMA SameNames ==
  ASSUME names' = names
  PROVE  nq' = nq /\ values' = values
BY DEF nq, values

LEMMA SameHarbors ==
  ASSUME Base, Base', \A i \in Id : slave'[i].fd = slave[i].fd
  PROVE  fds' = fds /\ ((\A i \in Id : slave'[i].queue = slave[i].queue) => sq' = sq)
BY DEF fds, sq

LEMMA SameBooks ==
  ASSUME Books, nq' = nq, sq' = sq, values' = values, fds' = fds, next' = next,
         sent' = sent, answered' = answered, dropped' = dropped
  PROVE  Books'
BY DEF Books

\* No queue, nor two that are merged, holds more than was ever given.
LEMMA Room ==
  ASSUME Base, Books
  PROVE  /\ \A x \in Name : Len(nq[x]) <= next - 1
         /\ \A i \in Id : Len(sq[i]) <= next - 1
         /\ \A x \in Name, i \in Id : Len(sq[i]) + Len(nq[x]) <= next - 1
<1>1. /\ nq \in [Name -> Seq(Messages)] /\ sq \in [Id -> Seq(Messages)] /\ next \in Nat \ {0}
      /\ \A x \in Name : Distinct(nq[x]) /\ Ns(nq[x]) \subseteq 1 .. next - 1
      /\ \A i \in Id : Distinct(sq[i]) /\ Ns(sq[i]) \subseteq 1 .. next - 1
      /\ \A x \in Name, i \in Id : Ns(nq[x]) \cap Ns(sq[i]) = {}
  BY WholeIs DEF Books, Sound
<1> DEFINE h == next - 1
<1>2. h \in Nat
  BY <1>1
<1> HIDE DEF h
<1>3. ASSUME NEW x \in Name PROVE Len(nq[x]) <= h
  <2>1. nq[x] \in Seq(Messages) /\ Distinct(nq[x]) /\ Ns(nq[x]) \subseteq 1 .. h
    BY <1>1 DEF h
  <2> QED BY <1>2, <2>1, FewMessages
<1>4. ASSUME NEW i \in Id PROVE Len(sq[i]) <= h
  <2>1. sq[i] \in Seq(Messages) /\ Distinct(sq[i]) /\ Ns(sq[i]) \subseteq 1 .. h
    BY <1>1 DEF h
  <2> QED BY <1>2, <2>1, FewMessages
<1>5. ASSUME NEW x \in Name, NEW i \in Id PROVE Len(sq[i]) + Len(nq[x]) <= h
  <2> DEFINE a == sq[i]
             b == nq[x]
             c == a \o b
  <2>1. /\ a \in Seq(Messages) /\ Distinct(a) /\ Ns(a) \subseteq 1 .. h
        /\ b \in Seq(Messages) /\ Distinct(b) /\ Ns(b) \subseteq 1 .. h /\ Ns(a) \cap Ns(b) \subseteq {0}
    BY <1>1 DEF h
  <2> HIDE DEF a, b
  <2>2. Ns(c) = Ns(a) \cup Ns(b)
    BY <2>1, NsConcat
  <2>3. Distinct(c)
    BY <2>1, NsConcat
  <2>4. c \in Seq(Messages) /\ Len(c) = Len(a) + Len(b)
    BY <2>1, ConcatIs
  <2> HIDE DEF c
  <2>5. Len(c) <= h
    BY <1>2, <2>1, <2>2, <2>3, <2>4, FewMessages
  <2> QED BY <2>4, <2>5 DEF a, b
<1> QED BY <1>3, <1>4, <1>5 DEF h


LEMMA RemoteSendBooks ==
  ASSUME Base, Base', Books, MoreInput, NEW to \in Handle \cup Name, NEW handle \in Handle,
         remote_send_handle(to, handle), to \in Handle => to = handle,
         to \in Name => names[to].value = handle,
         names' = names, dropped' = dropped, next' = next + 1
  PROVE  Books'
<1> DEFINE id == HarborOf[handle]
           s == slave[id]
           m == Message(to, handle)
<1>1. /\ id \in Id /\ Self \in Id /\ 0 \in 0 .. MaxFd /\ next \in Nat /\ conns \in Nat /\ frames \in Nat
  BY Ids DEF Base, Types
<1>2. /\ s.fd \in 0 .. MaxFd /\ s.queue \in {None} \cup Queue /\ Kept(id, s) /\ s.status \in Status
      /\ sq[id] = Contents(s.queue) /\ fds[id] = s.fd
  <2> HIDE DEF id
  <2> QED BY <1>1, SlaveIs, ViewsAre
<1>3. m \in Messages /\ m.n = next /\ m.to = to /\ m.dest = handle
  BY <1>1 DEF Message, Messages
<1>4. nq' = nq /\ values' = values
  BY SameNames
<1>5. Fits(m, id)
  BY <1>3 DEF Fits
<1>6. \A x \in Name : values[x] = None => m.to # x
  BY <1>3, ViewsAre, HarborAssumption
<1>7. Sound(nq, sq, sent, answered, dropped, values, fds, next) /\ next <= MaxInput /\ next' - 1 = next
  BY <1>1, HarborAssumption DEF Books, MoreInput
<1> HIDE DEF m, id
<1>8. CASE /\ id = Self /\ sent' = Append(sent, Leaving(m, Self, 0)) /\ UNCHANGED <<slave, answered>>
  <2>1. sq[id] = <<>>
    BY <1>2, <1>8 DEF Kept, Contents
  <2>2. sq' = sq /\ fds' = fds
    BY <1>8 DEF sq, fds
  <2>3. Sound(nq, sq, Append(sent, Leaving(m, id, 0)), answered, dropped, values, fds, next')
    BY <1>1, <1>3, <1>5, <1>6, <1>7, <2>1, GivenToSent
  <2> QED BY <1>4, <1>7, <1>8, <2>2, <2>3 DEF Books
<1>9. CASE /\ ~(s.fd = 0 \/ s.status = "handshake")
           /\ sent' = Append(sent, Leaving(m, id, s.fd)) /\ UNCHANGED <<slave, answered>>
  <2>1. sq[id] = <<>>
    BY <1>2, <1>9 DEF Kept, Contents
  <2>2. sq' = sq /\ fds' = fds
    BY <1>9 DEF sq, fds
  <2>3. Sound(nq, sq, Append(sent, Leaving(m, id, s.fd)), answered, dropped, values, fds, next')
    BY <1>1, <1>2, <1>3, <1>5, <1>6, <1>7, <2>1, GivenToSent
  <2> QED BY <1>4, <1>7, <1>9, <2>2, <2>3 DEF Books
<1>10. CASE answered' = answered \cup {m.n} /\ UNCHANGED <<slave, sent>>
  <2>1. sq' = sq /\ fds' = fds
    BY <1>10 DEF sq, fds
  <2>2. Sound(nq, sq, sent, answered \cup {next}, dropped, values, fds, next')
    BY <1>7, GivenToAnswered
  <2> QED BY <1>3, <1>4, <1>7, <1>10, <2>1, <2>2 DEF Books
<1>11. CASE slave' = [slave EXCEPT ![id].queue = Queued(@, m)] /\ UNCHANGED <<sent, answered>>
  <2> DEFINE q == Queued(s.queue, m)
  <2>1. Len(sq[id]) < MaxInput
    BY <1>1, <1>7, Room, ViewsAre, HarborAssumption
  <2>2. Contents(q) = Append(sq[id], m)
    BY <1>2, <1>3, <2>1, QueuedIs
  <2>3. Append(sq[id], m) = sq[id] \o <<m>>
    BY <1>1, <1>3, ViewsAre, AppendIs
  <2>4. slave \in [Id -> SlaveRecord] /\ slave' = [slave EXCEPT ![id].queue = q]
    BY <1>11 DEF Base, Types
  <2> HIDE DEF q
  <2>5. slave'[id].queue = q /\ slave'[id].fd = slave[id].fd /\ \A j \in Id : j # id => slave'[j] = slave[j]
    BY <1>1, <2>4 DEF SlaveRecord
  <2>6. sq' \in [Id -> Seq(Messages)] /\ SlaveMore(sq', sq, id, <<m>>)
    <3>1. sq'[id] = Contents(q) /\ sq' \in [Id -> Seq(Messages)]
      BY <1>1, <2>5, ViewsNext
    <3>2. \A j \in Id : j # id => sq'[j] = sq[j]
      BY <2>5, ViewsAre, ViewsNext
    <3> QED BY <2>2, <2>3, <3>1, <3>2 DEF SlaveMore
  <2>7. fds' = fds
    BY <2>5, SameHarbors
  <2>8. Sound(nq, sq', sent, answered, dropped, values, fds, next')
    BY <1>1, <1>3, <1>5, <1>6, <1>7, <2>6, GivenToSlave
  <2> QED BY <1>4, <1>7, <1>11, <2>7, <2>8 DEF Books
<1> QED BY <1>8, <1>9, <1>10, <1>11 DEF remote_send_handle, id, m

LEMMA SendHandleBooks ==
  ASSUME Base, Base', Books, NEW handle \in Handle, SendHandle(handle)
  PROVE  Books'
<1>1. /\ MoreInput /\ remote_send_handle(handle, handle) /\ next' = next + 1
      /\ names' = names /\ dropped' = dropped /\ handle \notin Name
  BY HarborAssumption DEF SendHandle
<1> QED BY <1>1, RemoteSendBooks

LEMMA SendNameBooks ==
  ASSUME Base, Base', Books, NEW x \in Name, SendName(x)
  PROVE  Books'
<1>1. /\ MoreInput /\ remote_send_name(x) /\ next' = next + 1 /\ dropped' = dropped
  BY DEF SendName
<1>2. CASE names[x].value # None /\ remote_send_handle(x, names[x].value) /\ UNCHANGED <<names, asked>>
  <2>1. names[x].value \in Handle /\ x \notin Handle
    BY <1>2, HarborAssumption DEF Base, Types, NameRecord
  <2> QED BY <1>1, <1>2, <2>1, RemoteSendBooks
<1>3. CASE /\ names' = [names EXCEPT ![x].queue = Queued(@, Message(x, None))]
           /\ UNCHANGED <<slave, sent, answered>>
  <2> DEFINE m == Message(x, None)
             q == Queued(names[x].queue, m)
  <2>1. next \in Nat /\ conns \in Nat /\ frames \in Nat
    BY DEF Base, Types
  <2>2. m \in Messages /\ m.n = next /\ m.to = x /\ m.dest = None
    BY <2>1 DEF Message, Messages
  <2>3. Sound(nq, sq, sent, answered, dropped, values, fds, next) /\ next <= MaxInput /\ next' - 1 = next
    BY <1>1, <2>1, HarborAssumption DEF Books, MoreInput
  <2>4. Len(nq[x]) < MaxInput
    BY <2>1, <2>3, Room, ViewsAre, HarborAssumption
  <2>5. names \in [Name -> NameRecord] /\ names' = [names EXCEPT ![x].queue = q]
    BY <1>3 DEF Base, Types
  <2> HIDE DEF m
  <2>6. Contents(q) = Append(nq[x], m)
    BY <2>2, <2>4, ViewsAre, QueuedIs
  <2>7. Append(nq[x], m) = nq[x] \o <<m>>
    BY <2>2, ViewsAre, AppendIs
  <2> HIDE DEF q
  <2>8. names'[x].queue = q /\ names'[x].value = names[x].value /\ \A y \in Name : y # x => names'[y] = names[y]
    BY <2>5 DEF NameRecord
  <2>9. nq' \in [Name -> Seq(Messages)] /\ NameMore(nq', nq, x, m)
    <3>1. nq'[x] = Contents(q) /\ nq' \in [Name -> Seq(Messages)]
      BY <2>8, ViewsNext
    <3>2. ASSUME NEW y \in Name, y # x PROVE nq'[y] = nq[y]
      <4>1. nq'[y] = Contents(names'[y].queue) /\ names'[y] = names[y]
        BY <2>8, <3>2, ViewsNext
      <4>2. nq[y] = Contents(names[y].queue)
        BY ViewsAre
      <4> QED BY <4>1, <4>2
    <3> QED BY <2>6, <2>7, <3>1, <3>2 DEF NameMore
  <2>10. sq' = sq /\ fds' = fds /\ values' = values
    BY <1>3, <2>8 DEF sq, fds, values
  <2>11. Sound(nq', sq, sent, answered, dropped, values, fds, next')
    BY <1>1, <2>2, <2>3, <2>9, GivenToName
  <2> QED BY <1>1, <1>3, <2>3, <2>10, <2>11 DEF Books
<1> QED BY <1>1, <1>2, <1>3 DEF remote_send_name


\* One harbor changes, or one name.
LEMMA OtherHarbors ==
  ASSUME Base, Base', NEW id \in Id, \A j \in Id : j # id => slave'[j] = slave[j]
  PROVE  /\ sq'[id] = Contents(slave'[id].queue) /\ fds'[id] = slave'[id].fd
         /\ \A j \in Id : j # id => sq'[j] = sq[j] /\ fds'[j] = fds[j]
         /\ slave'[id].queue = None => SlaveReleased(sq', sq, {id})
<1>1. sq'[id] = Contents(slave'[id].queue) /\ fds'[id] = slave'[id].fd
  BY ViewsNext
<1>2. ASSUME NEW j \in Id, j # id PROVE sq'[j] = sq[j] /\ fds'[j] = fds[j]
  <2>1. sq'[j] = Contents(slave'[j].queue) /\ fds'[j] = slave'[j].fd /\ slave'[j] = slave[j]
    BY <1>2, ViewsNext
  <2>2. sq[j] = Contents(slave[j].queue) /\ fds[j] = slave[j].fd
    BY ViewsAre
  <2> QED BY <2>1, <2>2
<1>3. slave'[id].queue = None => sq'[id] = <<>>
  BY <1>1 DEF Contents
<1> QED BY <1>1, <1>2, <1>3 DEF SlaveReleased

LEMMA OtherNames ==
  ASSUME Base, Base', NEW x \in Name, \A y \in Name : y # x => names'[y] = names[y],
         names'[x].queue = None, names'[x].value # None
  PROVE  NameReleased(nq', nq, {x}) /\ Learns(values', values, x) /\ nq' \in [Name -> Seq(Messages)]
<1>1. nq'[x] = <<>> /\ values'[x] # None /\ nq' \in [Name -> Seq(Messages)]
  BY ViewsNext DEF Contents
<1>2. ASSUME NEW y \in Name, y # x PROVE nq'[y] = nq[y] /\ values'[y] = values[y]
  <2>1. nq'[y] = Contents(names'[y].queue) /\ values'[y] = names'[y].value /\ names'[y] = names[y]
    BY <1>2, ViewsNext
  <2>2. nq[y] = Contents(names[y].queue) /\ values[y] = names[y].value
    BY ViewsAre
  <2> QED BY <2>1, <2>2
<1> QED BY <1>1, <1>2 DEF NameReleased, Learns

\* What leaves from the queue of a harbor, and of a name.
LEMMA LeavesQueue ==
  ASSUME NEW c \in Seq(Messages), NEW i \in Id, NEW fd \in 0 .. MaxFd
  PROVE  /\ LeavingAll(c, i, fd) \in Seq(SentRecord) /\ Leaves(LeavingAll(c, i, fd), c, i, fd)
         /\ \A k \in 1 .. Len(LeavingAll(c, i, fd)) : LeavingAll(c, i, fd)[k].dest = c[k].dest
<1>1. PICK e : e = LeavingAll(c, i, fd)
  OBVIOUS
<1>2. e \in Seq(SentRecord)
  BY <1>1, LeavingAllTyped
<1>3. /\ Len(e) = Len(c)
      /\ \A k \in 1 .. Len(c) : /\ e[k].n = c[k].n /\ e[k].to = c[k].to /\ e[k].dest = c[k].dest
                                /\ e[k].via = i /\ e[k].fd = fd
  BY <1>1, LeavingAllIs
<1>4. Leaves(e, c, i, fd) /\ \A k \in 1 .. Len(e) : e[k].dest = c[k].dest
  BY <1>3 DEF Leaves
<1> QED BY <1>1, <1>2, <1>4

LEMMA LeavesName ==
  ASSUME NEW c \in Seq(Messages), NEW x \in Name, NameLine(c, x), NEW v \in Handle, NEW fd \in 0 .. MaxFd,
         NEW i \in Id, HarborOf[v] = i, NEW e, e = LeavingAll(WithHandle(c, v), i, fd)
  PROVE  e \in Seq(SentRecord) /\ Leaves(e, c, i, fd) /\ AllFit(e, i)
<1>0. PICK w : w = WithHandle(c, v)
  OBVIOUS
<1>1. /\ w \in Seq(Messages) /\ Len(w) = Len(c)
      /\ \A k \in 1 .. Len(c) : w[k].n = c[k].n /\ w[k].to = c[k].to /\ w[k].dest = v
  BY <1>0, WithHandleIs
<1>2. /\ e \in Seq(SentRecord) /\ Len(e) = Len(w)
      /\ \A k \in 1 .. Len(w) : /\ e[k].n = w[k].n /\ e[k].to = w[k].to /\ e[k].dest = w[k].dest
                                /\ e[k].via = i /\ e[k].fd = fd
  <2>1. e = LeavingAll(w, i, fd)
    BY <1>0
  <2>2. e \in Seq(SentRecord)
    BY <1>1, <2>1, LeavingAllTyped
  <2> QED BY <1>1, <2>1, <2>2, LeavingAllIs
<1>3. Leaves(e, c, i, fd)
  BY <1>1, <1>2 DEF Leaves
<1>4. \A k \in 1 .. Len(e) : e[k].dest = v /\ e[k].to = x
  BY <1>1, <1>2 DEF NameLine
<1>5. AllFit(e, i)
  BY <1>4, HarborAssumption DEF AllFit, Fits
<1> QED BY <1>2, <1>3, <1>5

LEMMA UpdateNameBooks ==
  ASSUME Base, Base', Books, NEW x \in Name, NEW v \in Handle, update_name(x, v)
  PROVE  Books'
<1> DEFINE id == HarborOf[v]
           s == slave[id]
           queue == names[x].queue
           all == MergeQueues(s.queue, queue)
           c == nq[x]
<1>1. /\ names' = [names EXCEPT ![x] = [value |-> v, queue |-> None]]
      /\ answered' = answered /\ next' = next
      /\ \/ names[x].queue = None /\ UNCHANGED <<slave, sent, dropped>>
         \/ names[x].queue # None /\ dispatch_name_queue(x, v)
  BY DEF update_name
<1>2. names'[x].queue = None /\ names'[x].value # None /\ \A y \in Name : y # x => names'[y] = names[y]
  <2>1. names \in [Name -> NameRecord] /\ v # None
    BY HarborAssumption DEF Base, Types
  <2> QED BY <1>1, <2>1
<1>3. NameReleased(nq', nq, {x}) /\ Learns(values', values, x) /\ nq' \in [Name -> Seq(Messages)]
  BY <1>2, OtherNames
<1>4. /\ id \in Id /\ Self \in Id /\ 0 \in 0 .. MaxFd
  BY Ids
<1>5. /\ c \in Seq(Messages) /\ c = Contents(queue) /\ queue \in {None} \cup Queue
      /\ queue # None => values[x] = None
  BY ViewsAre
<1>6. /\ s.fd \in 0 .. MaxFd /\ s.queue \in {None} \cup Queue /\ Kept(id, s) /\ s.status \in Status
      /\ sq[id] = Contents(s.queue) /\ fds[id] = s.fd
  <2> HIDE DEF id
  <2> QED BY <1>4, SlaveIs, ViewsAre
<1>7. Sound(nq, sq, sent, answered, dropped, values, fds, next) /\ next - 1 <= MaxInput /\ next \in Nat
  BY DEF Books, Base, Types
<1>8. NameLine(c, x)
  BY <1>7 DEF Sound, InOrder, NameLines
<1>9. HarborOf[v] = id
  OBVIOUS
<1> HIDE DEF id
<1>10. ASSUME slave' = slave PROVE sq' = sq /\ fds' = fds
  BY <1>10 DEF sq, fds
<1>11. NoneForgotten(values', values)
  BY <1>3 DEF Learns, NoneForgotten
<1>12. CASE UNCHANGED <<slave, sent>> /\ dropped' = dropped \cup Numbers(queue)
  <2>1. Numbers(queue) = Ns(c)
    BY <1>5, NumbersAre
  <2>2. Drops(dropped', dropped, nq, sq, {x}, {})
    BY <1>12, <2>1 DEF Drops
  <2>3. SlaveReleased(sq, sq, {}) /\ sq \in [Id -> Seq(Messages)] /\ OnlyClosed(fds, fds)
    BY ViewsAre DEF SlaveReleased, OnlyClosed
  <2>4. Sound(nq', sq, sent, answered, dropped', values', fds, next)
    <3> DEFINE X == {x}
               I == {}
    <3>1. X \in SUBSET Name /\ I \in SUBSET Id
      OBVIOUS
    <3>2. NameReleased(nq', nq, X) /\ SlaveReleased(sq, sq, I) /\ Drops(dropped', dropped, nq, sq, X, I)
      BY <1>3, <2>2, <2>3
    <3> HIDE DEF X, I
    <3> QED BY <1>3, <1>7, <1>11, <2>3, <3>1, <3>2, Released
  <2> QED BY <1>1, <1>7, <1>10, <1>12, <2>4 DEF Books
<1>13. CASE names[x].queue = None /\ UNCHANGED <<slave, sent, dropped>>
  <2>1. Numbers(queue) = {}
    BY <1>5, <1>13, NumbersAre, NsOne DEF Contents
  <2> QED BY <1>12, <1>13, <2>1
<1>14. CASE queue # None /\ slave' = [slave EXCEPT ![id].queue = all] /\ UNCHANGED <<sent, dropped>>
  <2>1. Len(Contents(s.queue)) + Len(Contents(queue)) <= MaxInput
    <3>1. Len(sq[id]) + Len(c) <= next - 1 /\ Len(sq[id]) \in Nat /\ Len(c) \in Nat
      BY <1>4, Room, ViewsAre
    <3> HIDE DEF c
    <3>2. Len(sq[id]) + Len(c) <= MaxInput
      BY <1>7, <3>1, HarborAssumption
    <3> QED BY <1>5, <1>6, <3>2
  <2>2. Contents(all) = sq[id] \o c
    BY <1>5, <1>6, <2>1, MergedIs
  <2>3. slave \in [Id -> SlaveRecord]
    BY DEF Base, Types
  <2> HIDE DEF all
  <2>4. slave'[id].queue = all /\ slave'[id].fd = slave[id].fd /\ \A j \in Id : j # id => slave'[j] = slave[j]
    BY <1>4, <1>14, <2>3 DEF SlaveRecord
  <2>5. SlaveMore(sq', sq, id, c) /\ sq' \in [Id -> Seq(Messages)]
    <3>1. sq'[id] = Contents(all) /\ \A j \in Id : j # id => sq'[j] = sq[j]
      BY <1>4, <2>4, OtherHarbors
    <3>2. sq' \in [Id -> Seq(Messages)]
      BY ViewsNext
    <3> QED BY <2>2, <3>1, <3>2 DEF SlaveMore
  <2>6. fds' = fds
    BY <2>4, SameHarbors
  <2>7. Sound(nq', sq', sent, answered, dropped, values', fds, next)
    BY <1>3, <1>4, <1>5, <1>7, <1>14, <2>5, NamedQueued
  <2> QED BY <1>1, <1>7, <1>14, <2>6, <2>7 DEF Books
<1>15. ASSUME NEW fd \in 0 .. MaxFd, fd # 0 => s.fd = fd, queue # None, dropped' = dropped,
              sent' = sent \o LeavingAll(WithHandle(c, v), id, fd), sq' = sq, fds' = fds
       PROVE  Books'
  <2> DEFINE e == LeavingAll(WithHandle(c, v), id, fd)
  <2>1. e \in Seq(SentRecord) /\ Leaves(e, c, id, fd) /\ AllFit(e, id)
    <3> HIDE DEF c
    <3> QED BY <1>4, <1>5, <1>8, <1>9, LeavesName
  <2>2. sent' = sent \o e
    BY <1>15
  <2> HIDE DEF e
  <2>3. fd # 0 => fds[id] = fd
    BY <1>6, <1>15
  <2>4. Sound(nq', sq, sent \o e, answered, dropped, values', fds, next)
    BY <1>3, <1>4, <1>5, <1>7, <1>15, <2>1, <2>3, NamedSent
  <2> QED BY <1>1, <1>7, <1>15, <2>2, <2>4 DEF Books
<1>16. CASE /\ queue # None /\ s.fd # 0 /\ sent' = sent \o LeavingAll(WithHandle(Contents(queue), v), id, s.fd)
            /\ UNCHANGED <<slave, dropped>>
  BY <1>5, <1>6, <1>10, <1>15, <1>16
<1>17. CASE /\ queue # None /\ id = Self /\ slave' = [slave EXCEPT ![id].queue = None]
            /\ sent' = sent \o LeavingAll(WithHandle(Contents(all), v), Self, 0)
            /\ UNCHANGED dropped
  <2>1. s.queue = None /\ all = queue
    BY <1>6, <1>17 DEF Kept, MergeQueues
  <2>2. slave \in [Id -> SlaveRecord]
    BY DEF Base, Types
  <2>3. \A j \in Id : slave'[j].queue = slave[j].queue /\ slave'[j].fd = slave[j].fd
    BY <1>4, <1>17, <2>1, <2>2 DEF SlaveRecord
  <2>4. sq' = sq /\ fds' = fds
    BY <2>3, SameHarbors
  <2> QED BY <1>4, <1>5, <1>15, <1>17, <2>1, <2>4
<1>18. CASE names[x].queue # None /\ dispatch_name_queue(x, v)
  BY <1>12, <1>14, <1>16, <1>17, <1>18 DEF dispatch_name_queue, id
<1> QED BY <1>1, <1>13, <1>18


LEMMA GreetBooks ==
  ASSUME Base, Base', Books, NEW id \in Id, NEW fd \in 0 .. MaxFd, slave'[id].fd = fd,
         \A j \in Id : j # id => slave'[j] = slave[j], names' = names
  PROVE  Sound(nq', sq, Append(sent, handshake(id, fd)), answered, dropped, values', fds', next)
<1>1. nq' = nq /\ values' = values
  BY SameNames
<1>2. fds'[id] = fd /\ \A j \in Id : j # id => fds'[j] = fds[j]
  BY OtherHarbors
<1>3. Sound(nq, sq, sent, answered, dropped, values, fds, next)
  BY DEF Books
<1>4. Sound(nq, sq, Append(sent, handshake(id, fd)), answered, dropped, values, fds', next)
  BY <1>2, <1>3, GreetedBy
<1> QED BY <1>1, <1>4

LEMMA ConnectBooks ==
  ASSUME Base, Base', Books, NEW id \in Remote, Connect(id)
  PROVE  Books'
<1>1. /\ sent' = Append(sent, handshake(id, conns')) /\ id \in Id /\ conns' \in 0 .. MaxFd
      /\ slave' = [slave EXCEPT ![id].fd = conns', ![id].status = "handshake"]
      /\ names' = names /\ answered' = answered /\ dropped' = dropped /\ next' = next
  BY Ids DEF Connect, Base, Types
<1>2. slave \in [Id -> SlaveRecord]
  BY DEF Base, Types
<1>3. PICK c \in 0 .. MaxFd : c = conns'
  BY <1>1
<1>4. PICK r : r = [slave[id] EXCEPT !.fd = c, !.status = "handshake"]
  OBVIOUS
<1>5. r.fd = c /\ r.queue = slave[id].queue
  BY <1>1, <1>2, <1>4 DEF SlaveRecord
<1>6. slave' = [slave EXCEPT ![id] = r]
  BY <1>1, <1>3, <1>4
<1>7. slave'[id] = r /\ \A j \in Id : j # id => slave'[j] = slave[j]
  BY <1>1, <1>2, <1>6
<1>8. sq' = sq
  BY <1>5, <1>7 DEF sq
<1>9. Sound(nq', sq, Append(sent, handshake(id, c)), answered, dropped, values', fds', next)
  BY <1>1, <1>5, <1>7, GreetBooks
<1> QED BY <1>1, <1>3, <1>8, <1>9 DEF Books

\* The queue of harbor id goes out on its connection.
LEMMA FlushBooks ==
  ASSUME Base, Base', NEW id \in Id, NEW T, NEW fd \in 0 .. MaxFd,
         Sound(nq', sq, T, answered, dropped, values', fds', next), fds'[id] = fd,
         slave'[id].queue = None, \A j \in Id : j # id => slave'[j] = slave[j],
         sent' = T \o dispatch_queue(id, fd), answered' = answered, dropped' = dropped, next' = next,
         Books
  PROVE  Books'
<1> DEFINE c == sq[id]
           e == LeavingAll(c, id, fd)
<1>1. c \in Seq(Messages) /\ c = Contents(slave[id].queue) /\ sq' \in [Id -> Seq(Messages)]
  BY ViewsAre, ViewsNext
<1>2. sent' = T \o e
  BY <1>1 DEF dispatch_queue
<1> HIDE DEF c
<1>3. e \in Seq(SentRecord) /\ Leaves(e, c, id, fd) /\ \A k \in 1 .. Len(e) : e[k].dest = c[k].dest
  BY <1>1, LeavesQueue
<1> HIDE DEF e
<1>4. SlaveReleased(sq', sq, {id})
  BY OtherHarbors
<1>5. Sound(nq', sq', T \o e, answered, dropped, values', fds', next)
  BY <1>1, <1>3, <1>4, Flushed DEF c
<1> QED BY <1>2, <1>5 DEF Books

LEMMA AcceptBooks ==
  ASSUME Base, Base', Books, NEW id \in Remote, Accept(id)
  PROVE  Books'
<1>1. /\ sent' = Append(sent, handshake(id, conns')) \o dispatch_queue(id, conns')
      /\ id \in Id /\ conns' \in 0 .. MaxFd
      /\ slave' = [slave EXCEPT ![id].fd = conns', ![id].status = "header", ![id].queue = None]
      /\ names' = names /\ answered' = answered /\ dropped' = dropped /\ next' = next
  BY Ids DEF Accept, Base, Types
<1>2. slave \in [Id -> SlaveRecord]
  BY DEF Base, Types
<1>3. PICK c \in 0 .. MaxFd : c = conns'
  BY <1>1
<1>4. PICK r : r = [slave[id] EXCEPT !.fd = c, !.status = "header", !.queue = None]
  OBVIOUS
<1>5. r.fd = c /\ r.queue = None
  BY <1>1, <1>2, <1>4 DEF SlaveRecord
<1>6. slave' = [slave EXCEPT ![id] = r]
  BY <1>1, <1>3, <1>4
<1>7. slave'[id] = r /\ \A j \in Id : j # id => slave'[j] = slave[j]
  BY <1>1, <1>2, <1>6
<1>8. Sound(nq', sq, Append(sent, handshake(id, c)), answered, dropped, values', fds', next)
  BY <1>1, <1>5, <1>7, GreetBooks
<1>9. fds'[id] = c
  BY <1>1, <1>5, <1>7, OtherHarbors
<1> DEFINE T == Append(sent, handshake(id, c))
<1>10. sent' = T \o dispatch_queue(id, c)
  BY <1>1, <1>3
<1> HIDE DEF T
<1>11. Sound(nq', sq, T, answered, dropped, values', fds', next)
  BY <1>8 DEF T
<1> QED BY <1>1, <1>5, <1>7, <1>9, <1>10, <1>11, FlushBooks

LEMMA CloseBooks ==
  ASSUME Base, Base', Books, NEW id \in Id, NEW z, CloseAndReturn(id, z),
         UNCHANGED <<names, sent, answered, next>>
  PROVE  Books'
<1>1. slave \in [Id -> SlaveRecord] /\ slave[id].queue \in {None} \cup Queue
  BY SlaveIs DEF Base, Types
<1>2. PICK s : s = [slave[id] EXCEPT !.size = z]
  OBVIOUS
<1>3. PICK r : r = [s EXCEPT !.status = "down", !.fd = 0, !.queue = None]
  OBVIOUS
<1>4. slave' = [slave EXCEPT ![id] = r] /\ dropped' = dropped \cup Numbers(slave[id].queue)
  BY <1>2, <1>3 DEF CloseAndReturn, close_harbor
<1>5. r.fd = 0 /\ r.queue = None
  BY <1>1, <1>2, <1>3 DEF SlaveRecord
<1>6. slave'[id] = r /\ \A j \in Id : j # id => slave'[j] = slave[j]
  BY <1>1, <1>4
<1>7. SlaveReleased(sq', sq, {id}) /\ \A j \in Id : fds'[j] \in {0, fds[j]}
  BY <1>5, <1>6, OtherHarbors
<1>8. Numbers(slave[id].queue) = Ns(sq[id])
  BY <1>1, NumbersAre, ViewsAre
<1> DEFINE X == {}
           I == {id}
<1>9. nq' = nq /\ values' = values
  BY SameNames
<1>10. /\ Drops(dropped', dropped, nq, sq, X, I) /\ SlaveReleased(sq', sq, I) /\ NameReleased(nq', nq, X)
       /\ X \in SUBSET Name /\ I \in SUBSET Id
  BY <1>4, <1>7, <1>8, <1>9 DEF Drops, NameReleased
<1>11. nq' \in [Name -> Seq(Messages)] /\ sq' \in [Id -> Seq(Messages)]
  BY ViewsNext
<1> HIDE DEF X, I
<1>12. Sound(nq, sq, sent, answered, dropped, values, fds, next)
  BY DEF Books
<1>13. Sound(nq', sq', sent, answered, dropped', values', fds', next)
  <2>1. NoneForgotten(values', values)
    BY <1>9 DEF NoneForgotten
  <2>2. OnlyClosed(fds', fds)
    BY <1>7 DEF OnlyClosed
  <2> QED BY <1>10, <1>11, <1>12, <2>1, <2>2, Released
<1> QED BY <1>13 DEF Books

LEMMA ReadHandshakeBooks ==
  ASSUME Base, Base', Books, ReadHandshake
  PROVE  Books'
<1> DEFINE id == reading.id
<1>1. /\ id \in Id /\ slave \in [Id -> SlaveRecord] /\ slave[id].fd \in 0 .. MaxFd
      /\ names' = names /\ answered' = answered /\ next' = next
      /\ \/ CloseAndReturn(id, slave[id].size) /\ UNCHANGED sent
         \/ /\ slave' = [slave EXCEPT ![id].status = "header", ![id].queue = None]
            /\ sent' = sent \o dispatch_queue(id, slave[id].fd)
            /\ dropped' = dropped
  BY ReadingIs, SlaveIs DEF ReadHandshake, Base, Types
<1> HIDE DEF id
<1>2. CASE CloseAndReturn(id, slave[id].size) /\ UNCHANGED sent
  BY <1>1, <1>2, CloseBooks
<1>3. CASE /\ slave' = [slave EXCEPT ![id].status = "header", ![id].queue = None]
           /\ sent' = sent \o dispatch_queue(id, slave[id].fd) /\ dropped' = dropped
  <2>1. PICK r : r = [slave[id] EXCEPT !.status = "header", !.queue = None]
    OBVIOUS
  <2>2. r.fd = slave[id].fd /\ r.queue = None /\ slave' = [slave EXCEPT ![id] = r]
    BY <1>1, <1>3, <2>1 DEF SlaveRecord
  <2>3. slave'[id] = r /\ \A j \in Id : j # id => slave'[j] = slave[j]
    BY <1>1, <2>2
  <2>4. nq' = nq /\ values' = values
    BY <1>1, SameNames
  <2>5. fds' = fds
    BY <2>2, <2>3, SameHarbors
  <2>6. Sound(nq', sq, sent, answered, dropped, values', fds', next)
    BY <2>4, <2>5 DEF Books
  <2>7. fds'[id] = slave[id].fd
    BY <1>1, <2>5, ViewsAre
  <2> QED BY <1>1, <1>3, <2>2, <2>3, <2>6, <2>7, FlushBooks
<1> QED BY <1>1, <1>2, <1>3

\* A step that touches neither queue nor descriptor of any harbor.
LEMMA QuietBooks ==
  ASSUME Base, Base', Books, \A i \in Id : slave'[i].queue = slave[i].queue /\ slave'[i].fd = slave[i].fd,
         UNCHANGED <<names, sent, answered, dropped, next>>
  PROVE  Books'
BY SameNames, SameHarbors, SameBooks

LEMMA ReadHeaderBooks ==
  ASSUME Base, Base', Books, ReadHeader
  PROVE  Books'
<1>1. reading # None /\ reading.id \in Id /\ slave \in [Id -> SlaveRecord]
  BY ReadingIs DEF ReadHeader, Base, Types
<1>2. PICK id \in Id : id = reading.id
  BY <1>1
<1>3. /\ names' = names /\ sent' = sent /\ answered' = answered /\ next' = next
      /\ \/ \E z, n : slave' = [slave EXCEPT ![id].size = z, ![id].read = n] /\ dropped' = dropped
         \/ \E z : CloseAndReturn(id, z)
         \/ \E z, n : /\ slave' = [slave EXCEPT ![id].size = z, ![id].read = 0, ![id].length = n,
                                                ![id].status = "content"]
                      /\ dropped' = dropped
  <2> DEFINE buf == reading.buf
             s == slave[id]
             size == Fill(s, buf)
             need == HeaderSize - s.read
  <2>1. /\ UNCHANGED <<names, sent, answered, next>>
        /\ \/ /\ slave' = [slave EXCEPT ![id].size = size, ![id].read = @ + Len(buf)]
              /\ dropped' = dropped
           \/ \E v \in Decode(size) :
                 \/ CloseAndReturn(id, size)
                 \/ /\ slave' = [slave EXCEPT ![id].size = size, ![id].read = 0, ![id].length = v.len,
                                              ![id].status = "content"]
                    /\ dropped' = dropped
    BY <1>2 DEF ReadHeader
  <2> HIDE DEF size, buf
  <2>2. CASE /\ slave' = [slave EXCEPT ![id].size = size, ![id].read = @ + Len(buf)]
             /\ dropped' = dropped
    BY <2>1, <2>2
  <2>3. CASE \E v \in Decode(size) :
               \/ CloseAndReturn(id, size)
               \/ /\ slave' = [slave EXCEPT ![id].size = size, ![id].read = 0, ![id].length = v.len,
                                            ![id].status = "content"]
                  /\ dropped' = dropped
    <3>1. PICK v \in Decode(size) :
               \/ CloseAndReturn(id, size)
               \/ /\ slave' = [slave EXCEPT ![id].size = size, ![id].read = 0, ![id].length = v.len,
                                            ![id].status = "content"]
                  /\ dropped' = dropped
      BY <2>3
    <3> QED BY <2>1, <3>1
  <2> QED BY <2>1, <2>2, <2>3
<1>4. CASE \E z, n : slave' = [slave EXCEPT ![id].size = z, ![id].read = n] /\ dropped' = dropped
  <2>1. PICK z, n : slave' = [slave EXCEPT ![id].size = z, ![id].read = n] /\ dropped' = dropped
    BY <1>4
  <2>2. \A i \in Id : slave'[i].queue = slave[i].queue /\ slave'[i].fd = slave[i].fd
    BY <1>1, <2>1 DEF SlaveRecord
  <2> QED BY <1>3, <2>1, <2>2, QuietBooks
<1>5. CASE \E z : CloseAndReturn(id, z)
  BY <1>3, <1>5, CloseBooks
<1>6. CASE \E z, n : /\ slave' = [slave EXCEPT ![id].size = z, ![id].read = 0, ![id].length = n,
                                               ![id].status = "content"]
                     /\ dropped' = dropped
  <2>1. PICK z, n : /\ slave' = [slave EXCEPT ![id].size = z, ![id].read = 0, ![id].length = n,
                                              ![id].status = "content"]
                    /\ dropped' = dropped
    BY <1>6
  <2>2. \A i \in Id : slave'[i].queue = slave[i].queue /\ slave'[i].fd = slave[i].fd
    BY <1>1, <2>1 DEF SlaveRecord
  <2> QED BY <1>3, <2>1, <2>2, QuietBooks
<1> QED BY <1>3, <1>4, <1>5, <1>6

LEMMA ReadContentBooks ==
  ASSUME Base, Base', Books, ReadContent
  PROVE  Books'
<1>1. reading # None /\ reading.id \in Id /\ slave \in [Id -> SlaveRecord]
  BY ReadingIs DEF ReadContent, Base, Types
<1>2. PICK id \in Id : id = reading.id
  BY <1>1
<1>3. /\ UNCHANGED <<names, sent, answered, dropped, next>>
      /\ \/ \E n : slave' = [slave EXCEPT ![id].read = n]
         \/ slave' = [slave EXCEPT ![id].length = 0, ![id].read = 0, ![id].status = "header"]
  BY <1>2 DEF ReadContent, history
<1>4. \A i \in Id : slave'[i].queue = slave[i].queue /\ slave'[i].fd = slave[i].fd
  <2>1. CASE \E n : slave' = [slave EXCEPT ![id].read = n]
    BY <1>1, <2>1 DEF SlaveRecord
  <2>2. CASE slave' = [slave EXCEPT ![id].length = 0, ![id].read = 0, ![id].status = "header"]
    BY <1>1, <2>2 DEF SlaveRecord
  <2> QED BY <1>3, <2>1, <2>2
<1> QED BY <1>3, <1>4, QuietBooks

LEMMA ReleaseBooks ==
  ASSUME Base, Base', Books, harbor_release
  PROVE  Books'
<1> DEFINE A == UNION {Numbers(slave[i].queue) : i \in Id}
           B == UNION {Numbers(names[x].queue) : x \in Name}
<1>1. /\ slave' = [i \in Id |-> close_harbor(slave[i])]
      /\ names' = [x \in Name |-> [names[x] EXCEPT !.queue = None]]
      /\ UNCHANGED <<sent, answered, next>>
  BY DEF harbor_release, hash_delete
<1>2. dropped' = dropped \cup A \cup B
  BY Zenon DEF harbor_release
<1>3. /\ \A i \in Id : slave[i] \in SlaveRecord /\ slave[i].queue \in {None} \cup Queue
      /\ \A x \in Name : names[x] \in NameRecord /\ names[x].queue \in {None} \cup Queue
  BY DEF Base, Types, SlaveRecord, NameRecord
<1>4. \A s \in SlaveRecord : close_harbor(s).fd = 0 /\ close_harbor(s).queue = None
  BY DEF close_harbor, SlaveRecord
<1>5. \A r \in NameRecord : LET e == [r EXCEPT !.queue = None] IN e.queue = None /\ e.value = r.value
  BY DEF NameRecord
<1>6. \A i \in Id : slave'[i].fd = 0 /\ slave'[i].queue = None
  BY <1>1, <1>3, <1>4
<1>7. \A x \in Name : names'[x].queue = None /\ names'[x].value = names[x].value
  BY <1>1, <1>3, <1>5
<1>8. \A i \in Id : fds'[i] = 0 /\ sq'[i] = <<>>
  BY <1>6, ViewsNext DEF Contents
<1>9. \A x \in Name : nq'[x] = <<>> /\ values'[x] = values[x]
  BY <1>7, ViewsNext, ViewsAre DEF Contents
<1>10. \A n : n \in A <=> \E i \in Id : n \in Ns(sq[i])
  <2>1. \A i \in Id : Numbers(slave[i].queue) = Ns(sq[i])
    BY <1>3, NumbersAre, ViewsAre
  <2>2. \A n : n \in A <=> \E i \in Id : n \in Numbers(slave[i].queue)
    OBVIOUS
  <2> HIDE DEF A
  <2> QED BY <2>1, <2>2
<1>11. \A n : n \in B <=> \E x \in Name : n \in Ns(nq[x])
  <2>1. \A x \in Name : Numbers(names[x].queue) = Ns(nq[x])
    BY <1>3, NumbersAre, ViewsAre
  <2>2. \A n : n \in B <=> \E x \in Name : n \in Numbers(names[x].queue)
    OBVIOUS
  <2> HIDE DEF B
  <2> QED BY <2>1, <2>2
<1> HIDE DEF A, B
<1>12. Drops(dropped', dropped, nq, sq, Name, Id)
  BY <1>2, <1>10, <1>11 DEF Drops
<1>13. NameReleased(nq', nq, Name) /\ SlaveReleased(sq', sq, Id)
  BY <1>8, <1>9 DEF NameReleased, SlaveReleased
<1>14. nq' \in [Name -> Seq(Messages)] /\ sq' \in [Id -> Seq(Messages)] /\ Name \in SUBSET Name /\ Id \in SUBSET Id
  BY ViewsNext
<1>15. Sound(nq, sq, sent, answered, dropped, values, fds, next)
  BY DEF Books
<1>16. Sound(nq', sq', sent, answered, dropped', values', fds', next)
  <2>1. NoneForgotten(values', values)
    BY <1>9 DEF NoneForgotten
  <2>2. OnlyClosed(fds', fds)
    BY <1>8 DEF OnlyClosed
  <2> QED BY <1>12, <1>13, <1>14, <1>15, <2>1, <2>2, Released
<1> QED BY <1>1, <1>16 DEF Books


LEMMA InitBooks == Init => Books
<1> SUFFICES ASSUME Init PROVE Books
  OBVIOUS
<1>1. Base
  BY InitBase
<1>2. /\ \A x \in Name : names[x].queue = None /\ names[x].value = None
      /\ \A i \in Id : slave[i].queue = None /\ slave[i].fd = 0
      /\ sent = <<>> /\ answered = {} /\ dropped = {} /\ next = 1
  BY DEF Init
<1>3. /\ nq \in [Name -> Seq(Messages)] /\ sq \in [Id -> Seq(Messages)]
      /\ \A x \in Name : nq[x] = <<>>
      /\ \A i \in Id : sq[i] = <<>> /\ fds[i] = 0
  BY <1>1, <1>2, ViewsAre DEF Contents
<1>4. Ns(<<>>) = {} /\ Distinct(<<>>)
  BY NsOne
<1>5. \A l \in Loc : Stored(nq, sq, sent, answered, dropped)[l] = {}
  <2> DEFINE f == Stored(nq, sq, sent, answered, dropped)
  <2>1. /\ \A x \in Name : f[NameAt(x)] = Ns(nq[x])
        /\ \A i \in Id : f[SlaveAt(i)] = Ns(sq[i])
        /\ f[SentAt] = Ns(sent) \ {0} /\ f[AnsweredAt] = answered /\ f[DroppedAt] = dropped
    BY StoredIs
  <2> HIDE DEF f
  <2>2. /\ \A x \in Name : f[NameAt(x)] = {}
        /\ \A i \in Id : f[SlaveAt(i)] = {}
        /\ f[SentAt] = {} /\ f[AnsweredAt] = {} /\ f[DroppedAt] = {}
    BY <1>2, <1>3, <1>4, <2>1
  <2>3. \A l \in Loc : f[l] = {}
    BY <2>2, LocIs
  <2> QED BY <2>3 DEF f
<1>6. IsOnce(Stored(nq, sq, sent, answered, dropped), next)
  BY <1>2, <1>5 DEF IsOnce
<1>7. Typed(nq, sq, sent, answered, dropped, next)
  BY <1>2, <1>3 DEF Typed
<1>8. AllDistinct(nq, sq, sent)
  BY <1>2, <1>3, <1>4 DEF AllDistinct
<1>9. NameLines(nq) /\ SlaveLines(sq)
  BY <1>3, EmptyLine DEF NameLines, SlaveLines
<1>10. SentLine(sent) /\ Ahead(sq, sent) /\ Greeted(sent, fds)
  BY <1>2, <1>3, EmptyLine DEF SentLine, Ahead, Greeted
<1>11. Unknown(sq, sent, values)
  BY <1>2, <1>3, EmptyLine DEF Unknown
<1>12. Sound(nq, sq, sent, answered, dropped, values, fds, next)
  BY <1>6, <1>7, <1>8, <1>9, <1>10, <1>11 DEF Sound, Whole, InOrder
<1> QED BY <1>2, <1>12, HarborAssumption DEF Books

LEMMA NextBooks == Base /\ Base' /\ Books /\ [Next]_vars => Books'
<1> SUFFICES ASSUME Base, Base', Books, [Next]_vars PROVE Books'
  OBVIOUS
<1>1. CASE \E fd \in Fd : Data(fd)
  BY <1>1, QuietBooks DEF Data, history
<1>2. CASE \E fd \in Fd : SocketClosed(fd)
  BY <1>2, QuietBooks DEF SocketClosed
<1>3. CASE \E x \in Name, v \in Handle : update_name(x, v)
  BY <1>3, UpdateNameBooks
<1>4. CASE \E id \in Remote : Connect(id) \/ Accept(id)
  BY <1>4, ConnectBooks, AcceptBooks
<1>5. CASE \E handle \in Handle : SendHandle(handle)
  BY <1>5, SendHandleBooks
<1>6. CASE \E x \in Name : SendName(x)
  BY <1>6, SendNameBooks
<1>7. CASE push_socket_data
  BY <1>7, ReadHandshakeBooks, ReadHeaderBooks, ReadContentBooks DEF push_socket_data
<1>8. CASE harbor_release
  BY <1>8, ReleaseBooks
<1>9. CASE \E fd \in Fd : PeerSend(fd)
  BY <1>9, QuietBooks DEF PeerSend, history
<1>10. CASE \E fd \in Fd : PeerClose(fd)
  BY <1>10, QuietBooks DEF PeerClose, history
<1>11. CASE UNCHANGED vars
  BY <1>11, QuietBooks DEF vars, history
<1> QED BY <1>1, <1>2, <1>3, <1>4, <1>5, <1>6, <1>7, <1>8, <1>9, <1>10, <1>11
        DEF Next, mainloop, harbor_command

LEMMA BooksAlways == Spec => [](Base /\ Books)
<1>1. Init => Base /\ Books
  BY InitBase, InitBooks
<1>2. HarborInv /\ HarborInv' => Base /\ Base'
  BY DEF HarborInv
<1>3. HarborInv /\ HarborInv' /\ Books /\ [Next]_vars => Books'
  BY <1>2, NextBooks
<1>4. HarborInv => Base
  BY DEF HarborInv
<1> QED BY <1>1, <1>3, <1>4, InvAlways, PTL DEF Spec

LEMMA BooksSent == Base /\ Books => SentRight
<1> SUFFICES ASSUME Base, Books, NEW k \in DOMAIN sent
             PROVE  /\ \A j \in 1..(k - 1) :
                          sent[j].to = sent[k].to /\ sent[j].via = sent[k].via /\ sent[j].n # 0
                             => sent[j].n < sent[k].n
                    /\ sent[k].dest # None => HarborOf[sent[k].dest] = sent[k].via
                    /\ sent[k].to \in Handle => sent[k].dest = sent[k].to
                    /\ sent[k].fd # 0 => \E j \in 1..k : sent[j].fd = sent[k].fd /\ sent[j].n = 0
  BY DEF SentRight
<1>1. sent \in Seq(SentRecord) /\ k \in 1 .. Len(sent)
  BY ViewsAre
<1>2. SentLine(sent) /\ Greeted(sent, fds)
  BY DEF Books, Sound, InOrder
<1>3. ASSUME NEW j \in 1..(k - 1) PROVE Overtakes(sent[j], sent[k])
  <2>1. j \in 1 .. Len(sent) /\ j < k
    BY <1>1
  <2> QED BY <1>1, <1>2, <2>1 DEF SentLine
<1>4. Fits(sent[k], sent[k].via)
  BY <1>1, <1>2 DEF SentLine
<1>5. sent[k].fd # 0 => HasGreeted(sent, k, sent[k].fd)
  BY <1>1, <1>2 DEF Greeted
<1> QED BY <1>3, <1>4, <1>5 DEF Overtakes, Fits, HasGreeted

LEMMA BooksAccounted == Base /\ Books => Accounted
<1> SUFFICES ASSUME Base, Books, NEW n \in 1 .. (next - 1) PROVE Cardinality(Places(n)) = 1
  BY DEF Accounted
<1> DEFINE f == Stored(nq, sq, sent, answered, dropped)
<1>1. /\ \A x \in Name : nq[x] = Contents(names[x].queue) /\ nq[x] \in Seq(Messages)
      /\ \A i \in Id : sq[i] = Contents(slave[i].queue) /\ sq[i] \in Seq(Messages)
      /\ sent \in Seq(SentRecord) /\ next \in Nat
  BY ViewsAre DEF Base, Types
<1>2. IsOnce(f, next) /\ AllDistinct(nq, sq, sent) /\ n # 0
  BY <1>1 DEF Books, Sound, Whole
<1>3. /\ \A x \in Name : f[NameAt(x)] = Ns(nq[x])
      /\ \A i \in Id : f[SlaveAt(i)] = Ns(sq[i])
      /\ f[SentAt] = Ns(sent) \ {0} /\ f[AnsweredAt] = answered /\ f[DroppedAt] = dropped
  BY StoredIs
<1> HIDE DEF f
<1>4. /\ \E l \in Loc : n \in f[l]
      /\ \A l, r \in Loc : n \in f[l] /\ n \in f[r] => l = r
  BY <1>2 DEF IsOnce
<1>5. \A p : p \in Places(n) <=>
        \/ \E x \in Name : \E k \in 1 .. Len(nq[x]) : nq[x][k].n = n /\ p = <<"name", x, k>>
        \/ \E i \in Id : \E k \in 1 .. Len(sq[i]) : sq[i][k].n = n /\ p = <<"slave", i, k>>
        \/ \E k \in 1 .. Len(sent) : sent[k].n = n /\ p = <<"sent", k>>
        \/ n \in answered /\ p = <<"answered", n>>
        \/ n \in dropped /\ p = <<"dropped", n>>
  <2>1. /\ \A x \in Name : Positions(Contents(names[x].queue), n) = {k \in 1 .. Len(nq[x]) : nq[x][k].n = n}
        /\ \A i \in Id : Positions(Contents(slave[i].queue), n) = {k \in 1 .. Len(sq[i]) : sq[i][k].n = n}
        /\ Positions(sent, n) = {k \in 1 .. Len(sent) : sent[k].n = n}
    BY <1>1 DEF Positions
  <2>2. \A p : p \in Places(n) <=>
          \/ \E x \in Name : \E k \in Positions(Contents(names[x].queue), n) : p = <<"name", x, k>>
          \/ \E i \in Id : \E k \in Positions(Contents(slave[i].queue), n) : p = <<"slave", i, k>>
          \/ \E k \in Positions(sent, n) : p = <<"sent", k>>
          \/ n \in answered /\ p = <<"answered", n>>
          \/ n \in dropped /\ p = <<"dropped", n>>
    BY DEF Places
  <2> QED BY <2>1, <2>2
<1>6. ASSUME NEW p \in Places(n), NEW q \in Places(n) PROVE p = q
  <2>1. /\ \A x \in Name : \A k \in 1 .. Len(nq[x]) : nq[x][k].n = n => n \in f[NameAt(x)] /\ NameAt(x) \in Loc
        /\ \A i \in Id : \A k \in 1 .. Len(sq[i]) : sq[i][k].n = n => n \in f[SlaveAt(i)] /\ SlaveAt(i) \in Loc
        /\ \A k \in 1 .. Len(sent) : sent[k].n = n => n \in f[SentAt]
        /\ n \in answered => n \in f[AnsweredAt]
        /\ n \in dropped => n \in f[DroppedAt]
        /\ SentAt \in Loc /\ AnsweredAt \in Loc /\ DroppedAt \in Loc
    BY <1>2, <1>3, LocIs DEF Ns
  <2>2. /\ \A x \in Name : \A j, k \in 1 .. Len(nq[x]) : nq[x][j].n = n /\ nq[x][k].n = n => j = k
        /\ \A i \in Id : \A j, k \in 1 .. Len(sq[i]) : sq[i][j].n = n /\ sq[i][k].n = n => j = k
        /\ \A j, k \in 1 .. Len(sent) : sent[j].n = n /\ sent[k].n = n => j = k
    BY <1>2 DEF AllDistinct, Distinct
  <2> DEFINE IsName(r) == \E x \in Name : \E k \in 1 .. Len(nq[x]) : nq[x][k].n = n /\ r = <<"name", x, k>>
             IsSlave(r) == \E i \in Id : \E k \in 1 .. Len(sq[i]) : sq[i][k].n = n /\ r = <<"slave", i, k>>
             IsSent(r) == \E k \in 1 .. Len(sent) : sent[k].n = n /\ r = <<"sent", k>>
             IsAnswered(r) == n \in answered /\ r = <<"answered", n>>
             IsDropped(r) == n \in dropped /\ r = <<"dropped", n>>
  <2>3. /\ IsName(p) \/ IsSlave(p) \/ IsSent(p) \/ IsAnswered(p) \/ IsDropped(p)
        /\ IsName(q) \/ IsSlave(q) \/ IsSent(q) \/ IsAnswered(q) \/ IsDropped(q)
    BY <1>5
  <2>4. /\ \A r : IsName(r) => \E x \in Name : n \in f[NameAt(x)]
        /\ \A r : IsSlave(r) => \E i \in Id : n \in f[SlaveAt(i)]
        /\ \A r : IsSent(r) => n \in f[SentAt]
        /\ \A r : IsAnswered(r) => n \in f[AnsweredAt]
        /\ \A r : IsDropped(r) => n \in f[DroppedAt]
    BY <2>1
  <2>5. /\ ~((\E x \in Name : n \in f[NameAt(x)]) /\ (\E i \in Id : n \in f[SlaveAt(i)]))
        /\ ~((\E x \in Name : n \in f[NameAt(x)]) /\ \E l \in {SentAt, AnsweredAt, DroppedAt} : n \in f[l])
        /\ ~((\E i \in Id : n \in f[SlaveAt(i)]) /\ \E l \in {SentAt, AnsweredAt, DroppedAt} : n \in f[l])
        /\ ~(n \in f[SentAt] /\ n \in f[AnsweredAt])
        /\ ~(n \in f[SentAt] /\ n \in f[DroppedAt])
        /\ ~(n \in f[AnsweredAt] /\ n \in f[DroppedAt])
    BY <1>4, LocIs
  <2>6. ASSUME IsName(p), IsName(q) PROVE p = q
    <3>1. PICK x \in Name : \E k \in 1 .. Len(nq[x]) : nq[x][k].n = n /\ p = <<"name", x, k>>
      BY <2>6
    <3>2. PICK y \in Name : \E k \in 1 .. Len(nq[y]) : nq[y][k].n = n /\ q = <<"name", y, k>>
      BY <2>6
    <3>3. x = y
      BY <1>4, <2>1, <3>1, <3>2, LocIs
    <3> QED BY <2>2, <3>1, <3>2, <3>3
  <2>7. ASSUME IsSlave(p), IsSlave(q) PROVE p = q
    <3>1. PICK x \in Id : \E k \in 1 .. Len(sq[x]) : sq[x][k].n = n /\ p = <<"slave", x, k>>
      BY <2>7
    <3>2. PICK y \in Id : \E k \in 1 .. Len(sq[y]) : sq[y][k].n = n /\ q = <<"slave", y, k>>
      BY <2>7
    <3>3. x = y
      BY <1>4, <2>1, <3>1, <3>2, LocIs
    <3> QED BY <2>2, <3>1, <3>2, <3>3
  <2>8. ASSUME IsSent(p), IsSent(q) PROVE p = q
    BY <2>2, <2>8
  <2>9. (IsAnswered(p) /\ IsAnswered(q)) \/ (IsDropped(p) /\ IsDropped(q)) => p = q
    OBVIOUS
  <2> HIDE DEF IsName, IsSlave, IsSent, IsAnswered, IsDropped
  <2> QED BY <2>3, <2>4, <2>5, <2>6, <2>7, <2>8, <2>9
<1>7. \E p : p \in Places(n)
  <2>1. PICK l \in Loc : n \in f[l]
    BY <1>4
  <2>2. CASE \E x \in Name : l = NameAt(x)
    <3>1. PICK x \in Name : n \in Ns(nq[x])
      BY <1>3, <2>1, <2>2
    <3>2. PICK k \in 1 .. Len(nq[x]) : nq[x][k].n = n
      BY <3>1 DEF Ns
    <3>3. <<"name", x, k>> \in Places(n)
      BY <1>5, <3>2
    <3> QED BY <3>3
  <2>3. CASE \E i \in Id : l = SlaveAt(i)
    <3>1. PICK i \in Id : n \in Ns(sq[i])
      BY <1>3, <2>1, <2>3
    <3>2. PICK k \in 1 .. Len(sq[i]) : sq[i][k].n = n
      BY <3>1 DEF Ns
    <3>3. <<"slave", i, k>> \in Places(n)
      BY <1>5, <3>2
    <3> QED BY <3>3
  <2>4. CASE l = SentAt
    <3>1. n \in Ns(sent)
      BY <1>3, <2>1, <2>4
    <3>2. PICK k \in 1 .. Len(sent) : sent[k].n = n
      BY <3>1 DEF Ns
    <3>3. <<"sent", k>> \in Places(n)
      BY <1>5, <3>2
    <3> QED BY <3>3
  <2>5. CASE l = AnsweredAt
    <3>1. <<"answered", n>> \in Places(n)
      BY <1>3, <1>5, <2>1, <2>5
    <3> QED BY <3>1
  <2>6. CASE l = DroppedAt
    <3>1. <<"dropped", n>> \in Places(n)
      BY <1>3, <1>5, <2>1, <2>6
    <3> QED BY <3>1
  <2> QED BY <2>2, <2>3, <2>4, <2>5, <2>6, LocIs
<1>8. PICK p : p \in Places(n)
  BY <1>7
<1>9. Places(n) = {p}
  BY <1>6, <1>8
<1> QED BY <1>9, FS_Singleton

\* Every message given to the service is in exactly one place, whatever the
\* number of harbors, names and messages: none is lost or doubled when
\* push_queue_msg enlarges a queue, when the queue of a name is merged into
\* the queue of its harbor, when a queue is flushed to a connection, answered
\* or released with it.
THEOREM EveryMessageAccounted == Spec => []Accounted
BY BooksAlways, BooksAccounted, PTL

\* Messages with the same destination leave for a harbor in the order in
\* which they were given, whichever queues they waited in; they carry a handle
\* of that harbor; and nothing leaves on a connection before the own id.
THEOREM MessagesSentRight == Spec => []SentRight
BY BooksAlways, BooksSent, PTL


===============================================================================
