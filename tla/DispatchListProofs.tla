-------------------------- MODULE DispatchListProofs --------------------------
(***************************************************************************)
(* Proofs about the global list of Dispatch and about who has a queue, for *)
(* every finite set of services, workers and other threads: the linked     *)
(* list is a first-in first-out queue, no assertion of mq.cpp fails and a  *)
(* queue has one owner as long as Pop returns no null to MessageDispatch,  *)
(* and no wake-up of a queue is ever lost.                                 *)
(***************************************************************************)
EXTENDS DispatchProofs, SequenceTheorems

-------------------------------------------------------------------------------
(***************************************************************************)
(* The shape of the list, in every reachable state: the queues of some     *)
(* sequence s without repetitions, linked in its order.  A queue that is   *)
(* pushed while it is the tail already (which takes a null returned by     *)
(* Pop) becomes its own successor; the sequence stays the same.            *)
(***************************************************************************)
IsList(s) ==
  /\ head = IF s = <<>> THEN None ELSE s[1]
  /\ tail = IF s = <<>> THEN None ELSE s[Len(s)]
  /\ \A j, k \in 1 .. Len(s) : s[j] = s[k] => j = k
  /\ \A k \in 1 .. Len(s) - 1 : next[s[k]] = s[k + 1]
  /\ s # <<>> => next[s[Len(s)]] \in {None, s[Len(s)]}
  /\ \A q \in Queue : (\A k \in 1 .. Len(s) : s[k] # q) => next[q] = None

ListInv == \E s \in Seq(Queue) : IsList(s)

\* What the code can see of it: q has a successor or is the tail.
Linked(q) == next[q] # None \/ tail = q

NoLoop == tail # None => next[tail] = None

LEMMA LinkedIsInList ==
  ASSUME NEW s \in Seq(Queue), IsList(s), NEW q \in Queue
  PROVE  Linked(q) <=> \E k \in 1 .. Len(s) : s[k] = q
<1> USE DispatchAssumption
<1>1. ASSUME NEW k \in 1 .. Len(s), s[k] = q PROVE Linked(q)
  <2>1. CASE k = Len(s)
    BY <1>1, <2>1 DEF IsList, Linked
  <2>2. CASE k # Len(s)
    <3>1. k \in 1 .. Len(s) - 1 /\ k + 1 \in 1 .. Len(s) /\ s[k + 1] \in Queue
      BY <2>2
    <3>2. next[s[k]] = s[k + 1]
      BY <3>1 DEF IsList
    <3> QED BY <1>1, <3>1, <3>2 DEF Linked
  <2> QED BY <2>1, <2>2
<1>2. ASSUME \A k \in 1 .. Len(s) : s[k] # q PROVE ~Linked(q)
  <2>1. next[q] = None
    BY <1>2 DEF IsList
  <2>2. tail # q
    <3>1. CASE s = <<>>
      BY <3>1 DEF IsList
    <3>2. CASE s # <<>>
      <4>1. Len(s) \in 1 .. Len(s) BY <3>2
      <4> QED BY <1>2, <3>2, <4>1 DEF IsList
    <3> QED BY <3>1, <3>2
  <2> QED BY <2>1, <2>2 DEF Linked
<1> QED BY <1>1, <1>2

LEMMA HeadIsLinked ==
  ASSUME ListTypes, ListInv, head # None
  PROVE  head \in Queue /\ Linked(head)
<1>1. PICK s \in Seq(Queue) : IsList(s)
  BY DEF ListInv
<1>2. s # <<>> /\ s[1] = head
  BY <1>1 DEF IsList
<1>3. 1 \in 1 .. Len(s) /\ s[1] \in Queue
  BY <1>2
<1> QED BY <1>1, <1>2, <1>3, LinkedIsInList

(***************************************************************************)
(* GlobalQueue::Push of a queue that is not linked appends it, and its     *)
(* assertion holds; of the tail it leaves the sequence.                    *)
(***************************************************************************)
LEMMA PushAppends ==
  ASSUME ListTypes, NEW s \in Seq(Queue), IsList(s), NEW q \in Queue, ~Linked(q), GlobalPush(q)
  PROVE  IsList(Append(s, q))' /\ UNCHANGED aborted
<1> USE DispatchAssumption
<1> DEFINE u == Append(s, q)
<1>1. \A k \in 1 .. Len(s) : s[k] # q
  BY LinkedIsInList
<1>2. next[q] = None /\ tail # q
  BY DEF Linked
<1>3. /\ u \in Seq(Queue) /\ u # <<>> /\ Len(u) = Len(s) + 1 /\ u[Len(u)] = q
      /\ \A k \in 1 .. Len(s) : u[k] = s[k]
  BY AppendProperties
<1>4. Len(s) \in Nat /\ \A k \in 1 .. Len(s) : s[k] \in Queue
  OBVIOUS
<1> HIDE DEF u
<1>5. tail' = q /\ aborted' = aborted
  BY <1>2 DEF GlobalPush
<1>6. CASE s = <<>>
  <2>1. tail = None /\ head' = q /\ next' = next
    BY <1>2, <1>6 DEF IsList, GlobalPush, ListTypes, Null
  <2>2. Len(u) = 1 /\ u[1] = q
    BY <1>3, <1>6
  <2>3. \A p \in Queue : next[p] = None
    BY <1>6 DEF IsList
  <2>4. IsList(u)'
    BY <1>3, <1>5, <2>1, <2>2, <2>3 DEF IsList
  <2> QED BY <1>5, <2>4 DEF u
<1>7. CASE s # <<>>
  <2>1. tail = s[Len(s)] /\ tail \in Queue /\ Len(s) \in 1 .. Len(s)
    BY <1>4, <1>7 DEF IsList
  <2>2. next' = [next EXCEPT ![tail] = q] /\ head' = head
    BY <1>2, <2>1 DEF GlobalPush
  <2>3. head' = u[1]
    BY <1>3, <1>7, <2>1, <2>2 DEF IsList
  <2>4. tail' = u[Len(u)]
    BY <1>3, <1>5
  <2>5. \A j, k \in 1 .. Len(u) : u[j] = u[k] => j = k
    <3> SUFFICES ASSUME NEW j \in 1 .. Len(u), NEW k \in 1 .. Len(u), u[j] = u[k] PROVE j = k
      OBVIOUS
    <3>1. \A l \in 1 .. Len(u) : l = Len(u) \/ (l \in 1 .. Len(s) /\ u[l] = s[l])
      BY <1>3, <1>4
    <3>2. \A l \in 1 .. Len(s) : u[l] # q
      BY <1>1, <1>3
    <3>3. CASE j \in 1 .. Len(s) /\ k \in 1 .. Len(s)
      BY <1>3, <3>3 DEF IsList
    <3>4. CASE j = Len(u) \/ k = Len(u)
      BY <1>3, <3>1, <3>2, <3>4
    <3> QED BY <3>1, <3>3, <3>4
  <2>6. \A k \in 1 .. Len(u) - 1 : next'[u[k]] = u[k + 1]
    <3> SUFFICES ASSUME NEW k \in 1 .. Len(u) - 1 PROVE next'[u[k]] = u[k + 1]
      OBVIOUS
    <3>1. k \in 1 .. Len(s) /\ u[k] = s[k]
      BY <1>3, <1>4
    <3>2. CASE k = Len(s)
      BY <1>3, <2>1, <2>2, <3>1, <3>2 DEF ListTypes
    <3>3. CASE k # Len(s)
      <4>1. k \in 1 .. Len(s) - 1 /\ k + 1 \in 1 .. Len(s) /\ s[k] # tail
        BY <1>4, <2>1, <3>1, <3>3 DEF IsList
      <4> QED BY <1>3, <1>4, <2>2, <3>1, <4>1 DEF IsList, ListTypes
    <3> QED BY <3>2, <3>3
  <2>7. next'[u[Len(u)]] = None
    BY <1>2, <1>3, <2>1, <2>2 DEF ListTypes
  <2>8. ASSUME NEW p \in Queue, \A k \in 1 .. Len(u) : u[k] # p PROVE next'[p] = None
    <3>1. \A k \in 1 .. Len(s) : s[k] # p
      BY <1>3, <1>4, <2>8
    <3> QED BY <2>1, <2>2, <3>1 DEF IsList, ListTypes
  <2>9. IsList(u)'
    BY <1>3, <2>3, <2>4, <2>5, <2>6, <2>7, <2>8 DEF IsList
  <2> QED BY <1>5, <2>9 DEF u
<1> QED BY <1>6, <1>7

LEMMA PushOfTail ==
  ASSUME ListTypes, NEW s \in Seq(Queue), IsList(s), NEW q \in Queue, Linked(q), GlobalPush(q),
         aborted' = "no"
  PROVE  IsList(s)'
<1> USE DispatchAssumption
<1>1. next[q] = None /\ tail = q
  BY DEF GlobalPush, Linked
<1>2. s # <<>> /\ q = s[Len(s)] /\ Len(s) \in 1 .. Len(s)
  BY <1>1 DEF IsList
<1>3. next' = [next EXCEPT ![q] = q] /\ head' = head /\ tail' = q
  BY <1>1 DEF GlobalPush
<1>4. \A k \in 1 .. Len(s) - 1 : next'[s[k]] = s[k + 1]
  BY <1>2, <1>3 DEF IsList, ListTypes
<1>5. next'[s[Len(s)]] = s[Len(s)]
  BY <1>2, <1>3 DEF ListTypes
<1>6. \A p \in Queue : (\A k \in 1 .. Len(s) : s[k] # p) => next'[p] = None
  BY <1>2, <1>3 DEF IsList, ListTypes
<1> QED BY <1>2, <1>3, <1>4, <1>5, <1>6 DEF IsList

(***************************************************************************)
(* GlobalQueue::Pop takes the first queue away, and its assertion holds;   *)
(* a queue that is its own successor stays once more.                      *)
(***************************************************************************)
LEMMA PopTakesHead ==
  ASSUME ListTypes, aborted = "no", NEW s \in Seq(Queue), IsList(s), head # None,
         next[head] # head, GlobalPop
  PROVE  /\ IsList(Tail(s))' /\ s # <<>> /\ aborted' = "no"
         /\ next' = [next EXCEPT ![head] = None]
         /\ tail' = IF tail = head THEN None ELSE tail
<1> USE DispatchAssumption
<1> DEFINE u == Tail(s)
<1>1. s # <<>> /\ head = s[1] /\ Len(s) \in Nat \ {0} /\ 1 \in 1 .. Len(s) /\ head \in Queue
  BY DEF IsList
<1>2. /\ u \in Seq(Queue) /\ Len(u) = Len(s) - 1
      /\ \A k \in 1 .. Len(u) : u[k] = s[k + 1]
  BY <1>1, HeadTailProperties
<1>3. /\ head' = next[head]
      /\ tail' = IF next[head] = None THEN None ELSE tail
      /\ aborted' = Asserted(next[head] = None => head = tail)
      /\ next' = [next EXCEPT ![head] = None]
  BY <1>1 DEF GlobalPop
<1>4. \A k \in 1 .. Len(s) : s[k] \in Queue
  OBVIOUS
<1>5. \A k \in 1 .. Len(u) : k + 1 \in 1 .. Len(s) /\ u[k] # head
  BY <1>1, <1>2 DEF IsList
<1> HIDE DEF u
<1>6. CASE Len(s) = 1
  <2>1. tail = head /\ next[head] = None
    BY <1>1, <1>6 DEF IsList
  <2>2. u = <<>>
    BY <1>2, <1>6
  <2>3. \A p \in Queue : next'[p] = None
    BY <1>1, <1>3, <1>6 DEF IsList, ListTypes
  <2>4. IsList(u)' /\ aborted' = "no" /\ tail' = None
    BY <1>3, <2>1, <2>2, <2>3 DEF IsList, Asserted
  <2> QED BY <1>1, <1>3, <2>1, <2>4 DEF u
<1>7. CASE Len(s) # 1
  <2>1. Len(u) \in 1 .. Len(u) /\ 1 \in 1 .. Len(s) - 1 /\ u # <<>>
    BY <1>1, <1>2, <1>7
  <2>2. next[head] = u[1] /\ u[1] \in Queue
    BY <1>1, <1>2, <1>4, <1>5, <2>1 DEF IsList
  <2>3. tail = u[Len(u)] /\ tail # head
    BY <1>1, <1>2, <1>5, <2>1 DEF IsList
  <2>4. head' = u[1] /\ tail' = tail /\ aborted' = "no"
    BY <1>3, <2>2 DEF Asserted
  <2>5. \A j, k \in 1 .. Len(u) : u[j] = u[k] => j = k
    <3> SUFFICES ASSUME NEW j \in 1 .. Len(u), NEW k \in 1 .. Len(u), u[j] = u[k] PROVE j = k
      OBVIOUS
    <3>1. j + 1 \in 1 .. Len(s) /\ k + 1 \in 1 .. Len(s) /\ s[j + 1] = s[k + 1]
      BY <1>2, <1>5
    <3>2. j + 1 = k + 1
      BY <3>1 DEF IsList
    <3> QED BY <1>2, <3>2
  <2>6. \A k \in 1 .. Len(u) - 1 : next'[u[k]] = u[k + 1]
    <3> SUFFICES ASSUME NEW k \in 1 .. Len(u) - 1 PROVE next'[u[k]] = u[k + 1]
      OBVIOUS
    <3>0. k \in 1 .. Len(u) /\ k + 1 \in 1 .. Len(u) /\ k + 1 \in 1 .. Len(s) - 1
      BY <1>1, <1>2
    <3>1. u[k] = s[k + 1] /\ u[k + 1] = s[(k + 1) + 1]
      BY <1>2, <3>0
    <3>2. next[s[k + 1]] = s[(k + 1) + 1]
      BY <3>0 DEF IsList
    <3>3. next'[u[k]] = next[u[k]]
      BY <1>3, <1>4, <1>5, <3>0, <3>1 DEF ListTypes
    <3> QED BY <3>1, <3>2, <3>3
  <2>7. next'[u[Len(u)]] \in {None, u[Len(u)]}
    <3>1. s[Len(s)] = u[Len(u)]
      BY <1>1, <1>2, <2>1
    <3> QED BY <1>1, <1>3, <2>1, <1>5, <3>1, <1>4 DEF IsList, ListTypes
  <2>8. ASSUME NEW p \in Queue, \A k \in 1 .. Len(u) : u[k] # p PROVE next'[p] = None
    <3>1. CASE p = head
      BY <1>1, <1>3, <3>1 DEF ListTypes
    <3>2. CASE p # head
      <4>1. ASSUME NEW k \in 1 .. Len(s) PROVE s[k] # p
        <5>1. CASE k = 1 BY <1>1, <3>2, <5>1
        <5>2. CASE k # 1
          <6>1. k - 1 \in 1 .. Len(u) /\ u[k - 1] = s[(k - 1) + 1] /\ (k - 1) + 1 = k
            BY <1>1, <1>2, <5>2
          <6> QED BY <2>8, <6>1
        <5> QED BY <5>1, <5>2
      <4>2. next[p] = None
        BY <4>1 DEF IsList
      <4> QED BY <1>1, <1>3, <3>2, <4>2 DEF ListTypes
    <3> QED BY <3>1, <3>2
  <2>9. IsList(u)'
    BY <2>1, <2>3, <2>4, <2>5, <2>6, <2>7, <2>8 DEF IsList
  <2> QED BY <1>1, <1>3, <2>3, <2>4, <2>9 DEF u
<1> QED BY <1>1, <1>6, <1>7

LEMMA PopOfLoop ==
  ASSUME ListTypes, aborted = "no", NEW s \in Seq(Queue), IsList(s), head # None,
         next[head] = head, GlobalPop
  PROVE  /\ IsList(s)' /\ aborted' = "no" /\ tail = head /\ tail' = tail
         /\ next' = [next EXCEPT ![head] = None]
<1> USE DispatchAssumption
<1>1. s # <<>> /\ head = s[1] /\ Len(s) \in Nat \ {0} /\ head \in Queue
  BY DEF IsList
<1>2. Len(s) = 1
  <2>1. ASSUME Len(s) >= 2 PROVE FALSE
    <3>1. 1 \in 1 .. Len(s) - 1 /\ 1 \in 1 .. Len(s) /\ 2 \in 1 .. Len(s)
      BY <1>1, <2>1
    <3>2. s[1] = s[2]
      BY <1>1, <3>1 DEF IsList
    <3> QED BY <3>1, <3>2 DEF IsList
  <2>2. Len(s) \in Nat /\ Len(s) # 0 /\ ~(Len(s) >= 2)
    BY <1>1, <2>1
  <2> DEFINE l == Len(s)
  <2>3. l \in Nat /\ l # 0 /\ ~(l >= 2)
    BY <2>2
  <2> HIDE DEF l
  <2>4. l = 1
    BY <2>3
  <2> QED BY <2>4 DEF l
<1>3. tail = head
  BY <1>1, <1>2 DEF IsList
<1>4. /\ head' = head /\ tail' = tail /\ aborted' = "no"
      /\ next' = [next EXCEPT ![head] = None]
  BY <1>1 DEF GlobalPop, Asserted
<1>5. IsList(s)'
  BY <1>1, <1>2, <1>3, <1>4 DEF IsList, ListTypes
<1> QED BY <1>3, <1>4, <1>5

LEMMA SameLinks ==
  ASSUME UNCHANGED list
  PROVE  /\ ListInv => ListInv'
         /\ NoLoop => NoLoop'
         /\ \A p \in Queue : Linked(p)' <=> Linked(p)
BY DEF list, ListInv, IsList, NoLoop, Linked

(***************************************************************************)
(* The same for an unknown sequence, in terms of Linked.                   *)
(***************************************************************************)
LEMMA PushLinks ==
  ASSUME ListTypes, ListInv, aborted = "no", NEW q \in Queue, GlobalPush(q)
  PROVE  /\ ListInv'
         /\ aborted' = "no" => \A p \in Queue : Linked(p)' <=> Linked(p) \/ p = q
         /\ ~Linked(q) => aborted' = "no" /\ NoLoop'
<1> USE DispatchAssumption
<1>1. PICK s \in Seq(Queue) : IsList(s)
  BY DEF ListInv
<1>2. CASE aborted' # "no"
  <2>1. aborted' = "assert" /\ UNCHANGED list
    BY <1>2 DEF GlobalPush
  <2>2. ListInv'
    BY <1>1, <2>1 DEF ListInv, IsList, list
  <2>3. Linked(q)
    BY <1>1, <1>2, PushAppends
  <2> QED BY <1>2, <2>2, <2>3
<1>3. CASE aborted' = "no" /\ Linked(q)
  <2>1. ListInv'
    BY <1>1, <1>3, PushOfTail DEF ListInv
  <2>2. next[q] = None /\ tail = q
    BY <1>3 DEF GlobalPush, Linked
  <2>3. next' = [next EXCEPT ![q] = q] /\ tail' = q
    BY <2>2 DEF GlobalPush
  <2> QED BY <1>3, <2>1, <2>2, <2>3 DEF Linked, ListTypes
<1>4. CASE aborted' = "no" /\ ~Linked(q)
  <2>1. Append(s, q) \in Seq(Queue) /\ IsList(Append(s, q))'
    BY <1>1, <1>4, PushAppends, AppendProperties
  <2>2. ListInv'
    BY <2>1 DEF ListInv
  <2>3. next[q] = None /\ tail # q
    BY <1>4 DEF Linked
  <2>4. /\ tail' = q
        /\ \/ tail # None /\ next' = [next EXCEPT ![tail] = q]
           \/ tail = None /\ next' = next
    BY <1>4, <2>3 DEF GlobalPush
  <2>5. \A p \in Queue : Linked(p)' <=> Linked(p) \/ p = q
    BY <2>3, <2>4 DEF Linked, ListTypes, Null
  <2>6. NoLoop'
    BY <2>3, <2>4 DEF NoLoop, ListTypes
  <2> QED BY <1>4, <2>2, <2>5, <2>6
<1> QED BY <1>2, <1>3, <1>4

LEMMA PopUnlinks ==
  ASSUME ListTypes, ListInv, aborted = "no", GlobalPop
  PROVE  /\ ListInv' /\ aborted' = "no"
         /\ \A p \in Queue : p # head => (Linked(p)' <=> Linked(p))
         /\ NoLoop => NoLoop' /\ \A p \in Queue : p = head => ~Linked(p)'
<1> USE DispatchAssumption
<1>1. PICK s \in Seq(Queue) : IsList(s)
  BY DEF ListInv
<1>2. CASE head = None
  <2>1. UNCHANGED list /\ aborted' = "no"
    BY <1>2 DEF GlobalPop
  <2> QED BY <1>2, <2>1, SameLinks
<1>3. CASE head # None /\ next[head] # head
  <2>1. /\ IsList(Tail(s))' /\ s # <<>> /\ aborted' = "no"
        /\ next' = [next EXCEPT ![head] = None]
        /\ tail' = IF tail = head THEN None ELSE tail
    BY <1>1, <1>3, PopTakesHead
  <2>2. ListInv'
    BY <2>1, HeadTailProperties DEF ListInv
  <2>3. head \in Queue
    BY <1>3 DEF ListTypes, Null
  <2>4. \A p \in Queue : p # head => (Linked(p)' <=> Linked(p))
    BY <2>1, <2>3 DEF Linked, ListTypes
  <2>5. NoLoop => NoLoop' /\ \A p \in Queue : p = head => ~Linked(p)'
    BY <2>1, <2>3 DEF Linked, NoLoop, ListTypes, Null
  <2> QED BY <2>1, <2>2, <2>4, <2>5
<1>4. CASE head # None /\ next[head] = head
  <2>1. /\ IsList(s)' /\ aborted' = "no" /\ tail = head /\ tail' = tail
        /\ next' = [next EXCEPT ![head] = None]
    BY <1>1, <1>4, PopOfLoop
  <2>2. head \in Queue /\ ~NoLoop
    BY <1>4, <2>1 DEF ListTypes, Null, NoLoop
  <2>3. \A p \in Queue : p # head => (Linked(p)' <=> Linked(p))
    BY <2>1, <2>2 DEF Linked, ListTypes
  <2> QED BY <2>1, <2>2, <2>3 DEF ListInv
<1> QED BY <1>2, <1>3, <1>4

-------------------------------------------------------------------------------
(***************************************************************************)
(* Who has a queue.  The parts of the inductive invariant:                 *)
(*   Marked   a queue is marked for release by the last reference, and no  *)
(*            new one appears afterwards;                                  *)
(*   Fresh    a queue starts with the flag in_global_ up;                  *)
(*   Draining only a queue that is marked is drained, and a worker has     *)
(*            finished with the drain when the queue is deleted;           *)
(*   Flagged  a queue whose flag in_global_ is down holds no message, and  *)
(*            if it is marked somebody will come to it;                    *)
(*   Owned    as long as Pop has not returned null: no queue is in two     *)
(*            places, and one that is idle (flag down, not marked), not    *)
(*            yet created or deleted is in none.                           *)
(***************************************************************************)
Creating(q) == stage[q] \in Stage \ {"none", "done"} \/ drain[q] # "no"
Held(q) == \E w \in Worker : cur[w] = q \/ temp[w] = q

Marked == \A q \in Queue : release[q] => ref[q] = 0 /\ stage[q] # "none"

Fresh == \A q \in Queue : stage[q] = "none" => in_global[q] = 1

Draining == /\ \A t \in Thread : drain[t] # "no" => release[Drained(t)]
            /\ \A w \in Worker : pc[w] = "drain" => /\ release[cur[w]]
                                                    /\ drain[w] # "no" \/ cur[w] \in gone

Flagged == \A q \in Queue :
             in_global[q] = 0
               => /\ msgs[q] = <<>>
                  /\ release[q] => Linked(q) \/ Held(q) \/ Creating(q) \/ q \in gone

Exclusive == /\ \A v, w \in Worker : cur[v] # None /\ cur[v] = cur[w] => v = w
             /\ \A w \in Worker : cur[w] # None => ~Linked(cur[w]) /\ ~Creating(cur[w])
             /\ \A q \in Queue : ~(Linked(q) /\ Creating(q))

Nowhere(q) == /\ ~Linked(q) /\ ~Creating(q)
              /\ \A w \in Worker : cur[w] # q

Idle == \A q \in Queue : (in_global[q] = 0 /\ ~release[q]) \/ stage[q] = "none" => Nowhere(q)

Deleted == \A q \in gone :
             /\ release[q] /\ ~Linked(q) /\ ~Creating(q)
             /\ \A w \in Worker : cur[w] = q => pc[w] = "drain" /\ drain[w] = "no"

NotNulled == \A w \in Worker : pc[w] \notin {"body", "after", "swap"}

Owned == /\ aborted # "assert"
         /\ NoLoop
         /\ NotNulled
         /\ Exclusive
         /\ Idle
         /\ Deleted

ListAndOwners == /\ ListInv
                 /\ Marked
                 /\ Fresh
                 /\ Draining
                 /\ aborted = "no" => Flagged
                 /\ nulled \/ Owned

-------------------------------------------------------------------------------
(***************************************************************************)
(* A service that somebody refers to is not marked, and an idle queue that *)
(* somebody refers to is not linked: the two facts that make the           *)
(* assertions of Push and MarkRelease hold.                                *)
(***************************************************************************)
Referenced(q) == ref[q] >= 1 /\ stage[q] # "none"

LEMMA ReferencedIsUnmarked ==
  ASSUME Base, ListAndOwners, NEW q \in Queue, Referenced(q)
  PROVE  /\ ~release[q]
         /\ ~nulled /\ in_global[q] = 0 => ~Linked(q)
<1>1. ~release[q]
  BY DEF ListAndOwners, Marked, Referenced
<1>2. ASSUME ~nulled, in_global[q] = 0 PROVE ~Linked(q)
  BY <1>1, <1>2 DEF ListAndOwners, Owned, Idle, Nowhere
<1> QED BY <1>1, <1>2

LEMMA LiveIsReferenced ==
  ASSUME Base, NEW q \in Queue,
         \/ q \in live \/ stage[q] \in {"init", "fail2"}
         \/ \E w \in Worker : ctx[w] = q
         \/ \E s \in Sender : target[s] = q
         \/ \E t \in Thread : dest[t] = q
  PROVE  Referenced(q)
BY HeldIsCounted DEF Base, Referenced

(***************************************************************************)
(* What Push and Context::Release do to the queue of a service that the    *)
(* caller refers to.                                                       *)
(***************************************************************************)
Touched(q) ==
  /\ ListInv'
  /\ \A p \in Queue : p # q => /\ release'[p] = release[p] /\ in_global'[p] = in_global[p]
                               /\ msgs'[p] = msgs[p] /\ ref'[p] = ref[p]
  /\ aborted' = "no" => \A p \in Queue : p # q => (Linked(p)' <=> Linked(p))
  /\ ~release[q]
  /\ release'[q] => ref'[q] = 0
  /\ \/ /\ in_global'[q] = 1 /\ ~release'[q]
        /\ aborted' = "no" => (Linked(q)' <=> Linked(q) \/ in_global[q] = 0)
     \/ /\ in_global'[q] = in_global[q] /\ msgs'[q] = msgs[q]
        /\ aborted' = "no" => (Linked(q)' <=> Linked(q) \/ (release'[q] /\ in_global[q] = 0))
  /\ ~nulled => aborted' = "no" /\ NoLoop'

LEMMA PushTouches ==
  ASSUME Base, ListAndOwners, aborted = "no", NEW q \in Queue, Referenced(q), NEW from,
         Push(q, from), UNCHANGED ref
  PROVE  Touched(q)
<1>1. ListTypes /\ QueueTypes /\ ListInv
  BY DEF Base, Shape, Types, ListAndOwners
<1>2. ~release[q] /\ (~nulled /\ in_global[q] = 0 => ~Linked(q))
  BY ReferencedIsUnmarked
<1>3. /\ msgs' = [msgs EXCEPT ![q] = Append(@, from)]
      /\ in_global' = [in_global EXCEPT ![q] = 1]
      /\ UNCHANGED release
  BY DEF Push
<1>4. \A p \in Queue : p # q => /\ release'[p] = release[p] /\ in_global'[p] = in_global[p]
                                /\ msgs'[p] = msgs[p] /\ ref'[p] = ref[p]
  BY <1>1, <1>3 DEF QueueTypes
<1>5. in_global'[q] = 1 /\ ~release'[q]
  BY <1>1, <1>2, <1>3 DEF QueueTypes
<1>6. CASE in_global[q] = 0
  <2>1. GlobalPush(q) BY <1>6 DEF Push
  <2> QED BY <1>1, <1>2, <1>4, <1>5, <1>6, <2>1, PushLinks DEF Touched
<1>7. CASE in_global[q] # 0
  <2>1. UNCHANGED list /\ aborted' = "no" BY <1>7 DEF Push
  <2>2. nulled \/ NoLoop
    BY DEF ListAndOwners, Owned
  <2> QED BY <1>1, <1>2, <1>4, <1>5, <1>7, <2>1, <2>2, SameLinks DEF Touched
<1> QED BY <1>6, <1>7

LEMMA UnreferenceTouches ==
  ASSUME Base, ListAndOwners, aborted = "no", NEW q \in Queue, Referenced(q), Unreference(q)
  PROVE  Touched(q)
<1>1. ListTypes /\ QueueTypes /\ ContextTypes /\ ListInv
  BY DEF Base, Shape, Types, ListAndOwners
<1>2. ~release[q] /\ (~nulled /\ in_global[q] = 0 => ~Linked(q))
  BY ReferencedIsUnmarked
<1>3. ref' = [ref EXCEPT ![q] = @ - 1] /\ UNCHANGED <<msgs, in_global>>
  BY DEF Unreference
<1>4. release' = [release EXCEPT ![q] = (ref[q] = 1)]
  BY <1>1, <1>2 DEF Unreference, MarkRelease, QueueTypes
<1>5. \A p \in Queue : p # q => /\ release'[p] = release[p] /\ in_global'[p] = in_global[p]
                                /\ msgs'[p] = msgs[p] /\ ref'[p] = ref[p]
  BY <1>1, <1>3, <1>4 DEF QueueTypes, ContextTypes
<1>6. /\ in_global'[q] = in_global[q] /\ msgs'[q] = msgs[q]
      /\ release'[q] <=> ref[q] = 1
      /\ release'[q] => ref'[q] = 0
  <2>1. release'[q] <=> ref[q] = 1
    BY <1>1, <1>4, Zenon DEF QueueTypes
  <2>2. ref'[q] = ref[q] - 1
    BY <1>1, <1>3 DEF ContextTypes
  <2> QED BY <1>3, <2>1, <2>2
<1>7. CASE ref[q] = 1 /\ in_global[q] = 0
  <2>1. GlobalPush(q) BY <1>2, <1>7 DEF Unreference, MarkRelease
  <2> QED BY <1>1, <1>2, <1>5, <1>6, <1>7, <2>1, PushLinks DEF Touched
<1>8. CASE ~(ref[q] = 1 /\ in_global[q] = 0)
  <2>1. UNCHANGED list /\ aborted' = "no"
    BY <1>1, <1>2, <1>8 DEF Unreference, MarkRelease, QueueTypes
  <2>2. nulled \/ NoLoop
    BY DEF ListAndOwners, Owned
  <2> QED BY <1>1, <1>2, <1>5, <1>6, <1>8, <2>1, <2>2, SameLinks DEF Touched
<1> QED BY <1>7, <1>8

(***************************************************************************)
(* A step that touches one referenced queue and leaves the owners alone    *)
(* keeps the invariant.                                                    *)
(***************************************************************************)
SameOwners == /\ UNCHANGED <<cur, temp, gone, nulled>>
              /\ \A w \in Worker : \/ pc'[w] = pc[w]
                                   \/ pc[w] # "drain" /\ pc'[w] \in {"start", "grab", "qrelease", "pop", "release", "next"}
              /\ \A t \in Thread : drain'[t] # "no" <=> drain[t] # "no"
              /\ \A p \in Queue : Creating(p)' <=> Creating(p)

LEMMA TouchPreserves ==
  ASSUME Base, ListAndOwners, aborted = "no", NEW q \in Queue, Referenced(q), Touched(q),
         SameOwners, \A p \in Queue : stage'[p] = "none" <=> stage[p] = "none"
  PROVE  ListAndOwners'
<1>a. QueueTypes /\ ContextTypes /\ ThreadTypes /\ WorkerControl /\ DrainControl
  BY DEF Base, Shape, Types
<1>b. stage[q] # "none"
  BY DEF Referenced
<1>1. ListInv'
  BY DEF Touched
<1>2. Marked'
  BY <1>b DEF Touched, ListAndOwners, Marked
<1>c. Fresh'
  BY <1>b DEF Touched, ListAndOwners, Fresh
<1>3. Draining'
  <2>1. \A p \in Queue : release[p] => release'[p]
    BY DEF Touched
  <2>2. ASSUME NEW t \in Thread, drain'[t] # "no" PROVE release'[Drained(t)']
    <3>1. drain[t] # "no" /\ Drained(t)' = Drained(t)
      BY <2>2 DEF SameOwners, Drained
    <3>2. Drained(t) \in Queue /\ release[Drained(t)]
      BY <3>1, DrainedInQueue DEF Base, ListAndOwners, Draining
    <3> QED BY <2>1, <3>1, <3>2
  <2>3. ASSUME NEW w \in Worker, pc'[w] = "drain"
        PROVE  release'[cur'[w]] /\ (drain'[w] # "no" \/ cur'[w] \in gone')
    <3>1. pc[w] = "drain" /\ cur'[w] = cur[w] /\ gone' = gone
      BY <2>3 DEF SameOwners
    <3>2. cur[w] \in Queue
      BY <1>a, <3>1 DEF WorkerControl, Busy, ThreadTypes, Null
    <3> QED BY <2>1, <3>1, <3>2 DEF SameOwners, ListAndOwners, Draining, Thread
  <2> QED BY <2>2, <2>3 DEF Draining
<1>4. ASSUME aborted' = "no" PROVE Flagged'
  <2> SUFFICES ASSUME NEW p \in Queue, in_global'[p] = 0
               PROVE  /\ msgs'[p] = <<>>
                      /\ release'[p] => Linked(p)' \/ Held(p)' \/ Creating(p)' \/ p \in gone'
    BY DEF Flagged
  <2>1. (Held(p)' <=> Held(p)) /\ gone' = gone
    BY DEF SameOwners, Held
  <2>2. in_global[p] = 0 /\ msgs'[p] = msgs[p]
    BY DEF Touched
  <2>3. msgs[p] = <<>> /\ (release[p] => Linked(p) \/ Held(p) \/ Creating(p) \/ p \in gone)
    BY <2>2 DEF ListAndOwners, Flagged
  <2>4. release'[p] => Linked(p)' \/ Held(p)' \/ Creating(p)' \/ p \in gone'
    BY <1>4, <2>1, <2>2, <2>3 DEF Touched, SameOwners
  <2> QED BY <2>2, <2>3, <2>4
<1>5. ASSUME ~nulled PROVE Owned'
  <2>0. Owned /\ aborted' = "no" /\ NoLoop'
    BY <1>5 DEF ListAndOwners, Touched
  <2>1. NotNulled'
    BY <2>0 DEF Owned, NotNulled, SameOwners
  <2>2. \A p \in Queue : Linked(p)' => Linked(p) \/ (p = q /\ in_global[q] = 0)
    BY <2>0 DEF Touched
  <2>3. in_global[q] = 0 => Nowhere(q)
    BY <2>0 DEF Owned, Idle, Touched
  <2>4. \A w \in Worker : cur[w] \in Queue \/ cur[w] = None
    BY <1>a DEF ThreadTypes, Null
  <2>5. Exclusive'
    BY <2>0, <2>2, <2>3, <2>4 DEF Owned, Exclusive, SameOwners, Nowhere
  <2>6. Idle'
    <3> SUFFICES ASSUME NEW p \in Queue, (in_global'[p] = 0 /\ ~release'[p]) \/ stage'[p] = "none"
                 PROVE  Nowhere(p)'
      BY DEF Idle
    <3>1. Nowhere(p) /\ ~Linked(p)'
      BY <1>b, <2>0 DEF Owned, Idle, Touched, Nowhere
    <3> QED BY <3>1 DEF Nowhere, SameOwners
  <2>7. Deleted'
    <3>1. \A p \in gone : p # q
      BY <2>0 DEF Owned, Deleted, Touched
    <3> QED BY <1>a, <2>0, <3>1 DEF Owned, Deleted, Touched, SameOwners, ThreadTypes, Thread
  <2> QED BY <2>0, <2>1, <2>5, <2>6, <2>7 DEF Owned
<1>6. nulled' = nulled
  BY DEF SameOwners
<1> QED BY <1>1, <1>2, <1>c, <1>3, <1>4, <1>5, <1>6 DEF ListAndOwners

(***************************************************************************)
(* So does a step that changes no queue and no owner, and takes references *)
(* to services that are not marked only.                                   *)
(***************************************************************************)
LEMMA CalmPreserves ==
  ASSUME Base, ListAndOwners, aborted = "no", aborted' = "no",
         UNCHANGED <<msgs, release, in_global, list>>, SameOwners,
         \A p \in Queue : stage'[p] = "none" <=> stage[p] = "none",
         \A p \in Queue : release[p] => ref'[p] = ref[p]
  PROVE  ListAndOwners'
<1>a. ThreadTypes /\ WorkerControl
  BY DEF Base, Shape, Types
<1>0. /\ ListInv /\ Marked /\ Fresh /\ Draining /\ Flagged /\ (nulled \/ Owned)
      /\ nulled' = nulled
  BY DEF ListAndOwners, SameOwners
<1>1. ListInv' /\ (NoLoop => NoLoop') /\ \A p \in Queue : Linked(p)' <=> Linked(p)
  BY <1>0, SameLinks
<1>2. Marked' /\ Fresh'
  BY <1>0 DEF Marked, Fresh
<1>3. Draining'
  <2>1. ASSUME NEW t \in Thread, drain'[t] # "no" PROVE release'[Drained(t)']
    <3>1. drain[t] # "no" /\ Drained(t)' = Drained(t)
      BY <2>1 DEF SameOwners, Drained
    <3> QED BY <1>0, <3>1 DEF Draining
  <2>2. ASSUME NEW w \in Worker, pc'[w] = "drain"
        PROVE  release'[cur'[w]] /\ (drain'[w] # "no" \/ cur'[w] \in gone')
    BY <1>0, <2>2 DEF SameOwners, Draining, Thread
  <2> QED BY <2>1, <2>2 DEF Draining
<1>4. Flagged'
  <2>1. \A p \in Queue : (Held(p)' <=> Held(p)) /\ (Creating(p)' <=> Creating(p)) /\ gone' = gone
    BY DEF SameOwners, Held
  <2> QED BY <1>0, <1>1, <2>1 DEF Flagged
<1>5. ASSUME ~nulled PROVE Owned'
  <2>0. Owned /\ NoLoop'
    BY <1>0, <1>1, <1>5 DEF Owned
  <2>1. NotNulled'
    BY <2>0 DEF Owned, NotNulled, SameOwners
  <2>2. \A w \in Worker : cur[w] \in Queue \/ cur[w] = None
    BY <1>a DEF ThreadTypes, Null
  <2>3. Exclusive'
    BY <1>1, <2>0, <2>2 DEF Owned, Exclusive, SameOwners
  <2>4. Idle'
    BY <1>1, <2>0 DEF Owned, Idle, Nowhere, SameOwners
  <2>5. Deleted'
    <3>1. gone \subseteq Queue
      BY <1>a DEF ThreadTypes
    <3> QED BY <1>1, <2>0, <3>1 DEF Owned, Deleted, SameOwners, Thread
  <2> QED BY <2>0, <2>1, <2>3, <2>4, <2>5 DEF Owned
<1> QED BY <1>0, <1>1, <1>2, <1>3, <1>4, <1>5 DEF ListAndOwners

(***************************************************************************)
(* A worker takes the first queue of the list.                             *)
(***************************************************************************)
LEMMA TakePreserves ==
  ASSUME Base, ListAndOwners, aborted = "no", NEW w \in Worker, pc[w] \in {"start", "next"},
         cur[w] = None, GlobalPop, cur' = [cur EXCEPT ![w] = head],
         NEW l \in {"start", "grab"}, Goto(w, l),
         UNCHANGED <<queue, context, stage, drainer, temp, nulled>>
  PROVE  ListAndOwners'
<1> USE DispatchAssumption
<1>a. ListTypes /\ ThreadTypes /\ WorkerControl
  BY DEF Base, Shape, Types
<1>0. ListInv /\ Marked /\ Fresh /\ Draining /\ Flagged /\ (nulled \/ Owned)
  BY DEF ListAndOwners
<1>1. /\ ListInv' /\ aborted' = "no"
      /\ \A p \in Queue : p # head => (Linked(p)' <=> Linked(p))
      /\ NoLoop => NoLoop' /\ \A p \in Queue : p = head => ~Linked(p)'
  BY <1>0, <1>a, PopUnlinks
<1>b. UNCHANGED <<release, in_global, msgs, ref, drain, gone, nulled>> /\ drain[w] = "no"
  BY <1>a DEF queue, context, drainer, WorkerControl
<1>c. /\ \A p \in Queue : Creating(p)' <=> Creating(p)
      /\ \A v \in Worker : v # w => cur'[v] = cur[v] /\ pc'[v] = pc[v]
      /\ cur'[w] = head /\ pc'[w] = l
  BY <1>a, <1>b DEF Creating, Goto, ThreadTypes
<1>2. Marked' /\ Fresh'
  BY <1>0, <1>b DEF Marked, Fresh
<1>3. Draining'
  BY <1>0, <1>b, <1>c DEF Draining, Drained, Thread
<1>4. Flagged'
  <2>1. \A p \in Queue : Held(p) => Held(p)'
    BY <1>c DEF Held
  <2>2. \A p \in Queue : p = head => Held(p)'
    BY <1>c DEF Held
  <2> QED BY <1>0, <1>1, <1>b, <1>c, <2>1, <2>2 DEF Flagged
<1>5. ASSUME ~nulled PROVE Owned'
  <2>0. Owned /\ NoLoop'
    BY <1>0, <1>1, <1>5 DEF Owned
  <2>1. NotNulled'
    BY <1>c, <2>0 DEF Owned, NotNulled
  <2>2. head # None => head \in Queue /\ Linked(head) /\ ~Creating(head)
    BY <1>0, <1>a, <2>0, HeadIsLinked DEF Owned, Exclusive
  <2>3. \A v \in Worker : cur[v] \in Queue \/ cur[v] = None
    BY <1>a DEF ThreadTypes, Null
  <2>4. \A v \in Worker : cur[v] # None => cur[v] # head
    BY <2>0, <2>2, <2>3 DEF Owned, Exclusive
  <2>5. \A p \in Queue : Linked(p)' <=> Linked(p) /\ p # head
    BY <1>1, <2>0 DEF Owned
  <2>6. Exclusive'
    <3>1. \A u, v \in Worker : cur'[u] # None /\ cur'[u] = cur'[v] => u = v
      BY <1>c, <2>0, <2>4 DEF Owned, Exclusive
    <3>2. \A v \in Worker : cur'[v] # None => ~Linked(cur[v])' /\ ~Creating(cur[v])'
      <4> SUFFICES ASSUME NEW v \in Worker, cur'[v] # None
                   PROVE  \A p \in Queue : p = cur'[v] => ~Linked(p)' /\ ~Creating(p)'
        BY <1>c, <2>2, <2>3
      <4>1. CASE v = w BY <1>c, <2>2, <2>5, <4>1
      <4>2. CASE v # w BY <1>c, <2>0, <2>3, <2>5, <4>2 DEF Owned, Exclusive
      <4> QED BY <4>1, <4>2
    <3>3. \A p \in Queue : ~(Linked(p)' /\ Creating(p)')
      BY <1>c, <2>0, <2>5 DEF Owned, Exclusive
    <3> QED BY <3>1, <3>2, <3>3 DEF Exclusive
  <2>7. Idle'
    <3> SUFFICES ASSUME NEW p \in Queue, (in_global'[p] = 0 /\ ~release'[p]) \/ stage'[p] = "none"
                 PROVE  Nowhere(p)'
      BY DEF Idle
    <3>1. Nowhere(p)
      BY <1>b, <2>0 DEF Owned, Idle
    <3>2. p # head
      BY <2>2, <3>1 DEF Nowhere
    <3> QED BY <1>c, <2>5, <3>1, <3>2 DEF Nowhere
  <2>8. Deleted'
    <3>1. gone \subseteq Queue /\ head \notin gone
      BY <1>a, <2>0, <2>2 DEF ThreadTypes, Owned, Deleted
    <3> QED BY <1>b, <1>c, <2>0, <2>5, <3>1 DEF Owned, Deleted
  <2> QED BY <1>1, <2>0, <2>1, <2>6, <2>7, <2>8 DEF Owned
<1> QED BY <1>0, <1>1, <1>2, <1>3, <1>4, <1>5, <1>b DEF ListAndOwners

(***************************************************************************)
(* A thread puts a queue it owns into the list: one it creates, or one     *)
(* that a worker gives back.                                               *)
(***************************************************************************)
LEMMA PublishPreserves ==
  ASSUME Base, ListAndOwners, aborted = "no", NEW q \in Queue,
         stage[q] \in Stage \ {"none", "done"}, stage' = [stage EXCEPT ![q] = "done"],
         GlobalPush(q), UNCHANGED <<queue, context, drainer, worker, nulled>>
  PROVE  ListAndOwners'
<1> USE DispatchAssumption
<1>a. ListTypes /\ ThreadTypes /\ DrainControl
  BY DEF Base, Shape, Types
<1>0. ListInv /\ Marked /\ Fresh /\ Draining /\ Flagged /\ (nulled \/ Owned)
  BY DEF ListAndOwners
<1>1. /\ ListInv'
      /\ aborted' = "no" => \A p \in Queue : Linked(p)' <=> Linked(p) \/ p = q
      /\ ~Linked(q) => aborted' = "no" /\ NoLoop'
  BY <1>0, <1>a, PushLinks
<1>b. UNCHANGED <<release, in_global, msgs, ref, drain, gone, pc, cur, temp, nulled>>
  BY DEF queue, context, drainer, worker
<1>c. /\ Creating(q) /\ ~Creating(q)'
      /\ \A p \in Queue : p # q => (Creating(p)' <=> Creating(p)) /\ stage'[p] = stage[p]
      /\ stage'[q] = "done"
  BY <1>a, <1>b DEF Creating, ThreadTypes, DrainControl
<1>2. Marked' /\ Fresh'
  BY <1>0, <1>b, <1>c DEF Marked, Fresh
<1>3. Draining'
  BY <1>0, <1>b DEF Draining, Drained, Thread
<1>4. ASSUME aborted' = "no" PROVE Flagged'
  <2>1. \A p \in Queue : Held(p)' <=> Held(p)
    BY <1>b DEF Held
  <2> QED BY <1>0, <1>1, <1>4, <1>b, <1>c, <2>1 DEF Flagged
<1>5. ASSUME ~nulled PROVE Owned'
  <2>0. Owned /\ aborted' = "no" /\ NoLoop'
    BY <1>0, <1>1, <1>5, <1>c DEF Owned, Exclusive
  <2>1. NotNulled'
    BY <1>b, <2>0 DEF Owned, NotNulled
  <2>2. \A v \in Worker : cur[v] = None \/ (cur[v] \in Queue /\ cur[v] # q)
    BY <1>a, <1>c, <2>0 DEF ThreadTypes, Null, Owned, Exclusive
  <2>3. Exclusive'
    <3>1. ASSUME NEW v \in Worker, cur'[v] # None PROVE ~Linked(cur[v])' /\ ~Creating(cur[v])'
      <4>1. cur'[v] = cur[v] /\ cur[v] \in Queue /\ cur[v] # q
        BY <1>b, <2>2, <3>1
      <4> SUFFICES \A p \in Queue : p = cur[v] => ~Linked(p)' /\ ~Creating(p)'
        BY <4>1
      <4>2. ~Linked(cur[v]) /\ ~Creating(cur[v])
        BY <2>0, <4>1 DEF Owned, Exclusive
      <4> QED BY <1>1, <1>c, <2>0, <4>1, <4>2
    <3>2. \A p \in Queue : ~(Linked(p)' /\ Creating(p)')
      BY <1>1, <1>c, <2>0 DEF Owned, Exclusive
    <3> QED BY <1>b, <2>0, <3>1, <3>2 DEF Owned, Exclusive
  <2>4. Idle'
    <3> SUFFICES ASSUME NEW p \in Queue, (in_global'[p] = 0 /\ ~release'[p]) \/ stage'[p] = "none"
                 PROVE  Nowhere(p)'
      BY DEF Idle
    <3>1. Nowhere(p)
      BY <1>b, <1>c, <2>0 DEF Owned, Idle, Nowhere
    <3>2. p # q
      BY <1>c, <3>1 DEF Nowhere
    <3> QED BY <1>1, <1>b, <1>c, <2>0, <3>1, <3>2 DEF Nowhere
  <2>5. Deleted'
    <3>1. gone \subseteq Queue /\ q \notin gone
      BY <1>a, <1>c, <2>0 DEF ThreadTypes, Owned, Deleted
    <3> QED BY <1>1, <1>b, <1>c, <2>0, <3>1 DEF Owned, Deleted
  <2> QED BY <2>0, <2>1, <2>3, <2>4, <2>5 DEF Owned
<1> QED BY <1>0, <1>1, <1>2, <1>3, <1>4, <1>5, <1>b DEF ListAndOwners

LEMMA GiveBackPreserves ==
  ASSUME Base, ListAndOwners, aborted = "no", NEW w \in Worker, pc[w] = "qrelease",
         ~release[cur[w]], GlobalPush(cur[w]), cur' = [cur EXCEPT ![w] = None], Goto(w, "next"),
         UNCHANGED <<queue, context, stage, drainer, temp, nulled>>
  PROVE  ListAndOwners'
<1> USE DispatchAssumption
<1>a. ListTypes /\ ThreadTypes /\ WorkerControl
  BY DEF Base, Shape, Types
<1>0. ListInv /\ Marked /\ Fresh /\ Draining /\ Flagged /\ (nulled \/ Owned)
  BY DEF ListAndOwners
<1> DEFINE q == cur[w]
<1>q. q \in Queue /\ drain[w] = "no" /\ ~release[q]
  BY <1>a DEF WorkerControl, ThreadTypes, Busy, Null
<1>1. /\ ListInv'
      /\ aborted' = "no" => \A p \in Queue : Linked(p)' <=> Linked(p) \/ p = q
      /\ ~Linked(q) => aborted' = "no" /\ NoLoop'
  BY <1>0, <1>a, <1>q, PushLinks
<1>b. UNCHANGED <<release, in_global, msgs, ref, stage, drain, gone, temp, nulled>>
  BY DEF queue, context, drainer
<1>c. /\ \A p \in Queue : Creating(p)' <=> Creating(p)
      /\ \A v \in Worker : v # w => cur'[v] = cur[v] /\ pc'[v] = pc[v]
      /\ cur'[w] = None /\ pc'[w] = "next"
  BY <1>a, <1>b DEF Creating, Goto, ThreadTypes
<1> HIDE DEF q
<1>2. Marked' /\ Fresh'
  BY <1>0, <1>b DEF Marked, Fresh
<1>3. Draining'
  BY <1>0, <1>b, <1>c, <1>q DEF Draining, Drained, Thread
<1>4. ASSUME aborted' = "no" PROVE Flagged'
  <2>1. \A p \in Queue : p # q /\ Held(p) => Held(p)'
    BY <1>b, <1>c DEF Held, q
  <2> QED BY <1>0, <1>1, <1>4, <1>b, <1>c, <1>q, <2>1 DEF Flagged
<1>5. ASSUME ~nulled PROVE Owned'
  <2>0. Owned /\ aborted' = "no" /\ NoLoop' /\ ~Linked(q) /\ ~Creating(q)
    BY <1>0, <1>1, <1>5, <1>q DEF Owned, Exclusive, q
  <2>1. NotNulled'
    BY <1>c, <2>0 DEF Owned, NotNulled
  <2>2. \A v \in Worker : v # w => cur[v] = None \/ (cur[v] \in Queue /\ cur[v] # q)
    BY <1>a, <1>q, <2>0 DEF ThreadTypes, Null, Owned, Exclusive, q
  <2>3. Exclusive'
    <3>1. ASSUME NEW v \in Worker, cur'[v] # None PROVE ~Linked(cur[v])' /\ ~Creating(cur[v])'
      <4>1. v # w /\ cur'[v] = cur[v] /\ cur[v] \in Queue /\ cur[v] # q
        BY <1>c, <2>2, <3>1
      <4> SUFFICES \A p \in Queue : p = cur[v] => ~Linked(p)' /\ ~Creating(p)'
        BY <4>1
      <4> QED BY <1>1, <1>c, <2>0, <4>1 DEF Owned, Exclusive
    <3>2. \A p \in Queue : ~(Linked(p)' /\ Creating(p)')
      BY <1>1, <1>c, <2>0 DEF Owned, Exclusive
    <3> QED BY <1>c, <2>0, <3>1, <3>2 DEF Owned, Exclusive
  <2>4. Idle'
    <3> SUFFICES ASSUME NEW p \in Queue, (in_global'[p] = 0 /\ ~release'[p]) \/ stage'[p] = "none"
                 PROVE  Nowhere(p)'
      BY DEF Idle
    <3>1. Nowhere(p)
      BY <1>b, <2>0 DEF Owned, Idle
    <3>2. p # q
      BY <3>1 DEF Nowhere, q
    <3> QED BY <1>1, <1>c, <2>0, <3>1, <3>2 DEF Nowhere
  <2>5. Deleted'
    <3>1. gone \subseteq Queue /\ q \notin gone
      BY <1>a, <1>q, <2>0 DEF ThreadTypes, Owned, Deleted, q
    <3> QED BY <1>1, <1>b, <1>c, <2>0, <3>1 DEF Owned, Deleted
  <2> QED BY <2>0, <2>1, <2>3, <2>4, <2>5 DEF Owned
<1> QED BY <1>0, <1>1, <1>2, <1>3, <1>4, <1>5, <1>b DEF ListAndOwners

(***************************************************************************)
(* A worker lets a queue go that is deleted, or that it knows to be in use *)
(* elsewhere: Pop has raised or lowered the flag.                          *)
(***************************************************************************)
LEMMA LetGoPreserves ==
  ASSUME Base, ListAndOwners, aborted = "no", aborted' = "no", NEW w \in Worker,
         pc[w] \in {"drain", "pop"}, drain[w] = "no",
         \/ cur[w] \in gone /\ UNCHANGED <<msgs, release, in_global>>
         \/ ~release[cur[w]] /\ stage[cur[w]] # "none"
            /\ (PopFull(cur[w]) \/ PopEmpty(cur[w])),
         cur' = [cur EXCEPT ![w] = None], NEW l \in {"release", "next"}, Goto(w, l),
         UNCHANGED <<list, context, stage, drainer, temp, nulled>>
  PROVE  ListAndOwners'
<1> USE DispatchAssumption
<1>a. QueueTypes /\ ListTypes /\ ThreadTypes /\ WorkerControl
  BY DEF Base, Shape, Types
<1>0. ListInv /\ Marked /\ Fresh /\ Draining /\ Flagged /\ (nulled \/ Owned)
  BY DEF ListAndOwners
<1> DEFINE q == cur[w]
<1>q. q \in Queue
  BY <1>a DEF WorkerControl, ThreadTypes, Busy, Null
<1>1. ListInv' /\ (NoLoop => NoLoop') /\ \A p \in Queue : Linked(p)' <=> Linked(p)
  BY <1>0, SameLinks
<1>b. UNCHANGED <<ref, stage, drain, gone, temp, nulled>>
  BY DEF context, drainer
<1>c. /\ \A p \in Queue : Creating(p)' <=> Creating(p)
      /\ \A v \in Worker : v # w => cur'[v] = cur[v] /\ pc'[v] = pc[v]
      /\ cur'[w] = None /\ pc'[w] = l
  BY <1>a, <1>b DEF Creating, Goto, ThreadTypes
<1>d. /\ UNCHANGED <<msgs, release>>
      /\ \A p \in Queue : p # q => in_global'[p] = in_global[p]
      /\ \/ in_global'[q] = in_global[q]
         \/ in_global'[q] = 0 /\ msgs[q] = <<>>
      /\ \/ q \in gone /\ in_global' = in_global
         \/ ~release[q] /\ stage[q] # "none"
  BY <1>a, <1>q DEF PopFull, PopEmpty, QueueTypes
<1> HIDE DEF q
<1>2. Marked'
  BY <1>0, <1>b, <1>d DEF Marked
<1>e. Fresh'
  BY <1>0, <1>b, <1>d, <1>q DEF Fresh
<1>3. Draining'
  BY <1>0, <1>b, <1>c, <1>d DEF Draining, Drained, Thread
<1>4. Flagged'
  <2>1. \A p \in Queue : p # q /\ Held(p) => Held(p)'
    BY <1>b, <1>c DEF Held, q
  <2> QED BY <1>0, <1>1, <1>b, <1>c, <1>d, <1>q, <2>1 DEF Flagged
<1>5. ASSUME ~nulled PROVE Owned'
  <2>0. Owned /\ NoLoop' /\ ~Linked(q) /\ ~Creating(q)
    BY <1>0, <1>1, <1>5, <1>q DEF Owned, Exclusive, q
  <2>1. NotNulled'
    BY <1>c, <2>0 DEF Owned, NotNulled
  <2>2. \A v \in Worker : v # w => cur[v] = None \/ (cur[v] \in Queue /\ cur[v] # q)
    BY <1>a, <1>q, <2>0 DEF ThreadTypes, Null, Owned, Exclusive, q
  <2>3. Exclusive'
    <3>1. ASSUME NEW v \in Worker, cur'[v] # None PROVE ~Linked(cur[v])' /\ ~Creating(cur[v])'
      <4>1. v # w /\ cur'[v] = cur[v] /\ cur[v] \in Queue
        BY <1>c, <2>2, <3>1
      <4> SUFFICES \A p \in Queue : p = cur[v] => ~Linked(p)' /\ ~Creating(p)'
        BY <4>1
      <4> QED BY <1>1, <1>c, <2>0, <4>1 DEF Owned, Exclusive
    <3>2. \A p \in Queue : ~(Linked(p)' /\ Creating(p)')
      BY <1>1, <1>c, <2>0 DEF Owned, Exclusive
    <3> QED BY <1>c, <2>0, <3>1, <3>2 DEF Owned, Exclusive
  <2>4. Idle'
    <3> SUFFICES ASSUME NEW p \in Queue, (in_global'[p] = 0 /\ ~release'[p]) \/ stage'[p] = "none"
                 PROVE  Nowhere(p)'
      BY DEF Idle
    <3>1. CASE p = q
      BY <1>1, <1>c, <1>q, <2>0, <2>2, <3>1 DEF Nowhere
    <3>2. CASE p # q
      <4>1. Nowhere(p)
        BY <1>b, <1>d, <2>0, <3>2 DEF Owned, Idle
      <4> QED BY <1>1, <1>c, <4>1 DEF Nowhere
    <3> QED BY <3>1, <3>2
  <2>5. Deleted'
    <3>1. gone \subseteq Queue
      BY <1>a DEF ThreadTypes
    <3> QED BY <1>1, <1>b, <1>c, <1>d, <2>0, <3>1 DEF Owned, Deleted
  <2> QED BY <2>0, <2>1, <2>3, <2>4, <2>5 DEF Owned
<1> QED BY <1>0, <1>1, <1>2, <1>e, <1>3, <1>4, <1>5, <1>b DEF ListAndOwners

(***************************************************************************)
(* A thread starts to drain a queue that is marked: a worker the one it    *)
(* has, a creator its own.                                                 *)
(***************************************************************************)
LEMMA DrainStartPreserves ==
  ASSUME Base, ListAndOwners, aborted = "no", aborted' = "no", NEW t \in Thread,
         release[Drained(t)], drain' = [drain EXCEPT ![t] = "pop"],
         \/ t \in Worker /\ pc[t] = "qrelease" /\ Goto(t, "drain") /\ UNCHANGED stage
         \/ t \in Queue /\ stage[t] = "fail3" /\ Advance(t, "done") /\ UNCHANGED pc,
         UNCHANGED <<queue, list, context, gone, cur, temp, nulled>>
  PROVE  ListAndOwners'
<1> USE DispatchAssumption
<1>a. ThreadTypes /\ WorkerControl
  BY DEF Base, Shape, Types
<1>0. ListInv /\ Marked /\ Fresh /\ Draining /\ Flagged /\ (nulled \/ Owned)
  BY DEF ListAndOwners
<1>1. ListInv' /\ (NoLoop => NoLoop') /\ \A p \in Queue : Linked(p)' <=> Linked(p)
  BY <1>0, SameLinks
<1>b. UNCHANGED <<release, in_global, msgs, ref, gone, cur, temp, nulled>>
  BY DEF queue, context
<1>c. /\ \A p \in Queue : Creating(p)' <=> Creating(p)
      /\ \A p \in Queue : stage'[p] = "none" <=> stage[p] = "none"
  BY <1>a DEF Creating, ThreadTypes, Thread, Advance, Stage
<1>d. /\ \A v \in Worker : pc'[v] # pc[v] => v = t /\ pc[v] = "qrelease" /\ pc'[v] = "drain"
      /\ \A v \in Thread : drain'[v] # drain[v] => v = t
      /\ drain'[t] = "pop"
  BY <1>a DEF ThreadTypes, Goto, Thread
<1>2. Marked' /\ Fresh'
  BY <1>0, <1>b, <1>c DEF Marked, Fresh
<1>3. Draining'
  BY <1>0, <1>b, <1>d DEF Draining, Drained, Thread
<1>4. Flagged'
  <2>1. \A p \in Queue : Held(p)' <=> Held(p)
    BY <1>b DEF Held
  <2> QED BY <1>0, <1>1, <1>b, <1>c, <2>1 DEF Flagged
<1>5. ASSUME ~nulled PROVE Owned'
  <2>0. Owned /\ NoLoop'
    BY <1>0, <1>1, <1>5 DEF Owned
  <2>1. NotNulled'
    BY <1>d, <2>0 DEF Owned, NotNulled
  <2>2. \A v \in Worker : cur[v] \in Queue \/ cur[v] = None
    BY <1>a DEF ThreadTypes, Null
  <2>3. Exclusive'
    BY <1>1, <1>b, <1>c, <2>0, <2>2 DEF Owned, Exclusive
  <2>4. Idle'
    BY <1>1, <1>b, <1>c, <2>0 DEF Owned, Idle, Nowhere
  <2>5. Deleted'
    <3>1. gone \subseteq Queue
      BY <1>a DEF ThreadTypes
    <3>2. ASSUME NEW p \in gone, NEW v \in Worker, cur[v] = p
          PROVE  pc'[v] = "drain" /\ drain'[v] = "no"
      <4>1. pc[v] = "drain" /\ drain[v] = "no"
        BY <2>0, <3>2 DEF Owned, Deleted
      <4>2. v # t
        BY <4>1 DEF Drained, Thread
      <4> QED BY <1>d, <4>1, <4>2 DEF Thread
    <3> QED BY <1>1, <1>b, <1>c, <2>0, <3>1, <3>2 DEF Owned, Deleted
  <2> QED BY <2>0, <2>1, <2>3, <2>4, <2>5 DEF Owned
<1> QED BY <1>0, <1>1, <1>2, <1>3, <1>4, <1>5, <1>b DEF ListAndOwners

(***************************************************************************)
(* The drain has found the queue empty: the queue is deleted, and was not  *)
(* linked; or the process faults on what Pop has returned.                 *)
(***************************************************************************)
LEMMA DrainEndPreserves ==
  ASSUME Base, ListAndOwners, aborted = "no", NEW t \in Thread, DrainEnd(t)
  PROVE  ListAndOwners'
<1> USE DispatchAssumption
<1>a. QueueTypes /\ ListTypes /\ ThreadTypes /\ WorkerControl /\ DrainControl
  BY DEF Base, Shape, Types
<1>0. ListInv /\ Marked /\ Fresh /\ Draining /\ Flagged /\ (nulled \/ Owned)
  BY DEF ListAndOwners
<1> DEFINE q == Drained(t)
<1>q. q \in Queue /\ drain[t] = "pop" /\ release[q]
  BY <1>0, DrainedInQueue DEF DrainEnd, Draining, Base
<1>1. ListInv' /\ (NoLoop => NoLoop') /\ \A p \in Queue : Linked(p)' <=> Linked(p)
  BY <1>0, SameLinks DEF DrainEnd
<1>b. UNCHANGED <<release, msgs, ref, stage, pc, cur, temp, nulled>>
  BY DEF DrainEnd, PopEmpty, context, worker
<1>c. /\ \A p \in Queue : p # q => in_global'[p] = in_global[p]
      /\ in_global'[q] = 0 /\ msgs[q] = <<>>
  BY <1>a, <1>q DEF DrainEnd, PopEmpty, QueueTypes
<1>d. \/ /\ gone' = gone \union {q} /\ drain' = [drain EXCEPT ![t] = "no"]
         /\ aborted' = Asserted(next[q] = None)
      \/ gone' = gone /\ drain' = drain /\ aborted' = "fault"
  BY DEF DrainEnd
<1>e. /\ \A p \in Queue : Drained(p) = p
      /\ \A v \in Worker : Drained(v) = cur[v]
      /\ \A v \in Thread : Drained(v)' = Drained(v)
      /\ t \in Worker \/ (t \in Queue /\ t = q)
  BY <1>b DEF Drained, Thread
<1>f. /\ \A v \in Thread : drain'[v] # drain[v] => v = t /\ drain'[v] = "no" /\ q \in gone'
      /\ gone \subseteq gone'
  BY <1>a, <1>d DEF ThreadTypes
<1> HIDE DEF q
<1>2. Marked' /\ Fresh'
  <2>1. stage[q] # "none"
    BY <1>0, <1>q DEF Marked
  <2> QED BY <1>0, <1>b, <1>c, <2>1 DEF Marked, Fresh
<1>3. Draining'
  <2>1. ASSUME NEW v \in Thread, drain'[v] # "no" PROVE release'[Drained(v)']
    BY <1>0, <1>b, <1>e, <1>f, <2>1 DEF Draining
  <2>2. ASSUME NEW w \in Worker, pc'[w] = "drain"
        PROVE  release'[cur'[w]] /\ (drain'[w] # "no" \/ cur'[w] \in gone')
    BY <1>0, <1>b, <1>e, <1>f, <2>2 DEF Draining, Thread, q
  <2> QED BY <2>1, <2>2 DEF Draining
<1>g. \A p \in Queue : p # q => (Creating(p)' <=> Creating(p))
  BY <1>b, <1>e, <1>f DEF Creating, Thread
<1>h. \A p \in Queue : Creating(p)' => Creating(p)
  BY <1>b, <1>f DEF Creating, Thread
<1>4. ASSUME aborted' = "no" PROVE Flagged'
  <2>1. \A p \in Queue : Held(p)' <=> Held(p)
    BY <1>b DEF Held
  <2>2. gone' = gone \union {q}
    BY <1>4, <1>d
  <2> QED BY <1>0, <1>1, <1>b, <1>c, <1>g, <2>1, <2>2 DEF Flagged
<1>5. ASSUME ~nulled PROVE Owned'
  <2>0. Owned /\ NoLoop'
    BY <1>0, <1>1, <1>5 DEF Owned
  <2>1. ~Linked(q)
    <3>1. CASE t \in Worker
      BY <1>e, <1>q, <2>0, <3>1 DEF Owned, Exclusive, q
    <3>2. CASE t = q /\ t \in Queue
      BY <1>q, <2>0, <3>2 DEF Owned, Exclusive, Creating
    <3> QED BY <1>e, <3>1, <3>2
  <2>2. aborted' # "assert"
    BY <1>d, <2>1 DEF Linked, Asserted
  <2>3. NotNulled'
    BY <1>b, <2>0 DEF Owned, NotNulled
  <2>4. \A v \in Worker : cur[v] \in Queue \/ cur[v] = None
    BY <1>a DEF ThreadTypes, Null
  <2>5. Exclusive'
    BY <1>1, <1>b, <1>h, <2>0, <2>4 DEF Owned, Exclusive
  <2>6. Idle'
    <3> SUFFICES ASSUME NEW p \in Queue, (in_global'[p] = 0 /\ ~release'[p]) \/ stage'[p] = "none"
                 PROVE  Nowhere(p)'
      BY DEF Idle
    <3>1. p # q
      BY <1>0, <1>b, <1>q DEF Marked
    <3>2. Nowhere(p)
      BY <1>b, <1>c, <2>0, <3>1 DEF Owned, Idle
    <3> QED BY <1>1, <1>b, <1>g, <3>1, <3>2 DEF Nowhere
  <2>7. Deleted'
    <3>0. gone \subseteq Queue
      BY <1>a DEF ThreadTypes
    <3>1. ASSUME NEW p \in gone'
          PROVE  /\ release'[p] /\ ~Linked(p)' /\ ~Creating(p)'
                 /\ \A w \in Worker : cur'[w] = p => pc'[w] = "drain" /\ drain'[w] = "no"
      <4>1. CASE p # q
        <5>1. p \in gone
          BY <1>d, <3>1, <4>1
        <5>2. \A w \in Worker : cur[w] = p => drain'[w] = drain[w]
          BY <1>e, <1>f, <4>1 DEF Thread, q
        <5> QED BY <1>1, <1>b, <1>g, <2>0, <3>0, <4>1, <5>1, <5>2 DEF Owned, Deleted
      <4>2. CASE p = q /\ q \notin gone
        <5>0. drain' = [drain EXCEPT ![t] = "no"]
          BY <1>d, <3>1, <4>2
        <5>1. ~Creating(p)'
          <6>1. CASE t \in Worker
            BY <1>e, <1>h, <1>q, <2>0, <4>2, <6>1 DEF Owned, Exclusive, q
          <6>2. CASE t = q /\ t \in Queue
            BY <1>a, <1>b, <1>q, <4>2, <5>0, <6>2 DEF Creating, DrainControl, ThreadTypes, Thread
          <6> QED BY <1>e, <6>1, <6>2
        <5>2. ASSUME NEW w \in Worker, cur[w] = q PROVE w = t
          <6>1. CASE t \in Worker
            BY <1>e, <1>q, <2>0, <5>2, <6>1 DEF Owned, Exclusive, q
          <6>2. CASE t = q /\ t \in Queue
            BY <1>q, <2>0, <5>2, <6>2 DEF Owned, Exclusive, Creating
          <6> QED BY <1>e, <6>1, <6>2
        <5>3. \A w \in Worker : cur[w] = q => pc[w] = "drain" /\ drain'[w] = "no"
          BY <1>a, <1>q, <5>0, <5>2 DEF WorkerControl, ThreadTypes, Thread
        <5> QED BY <1>1, <1>b, <1>q, <2>1, <4>2, <5>1, <5>3
      <4>3. CASE p = q /\ q \in gone
        \* A deleted queue is not drained.
        <5>1. CASE t \in Worker
          BY <1>e, <1>q, <2>0, <4>3, <5>1 DEF Owned, Deleted, q
        <5>2. CASE t = q /\ t \in Queue
          BY <1>q, <2>0, <4>3, <5>2 DEF Owned, Deleted, Creating
        <5> QED BY <1>e, <5>1, <5>2
      <4> QED BY <4>1, <4>2, <4>3
    <3> QED BY <3>1 DEF Deleted
  <2> QED BY <2>0, <2>2, <2>3, <2>5, <2>6, <2>7 DEF Owned
<1> QED BY <1>0, <1>1, <1>2, <1>3, <1>4, <1>5, <1>b DEF ListAndOwners


(***************************************************************************)
(* The path behind a null: Pop has lowered the flag of a queue that the    *)
(* worker keeps, and at the end of the loop the queue goes back to the     *)
(* list in exchange for the list's first one.                              *)
(***************************************************************************)
LEMMA NulledPreserves ==
  ASSUME Base, ListAndOwners, aborted = "no", NEW w \in Worker,
         PopNull(w) \/ Body(w) \/ After(w) \/ Swap(w)
  PROVE  ListAndOwners'
<1> USE DispatchAssumption
<1>a. QueueTypes /\ ListTypes /\ ThreadTypes /\ WorkerControl
  BY DEF Base, Shape, Types
<1>0. ListInv /\ Marked /\ Fresh /\ Draining /\ Flagged /\ (nulled \/ Owned)
  BY DEF ListAndOwners
<1>q. cur[w] \in Queue /\ Referenced(cur[w]) /\ ~release[cur[w]] /\ drain[w] = "no"
  <2>1. cur[w] \in Queue /\ ctx[w] = cur[w] /\ drain[w] = "no"
    BY <1>a DEF PopNull, Body, After, Swap, WorkerControl, ThreadTypes, Busy, Grabbed, Null
  <2>2. Referenced(cur[w])
    BY <2>1, LiveIsReferenced
  <2> QED BY <2>1, <2>2, ReferencedIsUnmarked
<1>1. nulled'
  BY <1>0 DEF PopNull, Body, After, Swap, Owned, NotNulled
<1>b. UNCHANGED <<msgs, release, ref, stage, drain, gone>>
  BY DEF PopNull, Body, After, Swap, PopEmpty, queue, context, drainer
<1>c. \A p \in Queue : Creating(p)' <=> Creating(p)
  BY <1>b DEF Creating
<1>d. /\ \A v \in Worker : v # w => cur'[v] = cur[v] /\ temp'[v] = temp[v] /\ pc'[v] = pc[v]
      /\ pc'[w] # "drain"
  BY <1>a DEF PopNull, Body, After, Swap, Goto, ThreadTypes
<1>e. \A p \in Queue : in_global'[p] # in_global[p] => p = cur[w] /\ msgs[p] = <<>>
  BY <1>a, <1>q DEF PopNull, Body, After, Swap, PopEmpty, queue, QueueTypes
<1>2. Marked' /\ Fresh'
  BY <1>0, <1>b, <1>e, <1>q DEF Marked, Fresh, Referenced
<1>3. Draining'
  BY <1>0, <1>b, <1>d, <1>q DEF Draining, Drained, Thread
<1>f. ASSUME ListInv', NEW p \in Queue, aborted' = "no",
             Linked(p) \/ Held(p) => Linked(p)' \/ Held(p)'
      PROVE  in_global'[p] = 0 => /\ msgs'[p] = <<>>
                                  /\ release'[p] => Linked(p)' \/ Held(p)' \/ Creating(p)' \/ p \in gone'
  BY <1>0, <1>b, <1>c, <1>e, <1>f, <1>q DEF Flagged
<1>4. CASE PopNull(w) \/ Body(w)
  <2>1. UNCHANGED <<list, cur, temp>>
    BY <1>4 DEF PopNull, Body
  <2>2. ListInv' /\ \A p \in Queue : (Linked(p)' <=> Linked(p)) /\ (Held(p)' <=> Held(p))
    BY <1>0, <2>1, SameLinks DEF Held
  <2>3. aborted' = "no" => Flagged'
    BY <1>f, <2>2 DEF Flagged
  <2> QED BY <1>1, <1>2, <1>3, <2>2, <2>3 DEF ListAndOwners
<1>5. CASE After(w)
  <2>1. temp[w] = None /\ cur' = cur /\ temp' = [temp EXCEPT ![w] = head] /\ GlobalPop
    BY <1>5, <1>a DEF After, WorkerControl
  <2>2. ListInv' /\ \A p \in Queue : p # head => (Linked(p)' <=> Linked(p))
    BY <1>0, <1>a, <2>1, PopUnlinks
  <2>3. \A p \in Queue : p = head => Held(p)'
    BY <1>a, <2>1 DEF Held, ThreadTypes
  <2>4. \A p \in Queue : Held(p) => Held(p)'
    BY <1>a, <2>1 DEF Held, ThreadTypes
  <2>5. aborted' = "no" => Flagged'
    BY <1>f, <2>2, <2>3, <2>4 DEF Flagged
  <2> QED BY <1>1, <1>2, <1>3, <2>2, <2>5 DEF ListAndOwners
<1>6. CASE Swap(w)
  <2>1. /\ GlobalPush(cur[w]) /\ cur' = [cur EXCEPT ![w] = temp[w]]
        /\ temp' = [temp EXCEPT ![w] = None]
    BY <1>6 DEF Swap
  <2>2. /\ ListInv'
        /\ aborted' = "no" => \A p \in Queue : Linked(p)' <=> Linked(p) \/ p = cur[w]
    BY <1>0, <1>a, <1>q, <2>1, PushLinks
  <2>3. \A p \in Queue : p # cur[w] /\ Held(p) => Held(p)'
    BY <1>a, <2>1 DEF Held, ThreadTypes
  <2>4. aborted' = "no" => Flagged'
    BY <1>f, <2>2, <2>3 DEF Flagged
  <2> QED BY <1>1, <1>2, <1>3, <2>2, <2>4 DEF ListAndOwners
<1> QED BY <1>4, <1>5, <1>6

(***************************************************************************)
(* A new service: nobody had its queue, and the flag is up.                *)
(***************************************************************************)
LEMMA NewContextPreserves ==
  ASSUME Base, ListAndOwners, aborted = "no", NEW q \in Queue, NewContext(q)
  PROVE  ListAndOwners'
<1> USE DispatchAssumption
<1>a. ContextTypes /\ ThreadTypes
  BY DEF Base, Shape, Types
<1>0. ListInv /\ Marked /\ Fresh /\ Draining /\ Flagged /\ (nulled \/ Owned)
  BY DEF ListAndOwners
<1>1. ListInv' /\ (NoLoop => NoLoop') /\ \A p \in Queue : Linked(p)' <=> Linked(p)
  BY <1>0, SameLinks DEF NewContext
<1>b. UNCHANGED <<msgs, release, in_global, drain, gone, pc, cur, temp, aborted, nulled>>
  BY DEF NewContext, queue, drainer, worker
<1>c. /\ \A p \in Queue : p # q => ref'[p] = ref[p] /\ stage'[p] = stage[p]
      /\ stage[q] = "none" /\ stage'[q] = "init"
  BY <1>a DEF NewContext, Advance, ContextTypes, ThreadTypes
<1>d. ~release[q] /\ in_global[q] = 1
  BY <1>0, <1>c DEF Marked, Fresh
<1>e. \A p \in Queue : p # q => (Creating(p)' <=> Creating(p))
  BY <1>b, <1>c DEF Creating
<1>2. Marked' /\ Fresh'
  BY <1>0, <1>b, <1>c, <1>d DEF Marked, Fresh
<1>3. Draining'
  BY <1>0, <1>b DEF Draining, Drained
<1>4. Flagged'
  <2>1. \A p \in Queue : Held(p)' <=> Held(p)
    BY <1>b DEF Held
  <2> QED BY <1>0, <1>1, <1>b, <1>d, <1>e, <2>1 DEF Flagged
<1>5. ASSUME ~nulled PROVE Owned'
  <2>0. Owned /\ NoLoop' /\ Nowhere(q)
    BY <1>0, <1>1, <1>5, <1>c DEF Owned, Idle
  <2>1. NotNulled'
    BY <1>b, <2>0 DEF Owned, NotNulled
  <2>2. \A v \in Worker : cur[v] = None \/ (cur[v] \in Queue /\ cur[v] # q)
    BY <1>a, <2>0 DEF ThreadTypes, Null, Nowhere
  <2>3. Exclusive'
    BY <1>1, <1>b, <1>e, <2>0, <2>2 DEF Owned, Exclusive, Nowhere
  <2>4. Idle'
    BY <1>1, <1>b, <1>c, <1>d, <1>e, <2>0 DEF Owned, Idle, Nowhere
  <2>5. Deleted'
    <3>1. gone \subseteq Queue /\ q \notin gone
      BY <1>a, <1>d, <2>0 DEF ThreadTypes, Owned, Deleted
    <3> QED BY <1>1, <1>b, <1>e, <2>0, <3>1 DEF Owned, Deleted
  <2> QED BY <1>b, <2>0, <2>1, <2>3, <2>4, <2>5 DEF Owned
<1> QED BY <1>0, <1>1, <1>2, <1>3, <1>4, <1>5, <1>b DEF ListAndOwners


-------------------------------------------------------------------------------
(***************************************************************************)
(* The invariant is inductive: one lemma per kind of thread, one step per  *)
(* action.                                                                 *)
(***************************************************************************)
LEMMA DispatchPreserves ==
  ASSUME Base, ListAndOwners, NEW w \in Worker, DispatchStep(w)
  PROVE  ListAndOwners'
<1> USE DispatchAssumption
<1>0. /\ QueueTypes /\ ListTypes /\ ContextTypes /\ ThreadTypes /\ WorkerControl /\ aborted = "no"
  BY DEF Base, Shape, Types, DispatchStep
<1>d. drain[w] # "no" => pc[w] = "drain"
  BY <1>0 DEF WorkerControl
<1>1. CASE Start(w)
  <2>1. CASE cur[w] # None
    <3>1. SameOwners
      BY <1>0, <1>1, <2>1 DEF Start, SameOwners, Goto, ThreadTypes, drainer, Creating, Thread
    <3> QED BY <1>0, <1>1, <2>1, <3>1, CalmPreserves DEF Start, queue, context
  <2>2. CASE cur[w] = None
    BY <1>0, <1>1, <2>2, TakePreserves DEF Start
  <2> QED BY <2>1, <2>2
<1>2. CASE Grab(w)
  <2>1. SameOwners
    BY <1>0, <1>2 DEF Grab, SameOwners, Goto, ThreadTypes, drainer, Creating, Thread
  <2>2. \A p \in Queue : release[p] => ref'[p] = ref[p]
    <3>1. \A p \in Queue : p \in live => ~release[p]
      BY LiveIsReferenced, ReferencedIsUnmarked
    <3> QED BY <1>0, <1>2, <3>1 DEF Grab, ContextTypes
  <2> QED BY <1>0, <1>2, <2>1, <2>2, CalmPreserves DEF Grab, queue
<1>3. CASE WorkerQueueRelease(w)
  <2>1. CASE release[cur[w]]
    <3>1. w \in Thread /\ Drained(w) = cur[w] /\ aborted' = "no"
      BY <1>0, <1>3, <2>1 DEF WorkerQueueRelease, QueueRelease, Thread, Drained
    <3>2. /\ drain' = [drain EXCEPT ![w] = "pop"] /\ pc[w] = "qrelease" /\ Goto(w, "drain")
          /\ UNCHANGED <<queue, list, context, stage, gone, cur, temp, nulled>>
      BY <1>3, <2>1 DEF WorkerQueueRelease, QueueRelease
    <3> QED BY <1>0, <2>1, <3>1, <3>2, DrainStartPreserves
  <2>2. CASE ~release[cur[w]]
    BY <1>0, <1>3, <2>2, GiveBackPreserves DEF WorkerQueueRelease, QueueRelease, drainer
  <2> QED BY <2>1, <2>2
<1>4. CASE QueueReleased(w)
  <2>1. cur[w] \in gone
    BY <1>4 DEF QueueReleased, ListAndOwners, Draining
  <2> QED BY <1>0, <1>4, <2>1, LetGoPreserves DEF QueueReleased, queue
<1>5. CASE PopMessage(w)
  <2>1. cur[w] \in Queue /\ ctx[w] = cur[w] /\ drain[w] = "no" /\ pc[w] = "pop"
    BY <1>0, <1>5 DEF PopMessage, WorkerControl, ThreadTypes, Busy, Grabbed, Null
  <2>2. Referenced(cur[w])
    BY <2>1, LiveIsReferenced
  <2>3. ~release[cur[w]] /\ stage[cur[w]] # "none"
    BY <2>1, <2>2, ReferencedIsUnmarked DEF Referenced
  <2>4. /\ PopFull(cur[w]) \/ PopEmpty(cur[w])
        /\ cur' = [cur EXCEPT ![w] = None] /\ Goto(w, "release") /\ aborted' = "no"
        /\ UNCHANGED <<list, context, stage, drainer, temp, nulled>>
    BY <1>0, <1>5 DEF PopMessage
  <2> QED BY <1>0, <2>1, <2>3, <2>4, LetGoPreserves
<1>6. CASE PopNull(w) \/ Body(w) \/ After(w) \/ Swap(w)
  BY <1>0, <1>6, NulledPreserves
<1>7. CASE DispatchRelease(w)
  <2>1. ctx[w] \in Queue /\ pc[w] = "release"
    BY <1>0, <1>7 DEF DispatchRelease, WorkerControl, ThreadTypes, Grabbed, Null
  <2>2. Referenced(ctx[w])
    BY <2>1, LiveIsReferenced
  <2>3. Touched(ctx[w])
    BY <1>0, <1>7, <2>1, <2>2, UnreferenceTouches DEF DispatchRelease, Release
  <2>4. SameOwners
    BY <1>0, <1>7 DEF DispatchRelease, SameOwners, Goto, ThreadTypes, drainer, Creating, Thread
  <2>5. UNCHANGED stage
    BY <1>7 DEF DispatchRelease
  <2> QED BY <1>0, <2>1, <2>2, <2>3, <2>4, <2>5, TouchPreserves
<1>8. CASE NextQueue(w)
  <2>1. cur[w] = None
    BY <1>0, <1>8 DEF NextQueue, WorkerControl
  <2> QED BY <1>0, <1>8, <2>1, TakePreserves DEF NextQueue
<1> QED BY <1>1, <1>2, <1>3, <1>4, <1>5, <1>6, <1>7, <1>8 DEF DispatchStep

LEMMA DrainPreserves ==
  ASSUME Base, ListAndOwners, NEW t \in Thread, DrainStep(t)
  PROVE  ListAndOwners'
<1> USE DispatchAssumption
<1>0. /\ QueueTypes /\ ListTypes /\ ContextTypes /\ ThreadTypes /\ WorkerControl /\ DrainControl
      /\ aborted = "no"
  BY DEF Base, Shape, Types, DrainStep
<1>1. CASE DrainDrop(t)
  <2>1. SameOwners
    BY <1>0, <1>1 DEF DrainDrop, SameOwners, ThreadTypes, worker, Creating, Thread
  <2>2. \A p \in Queue : release[p] => ref'[p] = ref[p]
    <3>1. \A p \in Queue : p \in live => ~release[p]
      BY LiveIsReferenced, ReferencedIsUnmarked
    <3> QED BY <1>0, <1>1, <3>1 DEF DrainDrop, ContextTypes
  <2>3. UNCHANGED <<msgs, release, in_global, list, stage>> /\ aborted' = "no"
    BY <1>0, <1>1 DEF DrainDrop, PopFull
  <2> QED BY <1>0, <2>1, <2>2, <2>3, CalmPreserves
<1>2. CASE DrainPush(t) \/ DrainRelease(t)
  <2>1. dest[t] \in Queue
    BY <1>0, <1>2 DEF DrainPush, DrainRelease, DrainControl, ThreadTypes, Null
  <2>2. Referenced(dest[t])
    BY <2>1, LiveIsReferenced
  <2>3. Touched(dest[t])
    <3>1. CASE DrainPush(t)
      BY <1>0, <2>1, <2>2, <3>1, PushTouches DEF DrainPush, context
    <3>2. CASE DrainRelease(t)
      BY <1>0, <2>1, <2>2, <3>2, UnreferenceTouches DEF DrainRelease, ReleaseAndDelete
    <3> QED BY <1>2, <3>1, <3>2
  <2>4. SameOwners
    BY <1>0, <1>2 DEF DrainPush, DrainRelease, SameOwners, ThreadTypes, worker, Creating, Thread
  <2>5. UNCHANGED stage
    BY <1>2 DEF DrainPush, DrainRelease
  <2> QED BY <1>0, <2>1, <2>2, <2>3, <2>4, <2>5, TouchPreserves
<1>3. CASE DrainEnd(t)
  BY <1>0, <1>3, DrainEndPreserves
<1> QED BY <1>1, <1>2, <1>3 DEF DrainStep

LEMMA CreatePreserves ==
  ASSUME Base, ListAndOwners, NEW q \in Queue, CreateStep(q)
  PROVE  ListAndOwners'
<1> USE DispatchAssumption
<1>0. /\ QueueTypes /\ ListTypes /\ ContextTypes /\ ThreadTypes /\ aborted = "no"
  BY DEF Base, Shape, Types, CreateStep
<1>1. CASE NewContext(q)
  BY <1>0, <1>1, NewContextPreserves
<1>2. CASE InitSucceeds(q) \/ InitFails(q) \/ FailRelease(q)
  <2>1. Referenced(q)
    BY <1>2, LiveIsReferenced DEF InitSucceeds, InitFails, FailRelease
  <2>2. Touched(q)
    BY <1>0, <1>2, <2>1, UnreferenceTouches
       DEF InitSucceeds, InitFails, FailRelease, ReleaseAndDelete, Release
  <2>3. SameOwners
    BY <1>0, <1>2
       DEF InitSucceeds, InitFails, FailRelease, SameOwners, Advance, ThreadTypes, worker, drainer,
           Creating, Stage
  <2>4. \A p \in Queue : stage'[p] = "none" <=> stage[p] = "none"
    BY <1>0, <1>2 DEF InitSucceeds, InitFails, FailRelease, Advance, ThreadTypes
  <2> QED BY <1>0, <2>1, <2>2, <2>3, <2>4, TouchPreserves
<1>3. CASE FailRetire(q)
  <2>1. SameOwners
    BY <1>0, <1>3 DEF FailRetire, SameOwners, Advance, ThreadTypes, worker, drainer, Creating, Stage
  <2>2. \A p \in Queue : stage'[p] = "none" <=> stage[p] = "none"
    BY <1>0, <1>3 DEF FailRetire, Advance, ThreadTypes
  <2> QED BY <1>0, <1>3, <2>1, <2>2, CalmPreserves DEF FailRetire, queue
<1>4. CASE InitPush(q)
  <2>1. stage[q] \in Stage \ {"none", "done"}
    BY <1>4 DEF InitPush, Stage
  <2> QED BY <1>0, <1>4, <2>1, PublishPreserves DEF InitPush, Advance
<1>5. CASE FailQueueRelease(q)
  <2>1. stage[q] \in Stage \ {"none", "done"}
    BY <1>5 DEF FailQueueRelease, Stage
  <2>2. CASE release[q]
    <3>1. q \in Thread /\ Drained(q) = q /\ aborted' = "no"
      BY <1>0, <1>5, <2>2 DEF FailQueueRelease, QueueRelease, Thread, Drained
    <3>2. /\ drain' = [drain EXCEPT ![q] = "pop"] /\ stage[q] = "fail3" /\ Advance(q, "done")
          /\ UNCHANGED <<queue, list, context, gone, pc, cur, temp, nulled>>
      BY <1>5, <2>2 DEF FailQueueRelease, QueueRelease, worker
    <3> QED BY <1>0, <2>2, <3>1, <3>2, DrainStartPreserves
  <2>3. CASE ~release[q]
    BY <1>0, <1>5, <2>1, <2>3, PublishPreserves DEF FailQueueRelease, QueueRelease, Advance, drainer
  <2> QED BY <2>2, <2>3
<1> QED BY <1>1, <1>2, <1>3, <1>4, <1>5 DEF CreateStep

LEMMA SenderPreserves ==
  ASSUME Base, ListAndOwners, NEW s \in Sender, SenderStep(s)
  PROVE  ListAndOwners'
<1> USE DispatchAssumption
<1>0. /\ QueueTypes /\ ListTypes /\ ContextTypes /\ ThreadTypes /\ SenderControl /\ aborted = "no"
  BY DEF Base, Shape, Types, SenderStep
<1>1. ASSUME NEW q \in Queue, SendGrab(s, q) \/ Retire(s, q)
      PROVE  ListAndOwners'
  <2>1. SameOwners
    BY <1>1 DEF SendGrab, Retire, SameOwners, worker, drainer, Creating
  <2>2. \A p \in Queue : release[p] => ref'[p] = ref[p]
    <3>1. \A p \in Queue : p \in live => ~release[p]
      BY LiveIsReferenced, ReferencedIsUnmarked
    <3> QED BY <1>0, <1>1, <3>1 DEF SendGrab, Retire, ContextTypes
  <2>3. UNCHANGED <<msgs, release, in_global, list, stage>> /\ aborted' = "no"
    BY <1>0, <1>1 DEF SendGrab, Retire, queue
  <2> QED BY <1>0, <2>1, <2>2, <2>3, CalmPreserves
<1>2. CASE SendPush(s) \/ SendRelease(s) \/ RetireRelease(s)
  <2>1. target[s] \in Queue
    BY <1>0, <1>2 DEF SendPush, SendRelease, RetireRelease, SenderControl, ThreadTypes, Null
  <2>2. Referenced(target[s])
    BY <2>1, LiveIsReferenced
  <2>3. Touched(target[s])
    <3>1. CASE SendPush(s)
      BY <1>0, <2>1, <2>2, <3>1, PushTouches DEF SendPush, context
    <3>2. CASE SendRelease(s) \/ RetireRelease(s)
      BY <1>0, <2>1, <2>2, <3>2, UnreferenceTouches
         DEF SendRelease, RetireRelease, ReleaseAndDelete, Release
    <3> QED BY <1>2, <3>1, <3>2
  <2>4. SameOwners /\ UNCHANGED stage
    BY <1>2 DEF SendPush, SendRelease, RetireRelease, SameOwners, worker, drainer, Creating
  <2> QED BY <1>0, <2>1, <2>2, <2>3, <2>4, TouchPreserves
<1> QED BY <1>1, <1>2 DEF SenderStep

LEMMA InitListAndOwners == Init => ListAndOwners
<1> SUFFICES ASSUME Init PROVE ListAndOwners
  OBVIOUS
<1> USE DispatchAssumption
<1>1. /\ head = None /\ tail = None /\ \A q \in Queue : next[q] = None
      /\ \A q \in Queue : ~release[q] /\ in_global[q] = 1 /\ msgs[q] = <<>> /\ stage[q] = "none"
      /\ \A t \in Thread : drain[t] = "no"
      /\ \A w \in Worker : pc[w] = "start" /\ cur[w] = None
      /\ gone = {} /\ aborted = "no"
  BY DEF Init, Thread
<1>2. IsList(<<>>) /\ <<>> \in Seq(Queue)
  BY <1>1 DEF IsList
<1>3. ListInv
  BY <1>2 DEF ListInv
<1>4. \A q \in Queue : ~Linked(q) /\ ~Creating(q)
  BY <1>1 DEF Linked, Creating, Thread
<1>5. Marked /\ Fresh /\ Draining /\ Flagged
  BY <1>1 DEF Marked, Fresh, Draining, Flagged
<1>6. Owned
  BY <1>1, <1>4 DEF Owned, NoLoop, NotNulled, Exclusive, Idle, Nowhere, Deleted
<1> QED BY <1>3, <1>5, <1>6 DEF ListAndOwners

LEMMA ListAndOwnersStep == Base /\ ListAndOwners /\ [Next]_vars => ListAndOwners'
<1> SUFFICES ASSUME Base, ListAndOwners, [Next]_vars PROVE ListAndOwners'
  OBVIOUS
<1>1. CASE Next
  BY <1>1, DispatchPreserves, DrainPreserves, CreatePreserves, SenderPreserves DEF Next, Thread
<1>2. CASE UNCHANGED vars
  BY <1>2
     DEF vars, queue, list, context, drainer, worker, sender, ListAndOwners, ListInv, IsList, Marked, Fresh,
         Draining, Drained, Flagged, Linked, Held, Creating, Owned, NoLoop, NotNulled, Exclusive, Idle,
         Nowhere, Deleted
<1> QED BY <1>1, <1>2

LEMMA ListAndOwnersInvariant == Spec => [](Base /\ ListAndOwners)
<1>1. Init => ListAndOwners BY InitListAndOwners
<1>2. Base /\ ListAndOwners /\ [Next]_vars => ListAndOwners' BY ListAndOwnersStep
<1> QED BY <1>1, <1>2, BaseInvariant, PTL DEF Spec


-------------------------------------------------------------------------------
(***************************************************************************)
(* What Chain computes.  Its walk appends the successor of the last queue  *)
(* as long as there is one, so after k steps it has seen the first k + 1   *)
(* queues of the list, all of them when the list is shorter; a tail that   *)
(* is its own successor is seen again and again.                           *)
(***************************************************************************)
WalkOn(c) == IF c = <<>> \/ next[c[Len(c)]] = None THEN c ELSE Append(c, next[c[Len(c)]])

IsWalk(f) == f = [k \in 0 .. Cardinality(Queue) |->
                    IF k = 0
                      THEN IF head = None THEN <<>> ELSE <<head>>
                      ELSE WalkOn(f[k - 1])]

Seen(s, k) == IF s = <<>> THEN 0
              ELSE IF k + 1 <= Len(s) \/ next[s[Len(s)]] # None THEN k + 1
              ELSE Len(s)

Walked(s, k) == [j \in 1 .. Seen(s, k) |-> IF j <= Len(s) THEN s[j] ELSE s[Len(s)]]

LEMMA WalkedStart ==
  ASSUME NEW s \in Seq(Queue), IsList(s)
  PROVE  Walked(s, 0) = IF head = None THEN <<>> ELSE <<head>>
<1> USE DispatchAssumption
<1>1. CASE s = <<>>
  BY <1>1 DEF Walked, Seen, IsList
<1>2. CASE s # <<>>
  <2>1. Len(s) \in Nat \ {0} /\ head = s[1] /\ s[1] \in Queue
    BY <1>2 DEF IsList
  <2>2. Seen(s, 0) = 1
    BY <1>2, <2>1 DEF Seen
  <2> QED BY <2>1, <2>2 DEF Walked
<1> QED BY <1>1, <1>2

LEMMA WalkedStep ==
  ASSUME NEW s \in Seq(Queue), IsList(s), NEW k \in Nat
  PROVE  Walked(s, k + 1) = WalkOn(Walked(s, k))
<1> USE DispatchAssumption
<1> DEFINE c == Walked(s, k)
           l == Len(s)
           m == Seen(s, k)
<1>0. l \in Nat /\ \A j \in 1 .. l : s[j] \in Queue
  OBVIOUS
<1>1. CASE s = <<>>
  BY <1>1 DEF Walked, Seen, WalkOn
<1>2. CASE s # <<>>
  <2>1. l # 0 /\ s[l] \in Queue
    BY <1>2
  <2>2. m \in Nat \ {0}
    BY <1>0, <1>2, <2>1 DEF Seen
  <2>3. c = [j \in 1 .. m |-> IF j <= l THEN s[j] ELSE s[l]]
    BY DEF Walked
  <2>m. /\ m = IF k + 1 <= l \/ next[s[l]] # None THEN k + 1 ELSE l
        /\ Seen(s, k + 1) = IF (k + 1) + 1 <= l \/ next[s[l]] # None THEN (k + 1) + 1 ELSE l
    BY <1>2 DEF Seen
  <2>w. Walked(s, k + 1) = [j \in 1 .. Seen(s, k + 1) |-> IF j <= l THEN s[j] ELSE s[l]]
    BY DEF Walked
  <2>n. /\ \A j \in 1 .. l - 1 : next[s[j]] = s[j + 1]
        /\ next[s[l]] \in {None, s[l]}
    BY <1>2 DEF IsList
  <2> HIDE DEF l, m, c
  <2>4. c \in Seq(Queue) /\ Len(c) = m /\ c # <<>>
    <3>1. \A j \in 1 .. m : (IF j <= l THEN s[j] ELSE s[l]) \in Queue
      BY <1>0, <2>1, <2>2
    <3>2. c \in [1 .. m -> Queue]
      BY <2>3, <3>1
    <3>3. c \in Seq(Queue) /\ Len(c) = m
      BY <2>2, <3>2
    <3> QED BY <2>2, <3>3
  <2>5. c[Len(c)] = IF m <= l THEN s[m] ELSE s[l]
    BY <2>2, <2>3, <2>4
  <2>6. CASE k + 1 < l
    <3>1. m = k + 1 /\ m \in 1 .. l - 1 /\ m + 1 \in 1 .. l /\ Seen(s, k + 1) = m + 1
      BY <1>0, <2>6, <2>m
    <3>2. next[c[Len(c)]] = s[m + 1] /\ s[m + 1] \in Queue
      BY <1>0, <2>5, <2>n, <3>1
    <3>3. WalkOn(c) = Append(c, s[m + 1])
      BY <2>4, <3>2 DEF WalkOn
    <3>4. Append(c, s[m + 1]) = [j \in 1 .. m + 1 |-> IF j <= l THEN s[j] ELSE s[l]]
      BY <1>0, <2>2, <2>3, <2>4, <3>1, <3>2
    <3> QED BY <2>w, <3>1, <3>3, <3>4 DEF c
  <2>7. CASE ~(k + 1 < l) /\ next[s[l]] # None
    <3>1. m = k + 1 /\ l <= m /\ Seen(s, k + 1) = m + 1
      BY <1>0, <2>7, <2>m
    <3>2. c[Len(c)] = s[l] /\ next[c[Len(c)]] = s[l]
      BY <1>0, <2>2, <2>5, <2>7, <2>n, <3>1
    <3>3. WalkOn(c) = Append(c, s[l])
      BY <2>1, <2>4, <3>2 DEF WalkOn
    <3>4. Append(c, s[l]) = [j \in 1 .. m + 1 |-> IF j <= l THEN s[j] ELSE s[l]]
      BY <1>0, <2>1, <2>2, <2>3, <2>4, <3>1
    <3> QED BY <2>w, <3>1, <3>3, <3>4 DEF c
  <2>8. CASE ~(k + 1 < l) /\ next[s[l]] = None
    <3>1. m = l /\ Seen(s, k + 1) = l
      BY <1>0, <2>8, <2>m
    <3>2. WalkOn(c) = c
      BY <2>1, <2>5, <2>8, <3>1 DEF WalkOn
    <3> QED BY <2>3, <2>w, <3>1, <3>2 DEF c
  <2> QED BY <2>6, <2>7, <2>8
<1> QED BY <1>1, <1>2

LEMMA ChainIsWalked ==
  ASSUME NEW s \in Seq(Queue), IsList(s)
  PROVE  Chain = Walked(s, Cardinality(Queue))
<1> DEFINE N == Cardinality(Queue)
           g == [k \in 0 .. N |-> Walked(s, k)]
<1>0. N \in Nat
  BY DispatchAssumption, FS_CardinalityType
<1> HIDE DEF N
<1>1. ASSUME NEW k \in 0 .. N, k # 0 PROVE Walked(s, k) = WalkOn(Walked(s, k - 1))
  <2>1. k - 1 \in Nat /\ (k - 1) + 1 = k
    BY <1>0, <1>1
  <2> QED BY <2>1, WalkedStep
<1>2. g = [k \in 0 .. N |-> IF k = 0 THEN IF head = None THEN <<>> ELSE <<head>>
                            ELSE WalkOn(g[k - 1])]
  <2>1. ASSUME NEW k \in 0 .. N
        PROVE  Walked(s, k) = IF k = 0 THEN IF head = None THEN <<>> ELSE <<head>>
                              ELSE WalkOn(g[k - 1])
    <3>1. CASE k = 0
      BY <3>1, WalkedStart
    <3>2. CASE k # 0
      <4>1. k - 1 \in 0 .. N
        BY <1>0, <3>2
      <4>2. g[k - 1] = Walked(s, k - 1)
        BY <4>1
      <4> HIDE DEF g
      <4> QED BY <1>1, <3>2, <4>2
    <3> QED BY <3>1, <3>2
  <2> QED BY <2>1
<1>3. IsWalk(g)
  BY <1>2 DEF IsWalk, N
<1>4. PICK f : IsWalk(f) /\ Chain = f[N]
  <2> HIDE DEF g
  <2>1. Chain = (CHOOSE f : IsWalk(f))[N]
    BY DEF Chain, IsWalk, WalkOn, N
  <2> QED BY <1>3, <2>1
<1>5. \A k \in 0 .. N : f[k] = Walked(s, k)
  <2> DEFINE T == {k \in 0 .. N : f[k] # Walked(s, k)}
  <2>1. ASSUME T # {} PROVE FALSE
    <3>1. T \subseteq Nat
      BY <1>0
    <3> HIDE DEF T
    <3>2. PICK k \in T : \A j \in T : k <= j
      BY <2>1, <3>1, NonemptyNatHasMin
    <3>3. k \in 0 .. N /\ f[k] # Walked(s, k)
      BY <3>2 DEF T
    <3>4. f[k] = IF k = 0 THEN IF head = None THEN <<>> ELSE <<head>> ELSE WalkOn(f[k - 1])
      BY <1>4, <3>3 DEF IsWalk, N
    <3>5. CASE k = 0
      BY <3>3, <3>4, <3>5, WalkedStart
    <3>6. CASE k # 0
      <4>1. k - 1 \in 0 .. N /\ ~(k <= k - 1)
        BY <1>0, <3>3, <3>6
      <4>2. f[k - 1] = Walked(s, k - 1)
        BY <3>2, <4>1 DEF T
      <4> QED BY <1>1, <3>3, <3>4, <3>6, <4>2
    <3> QED BY <3>5, <3>6
  <2> QED BY <2>1
<1>6. N \in 0 .. N
  BY <1>0
<1> QED BY <1>4, <1>5, <1>6 DEF N


LEMMA ListIsShort ==
  ASSUME NEW s \in Seq(Queue), IsList(s)
  PROVE  Len(s) <= Cardinality(Queue) /\ Cardinality(Queue) \in Nat
<1> DEFINE D == 1 .. Len(s)
           f == [k \in D |-> s[k]]
<1>0. IsFiniteSet(Queue) /\ Cardinality(Queue) \in Nat
  BY DispatchAssumption, FS_CardinalityType
<1>1. f \in [D -> Queue] /\ \A j, k \in D : f[j] = f[k] => j = k
  BY DEF IsList
<1>2. IsFiniteSet(D) /\ Cardinality(D) = Len(s)
  <2> DEFINE l == Len(s)
  <2>1. l \in Nat OBVIOUS
  <2> HIDE DEF l
  <2>2. IsFiniteSet(1 .. l) /\ Cardinality(1 .. l) = l
    BY <2>1, FS_Interval
  <2> QED BY <2>2 DEF l
<1> HIDE DEF D, f
<1>3. f \in Injection(D, Queue)
  BY <1>1, Fun_IsInj
<1>4. Cardinality(D) <= Cardinality(Queue)
  BY <1>0, <1>3, FS_Injection
<1> QED BY <1>0, <1>2, <1>4

(***************************************************************************)
(* In a list without a loop Chain is the list; in any list it meets every  *)
(* queue that is linked.                                                   *)
(***************************************************************************)
LEMMA ChainIsList ==
  ASSUME NEW s \in Seq(Queue), IsList(s), NoLoop
  PROVE  Chain = s
<1> USE DispatchAssumption
<1> DEFINE N == Cardinality(Queue)
           l == Len(s)
<1>1. l \in Nat /\ N \in Nat /\ l <= N
  BY ListIsShort
<1>2. Seen(s, N) = l
  <2>1. CASE s = <<>>
    BY <2>1 DEF Seen
  <2>2. CASE s # <<>>
    <3>1. next[s[l]] = None
      BY <2>2 DEF IsList, NoLoop
    <3>2. Seen(s, N) = IF N + 1 <= l \/ next[s[l]] # None THEN N + 1 ELSE l
      BY <2>2 DEF Seen
    <3> HIDE DEF N, l
    <3> QED BY <1>1, <3>1, <3>2
  <2> QED BY <2>1, <2>2
<1>3. Chain = [j \in 1 .. l |-> IF j <= l THEN s[j] ELSE s[l]]
  BY <1>2, ChainIsWalked DEF Walked
<1>4. \A j \in 1 .. l : j <= l
  BY <1>1
<1>5. s = [j \in 1 .. l |-> s[j]]
  OBVIOUS
<1> HIDE DEF l
<1> QED BY <1>3, <1>4, <1>5

LEMMA ChainMeetsLinked ==
  ASSUME ListInv
  PROVE  /\ IsFiniteSet(DOMAIN Chain)
         /\ \A q \in Queue : Linked(q) => \E k \in DOMAIN Chain : Chain[k] = q
<1>1. PICK s \in Seq(Queue) : IsList(s)
  BY DEF ListInv
<1> DEFINE N == Cardinality(Queue)
           l == Len(s)
           m == Seen(s, N)
<1>2. l \in Nat /\ N \in Nat /\ l <= N
  BY <1>1, ListIsShort
<1>3. m \in Nat /\ l <= m
  <2>1. CASE s = <<>>
    BY <2>1 DEF Seen
  <2>2. CASE s # <<>>
    <3>1. m = IF N + 1 <= l \/ next[s[l]] # None THEN N + 1 ELSE l
      BY <2>2 DEF Seen
    <3> HIDE DEF N, l, m
    <3> QED BY <1>2, <3>1
  <2> QED BY <2>1, <2>2
<1>4. Chain = [j \in 1 .. m |-> IF j <= l THEN s[j] ELSE s[l]]
  BY <1>1, ChainIsWalked DEF Walked
<1> HIDE DEF N, l, m
<1>5. DOMAIN Chain = 1 .. m
  BY <1>4
<1>6. IsFiniteSet(DOMAIN Chain)
  BY <1>3, <1>5, FS_Interval
<1>7. ASSUME NEW q \in Queue, Linked(q) PROVE \E k \in DOMAIN Chain : Chain[k] = q
  <2>1. PICK k \in 1 .. l : s[k] = q
    BY <1>1, <1>7, LinkedIsInList DEF l
  <2>2. k \in DOMAIN Chain /\ Chain[k] = s[k]
    BY <1>2, <1>3, <1>4, <1>5, <2>1
  <2> QED BY <2>1, <2>2
<1> QED BY <1>6, <1>7

-------------------------------------------------------------------------------
(***************************************************************************)
(* What the invariant says in terms of Chain and Places.                   *)
(***************************************************************************)
LEMMA AtMostOne ==
  ASSUME NEW S, \A x, y \in S : x = y
  PROVE  IsFiniteSet(S) /\ Cardinality(S) \in {0, 1} /\ (S = {} => Cardinality(S) = 0)
<1>1. CASE S = {}
  BY <1>1, FS_EmptySet
<1>2. CASE S # {}
  <2>1. PICK x \in S : TRUE BY <1>2
  <2>2. S = {x} BY <2>1
  <2>3. IsFiniteSet({x}) /\ Cardinality({x}) = 1
    BY FS_Singleton
  <2> QED BY <1>2, <2>2, <2>3
<1> QED BY <1>1, <1>2

LEMMA Counts ==
  ASSUME NEW S, IsFiniteSet(S)
  PROVE  Cardinality(S) \in Nat /\ (S # {} => Cardinality(S) > 0)
<1>1. Cardinality(S) \in Nat
  BY FS_CardinalityType
<1>2. Cardinality(S) = 0 <=> S = {}
  BY FS_EmptySet
<1> QED BY <1>1, <1>2

Ahead(q) == {k \in DOMAIN Chain : Chain[k] = q}
Keepers(q) == {w \in Worker : q \in {cur[w], temp[w]}}

LEMMA SomebodyHasIt ==
  ASSUME ListInv, NEW q \in Queue, Linked(q) \/ Held(q) \/ Creating(q)
  PROVE  Places(q) > 0
<1>1. IsFiniteSet(Ahead(q)) /\ (Linked(q) => Ahead(q) # {})
  <2>1. IsFiniteSet(DOMAIN Chain) /\ (Linked(q) => \E k \in DOMAIN Chain : Chain[k] = q)
    BY ChainMeetsLinked
  <2>2. Ahead(q) \in SUBSET DOMAIN Chain
    BY DEF Ahead
  <2>3. IsFiniteSet(Ahead(q))
    BY <2>1, <2>2, FS_Subset
  <2> QED BY <2>1, <2>3 DEF Ahead
<1>2. IsFiniteSet(Keepers(q)) /\ (Held(q) => Keepers(q) # {})
  <2>1. Keepers(q) \in SUBSET Worker
    BY DEF Keepers
  <2>2. IsFiniteSet(Keepers(q))
    BY <2>1, DispatchAssumption, FS_Subset
  <2> QED BY <2>2 DEF Keepers, Held
<1>3. /\ Cardinality(Ahead(q)) \in Nat /\ (Linked(q) => Cardinality(Ahead(q)) > 0)
      /\ Cardinality(Keepers(q)) \in Nat /\ (Held(q) => Cardinality(Keepers(q)) > 0)
  BY <1>1, <1>2, Counts
<1>4. Places(q) = Cardinality(Ahead(q)) + Cardinality(Keepers(q)) + (IF Creating(q) THEN 1 ELSE 0)
  BY DEF Places, Ahead, Keepers, Creating
<1> QED BY <1>3, <1>4

LEMMA OneHasIt ==
  ASSUME Base, ListAndOwners, ~nulled, NEW q \in Queue
  PROVE  Places(q) <= 1
<1> USE DispatchAssumption
<1>0. Owned /\ ThreadTypes /\ WorkerControl
  BY DEF ListAndOwners, Base, Shape, Types
<1>1. PICK s \in Seq(Queue) : IsList(s) /\ Chain = s
  BY <1>0, ChainIsList DEF ListAndOwners, ListInv, Owned
<1>2. Keepers(q) = {w \in Worker : cur[w] = q}
  <2>1. \A w \in Worker : temp[w] = None
    BY <1>0 DEF Owned, NotNulled, WorkerControl
  <2> QED BY <2>1 DEF Keepers
<1>3. /\ \A x, y \in Keepers(q) : x = y
      /\ Linked(q) \/ Creating(q) => Keepers(q) = {}
      /\ ~(Linked(q) /\ Creating(q))
  BY <1>0, <1>2 DEF Owned, Exclusive
<1>4. /\ \A x, y \in Ahead(q) : x = y
      /\ ~Linked(q) => Ahead(q) = {}
  <2>1. Ahead(q) = {k \in 1 .. Len(s) : s[k] = q}
    BY <1>1 DEF Ahead
  <2>2. \A j, k \in 1 .. Len(s) : s[j] = s[k] => j = k
    BY <1>1 DEF IsList
  <2>3. Linked(q) <=> \E k \in 1 .. Len(s) : s[k] = q
    BY <1>1, LinkedIsInList
  <2> QED BY <2>1, <2>2, <2>3
<1>5. /\ Cardinality(Ahead(q)) \in {0, 1} /\ (Ahead(q) = {} => Cardinality(Ahead(q)) = 0)
      /\ Cardinality(Keepers(q)) \in {0, 1} /\ (Keepers(q) = {} => Cardinality(Keepers(q)) = 0)
  BY <1>3, <1>4, AtMostOne
<1>6. Places(q) = Cardinality(Ahead(q)) + Cardinality(Keepers(q)) + (IF Creating(q) THEN 1 ELSE 0)
  BY DEF Places, Ahead, Keepers, Creating
<1> QED BY <1>3, <1>4, <1>5, <1>6


(***************************************************************************)
(* What a step does to the list: nothing, a Push or a Pop.                 *)
(***************************************************************************)
LEMMA StepOfList ==
  ASSUME Shape, Next
  PROVE  UNCHANGED list \/ GlobalPop \/ \E q \in Queue : GlobalPush(q)
<1> USE DispatchAssumption
<1>0. ThreadTypes /\ WorkerControl /\ DrainControl /\ SenderControl
  BY DEF Shape, Types
<1>u. ASSUME NEW q \in Queue, Unreference(q) PROVE UNCHANGED list \/ GlobalPush(q)
  BY <1>u DEF Unreference, MarkRelease
<1>p. ASSUME NEW q \in Queue, NEW from, Push(q, from) PROVE UNCHANGED list \/ GlobalPush(q)
  BY <1>p DEF Push
<1>1. ASSUME NEW w \in Worker, DispatchStep(w)
      PROVE  UNCHANGED list \/ GlobalPop \/ \E q \in Queue : GlobalPush(q)
  <2>1. CASE Start(w) \/ Grab(w) \/ QueueReleased(w) \/ PopMessage(w) \/ PopNull(w) \/ Body(w)
             \/ After(w) \/ NextQueue(w)
    BY <2>1 DEF Start, Grab, QueueReleased, PopMessage, PopNull, Body, After, NextQueue
  <2>2. CASE WorkerQueueRelease(w) \/ Swap(w)
    <3>1. cur[w] \in Queue
      BY <1>0, <2>2 DEF WorkerQueueRelease, Swap, WorkerControl, ThreadTypes, Busy, Null
    <3> QED BY <2>2, <3>1 DEF WorkerQueueRelease, Swap, QueueRelease
  <2>3. CASE DispatchRelease(w)
    <3>1. ctx[w] \in Queue
      BY <1>0, <2>3 DEF DispatchRelease, WorkerControl, ThreadTypes, Grabbed, Null
    <3> QED BY <1>u, <2>3, <3>1 DEF DispatchRelease, Release
  <2> QED BY <1>1, <2>1, <2>2, <2>3 DEF DispatchStep
<1>2. ASSUME NEW t \in Thread, DrainStep(t)
      PROVE  UNCHANGED list \/ \E q \in Queue : GlobalPush(q)
  <2>1. CASE DrainDrop(t) \/ DrainEnd(t)
    BY <2>1 DEF DrainDrop, DrainEnd
  <2>2. CASE DrainPush(t) \/ DrainRelease(t)
    <3>1. dest[t] \in Queue
      BY <1>0, <2>2 DEF DrainPush, DrainRelease, DrainControl, ThreadTypes, Null
    <3> QED BY <1>p, <1>u, <2>2, <3>1 DEF DrainPush, DrainRelease, ReleaseAndDelete
  <2> QED BY <1>2, <2>1, <2>2 DEF DrainStep
<1>3. ASSUME NEW q \in Queue, CreateStep(q)
      PROVE  UNCHANGED list \/ GlobalPush(q)
  BY <1>3, <1>u
     DEF CreateStep, NewContext, InitSucceeds, InitPush, InitFails, FailRetire, FailRelease,
         FailQueueRelease, QueueRelease, Release, ReleaseAndDelete
<1>4. ASSUME NEW s \in Sender, SenderStep(s)
      PROVE  UNCHANGED list \/ \E q \in Queue : GlobalPush(q)
  <2>1. ASSUME NEW q \in Queue, SendGrab(s, q) \/ Retire(s, q) PROVE UNCHANGED list
    BY <2>1 DEF SendGrab, Retire
  <2>2. CASE SendPush(s) \/ SendRelease(s) \/ RetireRelease(s)
    <3>1. target[s] \in Queue
      BY <1>0, <2>2 DEF SendPush, SendRelease, RetireRelease, SenderControl, ThreadTypes, Null
    <3> QED BY <1>p, <1>u, <2>2, <3>1 DEF SendPush, SendRelease, RetireRelease, Release, ReleaseAndDelete
  <2> QED BY <1>4, <2>1, <2>2 DEF SenderStep
<1> QED BY <1>1, <1>2, <1>3, <1>4 DEF Next, Thread

\* ChainIsList as a state predicate, so that it can be used of the next state.
ChainCorrect == \A s \in Seq(Queue) : IsList(s) /\ NoLoop => Chain = s

ListAfter == \/ nulled' \/ aborted' # "no"
             \/ Chain' = Chain
             \/ Chain # <<>> /\ Chain' = Tail(Chain)
             \/ \E q \in Queue : Chain' = Append(Chain, q)

LEMMA FifoStep ==
  ASSUME Base, ListAndOwners, ChainCorrect, ListAndOwners', ChainCorrect', [Next]_vars
  PROVE  [ListAfter]_vars
<1> USE DispatchAssumption
<1> SUFFICES ASSUME Next, ~nulled', aborted' = "no"
             PROVE  \/ Chain' = Chain
                    \/ Chain # <<>> /\ Chain' = Tail(Chain)
                    \/ \E q \in Queue : Chain' = Append(Chain, q)
  BY DEF ListAfter
<1>0. ListTypes /\ Shape
  BY DEF Base, Shape, Types
<1>1. aborted = "no" /\ ~nulled
  <2>1. nulled => nulled'
    BY DEF Next, DispatchStep, DrainStep, CreateStep, SenderStep,
           Start, Grab, WorkerQueueRelease, QueueReleased, PopMessage, PopNull, Body, After, Swap,
           DispatchRelease, NextQueue, DrainDrop, DrainPush, DrainRelease, DrainEnd, NewContext,
           InitSucceeds, InitPush, InitFails, FailRetire, FailRelease, FailQueueRelease,
           SendGrab, SendPush, SendRelease, Retire, RetireRelease
  <2> QED BY <2>1 DEF Next, DispatchStep, DrainStep, CreateStep, SenderStep
<1>2. PICK s \in Seq(Queue) : IsList(s)
  BY DEF ListAndOwners, ListInv
<1>3. Chain = s /\ NoLoop /\ NoLoop'
  BY <1>1, <1>2 DEF ListAndOwners, Owned, ChainCorrect
<1>4. CASE UNCHANGED list
  <2>1. IsList(s)'
    BY <1>2, <1>4 DEF IsList, list
  <2> QED BY <1>3, <2>1 DEF ChainCorrect
<1>5. ASSUME NEW q \in Queue, GlobalPush(q)
      PROVE  Chain' = Chain \/ Chain' = Append(Chain, q)
  <2>1. CASE Linked(q)
    BY <1>0, <1>2, <1>3, <1>5, <2>1, PushOfTail DEF ChainCorrect
  <2>2. CASE ~Linked(q)
    <3>1. IsList(Append(s, q))' /\ Append(s, q) \in Seq(Queue)
      BY <1>0, <1>2, <1>5, <2>2, PushAppends, AppendProperties
    <3> QED BY <1>3, <3>1 DEF ChainCorrect
  <2> QED BY <2>1, <2>2
<1>6. ASSUME GlobalPop PROVE Chain' = Chain \/ (Chain # <<>> /\ Chain' = Tail(Chain))
  <2>1. CASE head = None
    <3>1. IsList(s)'
      BY <1>2, <1>6, <2>1 DEF GlobalPop, IsList, list
    <3> QED BY <1>3, <3>1 DEF ChainCorrect
  <2>2. CASE head # None /\ next[head] = head
    BY <1>0, <1>1, <1>2, <1>3, <1>6, <2>2, PopOfLoop DEF ChainCorrect
  <2>3. CASE head # None /\ next[head] # head
    <3>1. IsList(Tail(s))' /\ s # <<>>
      BY <1>0, <1>1, <1>2, <1>6, <2>3, PopTakesHead
    <3>2. Tail(s) \in Seq(Queue)
      BY <3>1, HeadTailProperties
    <3> QED BY <1>3, <3>1, <3>2 DEF ChainCorrect
  <2> QED BY <2>1, <2>2, <2>3
<1> QED BY <1>0, <1>4, <1>5, <1>6, StepOfList

-------------------------------------------------------------------------------
(***************************************************************************)
(* The theorems, for every set of services, workers and other threads.     *)
(***************************************************************************)

(***************************************************************************)
(* As long as Pop returns no null to MessageDispatch, a queue is once in   *)
(* the global list, or with one worker, or with its creator: no service is *)
(* run by two workers at a time.                                           *)
(***************************************************************************)
THEOREM QueueHasOneOwner == Spec => []SingleOwner
<1>1. Base /\ ListAndOwners => SingleOwner
  BY OneHasIt DEF SingleOwner
<1> QED BY <1>1, ListAndOwnersInvariant, PTL

(***************************************************************************)
(* No wake-up is lost, whatever Pop returns: a queue whose flag is down is *)
(* empty, and if it is marked for release and not yet deleted it is in the *)
(* list, with a worker or with its creator, who will delete it.            *)
(***************************************************************************)
THEOREM NoPushIsLost == Spec => []NoLostPush
<1>1. Base /\ ListAndOwners => NoLostPush
  BY SomebodyHasIt DEF NoLostPush, ListAndOwners, Flagged
<1> QED BY <1>1, ListAndOwnersInvariant, PTL

(***************************************************************************)
(* A queue is deleted by MessageQueue::Release only when nothing leads to  *)
(* it any more: no reference, no handle, no link, no worker.               *)
(***************************************************************************)
THEOREM DeletedIsUnreachable == Spec => []NoUseOfDeleted
<1>1. Base /\ ListAndOwners => NoUseOfDeleted
  <2> SUFFICES ASSUME Base, ListAndOwners, ~nulled, NEW q \in gone
               PROVE  /\ ref[q] = 0 /\ q \notin live
                      /\ \A k \in DOMAIN Chain : Chain[k] # q
                      /\ \A w \in Worker : cur[w] = q => pc[w] = "drain" /\ drain[w] = "no"
                      /\ tail # q
    BY DEF NoUseOfDeleted
  <2>1. q \in Queue /\ Owned /\ ThreadTypes
    BY DEF Base, Shape, Types, ThreadTypes, ListAndOwners
  <2>2. /\ release[q] /\ ~Linked(q)
        /\ \A w \in Worker : cur[w] = q => pc[w] = "drain" /\ drain[w] = "no"
    BY <2>1 DEF Owned, Deleted
  <2>3. ref[q] = 0
    BY <2>1, <2>2 DEF ListAndOwners, Marked
  <2>4. q \notin live
    <3>1. Referenced(q) => ref[q] >= 1 BY DEF Referenced
    <3> QED BY <2>1, <2>3, <3>1, LiveIsReferenced
  <2>5. PICK s \in Seq(Queue) : IsList(s) /\ Chain = s
    BY <2>1, ChainIsList DEF ListAndOwners, ListInv, Owned
  <2>6. \A k \in DOMAIN Chain : Chain[k] # q
    <3>1. \A k \in 1 .. Len(s) : s[k] # q
      BY <2>1, <2>2, <2>5, LinkedIsInList
    <3> QED BY <2>5, <3>1
  <2> QED BY <2>2, <2>3, <2>4, <2>6 DEF Linked
<1> QED BY <1>1, ListAndOwnersInvariant, PTL

(***************************************************************************)
(* As long as Pop returns no null, head_, tail_ and next_ form a list that *)
(* ends at tail_ and leaves no queue outside it with a successor.          *)
(***************************************************************************)
THEOREM ListIsWellFormed == Spec => []ListWellFormed
<1>1. Base /\ ListAndOwners => ListWellFormed
  <2> SUFFICES ASSUME Base, ListAndOwners, ~nulled
               PROVE  /\ tail = (IF Chain = <<>> THEN None ELSE Chain[Len(Chain)])
                      /\ \A q \in Queue : next[q] # None => \E k \in DOMAIN Chain : Chain[k] = q
    BY DEF ListWellFormed
  <2>1. PICK s \in Seq(Queue) : IsList(s) /\ Chain = s
    BY ChainIsList DEF ListAndOwners, ListInv, Owned
  <2>2. tail = (IF Chain = <<>> THEN None ELSE Chain[Len(Chain)])
    BY <2>1 DEF IsList
  <2>3. ASSUME NEW q \in Queue, next[q] # None PROVE \E k \in DOMAIN Chain : Chain[k] = q
    <3>1. Linked(q) BY <2>3 DEF Linked
    <3> QED BY <2>1, <3>1, LinkedIsInList
  <2> QED BY <2>2, <2>3
<1> QED BY <1>1, ListAndOwnersInvariant, PTL

(***************************************************************************)
(* As long as Pop returns no null, no assertion of mq.cpp fails.           *)
(***************************************************************************)
THEOREM NoAssertionFails == Spec => []AssertionsHold
<1>1. Base /\ ListAndOwners => AssertionsHold
  BY DEF AssertionsHold, ListAndOwners, Owned
<1> QED BY <1>1, ListAndOwnersInvariant, PTL

(***************************************************************************)
(* Every step leaves the global list, takes its first queue away or adds   *)
(* one at its end, until an assertion or a null returned by Pop ends it.   *)
(***************************************************************************)
THEOREM ListIsFifo == Spec => GlobalIsFifo
<1>1. ChainCorrect
  BY ChainIsList DEF ChainCorrect
<1>2. Base /\ ListAndOwners /\ ChainCorrect /\ ListAndOwners' /\ ChainCorrect' /\ [Next]_vars
        => [ListAfter]_vars
  BY FifoStep
<1>3. [][ListAfter]_vars => GlobalIsFifo
  <2>1. [ListAfter]_vars => [\/ nulled' \/ aborted' # "no"
                             \/ Chain' = Chain
                             \/ Chain # <<>> /\ Chain' = Tail(Chain)
                             \/ \E q \in Queue : Chain' = Append(Chain, q)]_vars
    BY DEF ListAfter
  <2> QED BY <2>1, PTL DEF GlobalIsFifo
<1> QED BY <1>1, <1>2, <1>3, ListAndOwnersInvariant, PTL DEF Spec


===============================================================================
