-------------------------------- MODULE Timer --------------------------------
(***************************************************************************)
(* The timer of skynet-src/timer.cpp: a wheel of the next ticks, four      *)
(* coarser wheels, the thread that moves the time on and the threads that  *)
(* call Timeout.                                                           *)
(*                                                                         *)
(* The shifts are parameters, so that a small wheel has all the levels and *)
(* soon wraps; times are numbers modulo 2^Width as uint32_t's are modulo   *)
(* 2^32.  A call of Timeout and the node it makes have one name.  A        *)
(* section under the timer's spinlock is one step, except that the timer   *)
(* thread holds the lock over several.                                     *)
(*                                                                         *)
(* A node lives in Timeout's stack frame and is used, and deleted, after   *)
(* Timeout has returned.  A behaviour of the code is followed as long as   *)
(* the frames of linked nodes are left alone; an allocator may refuse to   *)
(* delete one, which stops the process (aborted), or not notice.           *)
(***************************************************************************)
EXTENDS Integers, Sequences, FiniteSets

CONSTANTS Node,           \* the calls of Timeout and their nodes
          NearShift,      \* TIME_NEAR_SHIFT
          LevelShift,     \* TIME_LEVEL_SHIFT
          MaxDelay,       \* bound: the largest time passed to Timeout
          MaxDiff,        \* bound: the ticks one Updatetime catches up with
          MaxLag          \* bound: the ticks by which AddNode may come late

Width == NearShift + 4 * LevelShift

ASSUME TimerAssumption == /\ NearShift \in Nat /\ LevelShift \in Nat \ {0}
                          /\ MaxDelay \in Nat /\ MaxDelay < 2^(Width - 1)
                          /\ MaxDiff \in Nat \ {0}
                          /\ MaxLag \in Nat \ {0}

VARIABLES near, t,        \* near_ and t_: the nodes of every list
          time,           \* time_
          current,        \* current_, modulo 2^Width
          lock,           \* the spinlock is taken
          todo,           \* the calls of Update that Updatetime still makes
          pc,             \* where the timer thread is in Update
          pass,           \* which of the two calls of Execute it is in
          batch,          \* the list it is dispatching
          adding,         \* the calls of Timeout before AddNode
          expire,         \* of each node
          left,           \* auxiliary: the ticks until a pending node is due
          late,           \* auxiliary: the nodes filed after they were due
          aborted         \* the process has stopped

wheel == <<near, t>>
updating == <<current, todo, pc, pass>>
ghosts == <<left, late>>
vars == <<wheel, time, lock, updating, batch, adding, expire, ghosts, aborted>>

Near == 2^NearShift
Level == 2^LevelShift

Init == /\ near = [k \in 0 .. Near - 1 |-> <<>>]
        /\ t = [i \in 0 .. 3 |-> [k \in 0 .. Level - 1 |-> <<>>]]
        /\ time = 0
        /\ current = 0
        /\ lock = FALSE
        /\ todo = 0
        /\ pc = "idle"
        /\ pass = 1
        /\ batch = <<>>
        /\ adding = {}
        /\ expire = [n \in Node |-> 0]
        /\ left = [n \in Node |-> 0]
        /\ late = {}
        /\ aborted = FALSE

NodesOf(list) == {list[k] : k \in DOMAIN list}

\* The nodes that are linked in the wheel.
Filed == UNION ({NodesOf(near[k]) : k \in DOMAIN near}
                \union {NodesOf(t[i][k]) : i \in 0 .. 3, k \in 0 .. Level - 1})

Pending == adding \union Filed \union NodesOf(batch)

-------------------------------------------------------------------------------
(***************************************************************************)
(* Timer::AddNode.  Two times agree under a mask if they are in one block  *)
(* of that size; a node goes to the first level of which it is in the      *)
(* current block, or to the last.                                          *)
(***************************************************************************)
SameBlock(e, c, bits) == e \div 2^bits = c \div 2^bits

\* The digit of a time at a level.
Digit(e, i) == (e \div 2^(NearShift + i * LevelShift)) % Level

LevelOf(e, c) ==
  CHOOSE i \in 0 .. 3 :
    /\ i = 3 \/ SameBlock(e, c, NearShift + (i + 1) * LevelShift)
    /\ \A j \in 0 .. i - 1 : ~SameBlock(e, c, NearShift + (j + 1) * LevelShift)

Link(n) ==
  LET e == expire[n]
      i == LevelOf(e, time)
  IN  IF SameBlock(e, time, NearShift)
        THEN /\ near' = [near EXCEPT ![e % Near] = Append(@, n)]
             /\ UNCHANGED t
        ELSE /\ t' = [t EXCEPT ![i][Digit(e, i)] = Append(@, n)]
             /\ UNCHANGED near

\* Mutant of AddNode: the lock is not given back.
AddNodeKeepsLock(n) == /\ n \in adding
                       /\ ~lock
                       /\ lock' = TRUE
                       /\ Link(n)
                       /\ adding' = adding \ {n}
                       /\ UNCHANGED <<time, updating, batch, expire, ghosts, aborted>>

AddNode(n) == /\ n \in adding
              /\ ~lock
              /\ Link(n)
              /\ adding' = adding \ {n}
              /\ late' = IF left[n] < 0 THEN late \union {n} ELSE late
              /\ UNCHANGED <<time, lock, updating, batch, expire, left, aborted>>

(***************************************************************************)
(* Timeout: the expiry is computed from time_, read without the lock, and  *)
(* AddNode follows.  (A time that is not positive is answered at once,     *)
(* with no trace in the timer.)                                            *)
(***************************************************************************)
\* Mutant of Timeout: the sum is wider than time_.
TimeoutWide(n, d) == /\ n \notin Pending
                     /\ adding' = adding \union {n}
                     /\ expire' = [expire EXCEPT ![n] = time + d]
                     /\ left' = [left EXCEPT ![n] = d]
                     /\ UNCHANGED <<wheel, time, lock, updating, batch, late, aborted>>

Timeout(n, d) == /\ n \notin Pending
                 /\ adding' = adding \union {n}
                 /\ expire' = [expire EXCEPT ![n] = (time + d) % 2^Width]
                 /\ left' = [left EXCEPT ![n] = d]
                 /\ UNCHANGED <<wheel, time, lock, updating, batch, late, aborted>>

-------------------------------------------------------------------------------
(***************************************************************************)
(* The timer thread.  Updatetime calls Update once per tick of the clock.  *)
(***************************************************************************)
\* Mutant of Updatetime: the loop starts at 1.
UpdatetimeShort(d) == /\ pc = "idle" /\ todo = 0
                      /\ current' = (current + d) % 2^Width
                      /\ todo' = d - 1
                      /\ UNCHANGED <<wheel, time, lock, pc, pass, batch, adding, expire, ghosts, aborted>>

Updatetime(d) == /\ pc = "idle" /\ todo = 0
                 /\ current' = (current + d) % 2^Width
                 /\ todo' = d
                 /\ UNCHANGED <<wheel, time, lock, pc, pass, batch, adding, expire, ghosts, aborted>>

Update == /\ pc = "idle" /\ todo > 0
          /\ ~lock
          /\ \A n \in adding : left[n] > -MaxLag
          /\ lock' = TRUE
          /\ pc' = "execute"
          /\ pass' = 1
          /\ UNCHANGED <<wheel, time, current, todo, batch, adding, expire, ghosts, aborted>>

\* Mutant of Execute: the list is not cleared.
ExecuteNoClear == /\ pc = "execute"
                  /\ near[time % Near] # <<>>
                  /\ batch' = near[time % Near]
                  /\ lock' = FALSE
                  /\ pc' = "dispatch"
                  /\ UNCHANGED <<wheel, time, current, todo, pass, adding, expire, ghosts, aborted>>

\* Execute finds a list and gives the lock up to dispatch it.
Execute == LET k == time % Near
           IN  /\ pc = "execute"
               /\ near[k] # <<>>
               /\ batch' = near[k]
               /\ near' = [near EXCEPT ![k] = <<>>]
               /\ lock' = FALSE
               /\ pc' = "dispatch"
               /\ UNCHANGED <<t, time, current, todo, pass, adding, expire, ghosts, aborted>>

\* One turn of DispatchList; deleting a node that is not on the heap may stop the process.
DispatchList == /\ pc = "dispatch"
                /\ batch # <<>>
                /\ batch' = Tail(batch)
                /\ expire' = [expire EXCEPT ![Head(batch)] = 0]
                /\ left' = [left EXCEPT ![Head(batch)] = 0]
                /\ late' = late \ {Head(batch)}
                /\ aborted' \in BOOLEAN
                /\ UNCHANGED <<wheel, time, lock, updating, adding>>

Relock == /\ pc = "dispatch"
          /\ batch = <<>>
          /\ ~lock
          /\ lock' = TRUE
          /\ pc' = "execute"
          /\ UNCHANGED <<wheel, time, current, todo, pass, batch, adding, expire, ghosts, aborted>>

(***************************************************************************)
(* TimerShift: the time moves on; at the border of a block the list of the *)
(* first level whose digit is not zero is moved down.                      *)
(***************************************************************************)
\* Mutant of Moved: the wrap to 0 is like any other time.
MovedNoWrap(ct) ==
  IF ct % Near # 0 THEN {}
  ELSE {<<i, Digit(ct, i)>> : i \in {l \in 0 .. 3 : /\ Digit(ct, l) # 0
                                                    /\ \A j \in 0 .. l - 1 : Digit(ct, j) = 0}}

Moved(ct) ==
  IF ct = 0 THEN {<<3, 0>>}
  ELSE IF ct % Near # 0 THEN {}
  ELSE {<<i, Digit(ct, i)>> : i \in {l \in 0 .. 3 : /\ Digit(ct, l) # 0
                                                    /\ \A j \in 0 .. l - 1 : Digit(ct, j) = 0}}

(***************************************************************************)
(* MoveList clears the list and hands every node to AddNode, which asks    *)
(* for the lock that Update holds: the thread spins for ever.              *)
(***************************************************************************)
\* Mutant of TimerShift: Update does not call Execute before it.
TimerShiftFirst ==
  LET ct == (time + 1) % 2^Width
  IN  /\ pc = "execute" /\ pass = 1
      /\ \A s \in Moved(ct) : t[s[1]][s[2]] = <<>>
      /\ time' = ct
      /\ left' = [n \in Node |-> IF n \in Pending /\ left[n] > -MaxLag THEN left[n] - 1 ELSE left[n]]
      /\ pass' = 2
      /\ UNCHANGED <<wheel, batch, pc, lock, current, todo, adding, expire, late, aborted>>

TimerShift ==
  LET ct == (time + 1) % 2^Width
      full == {s \in Moved(ct) : t[s[1]][s[2]] # <<>>}
  IN  /\ pc = "execute" /\ pass = 1
      /\ near[time % Near] = <<>>
      /\ time' = ct
      /\ left' = [n \in Node |-> IF n \in Pending /\ left[n] > -MaxLag THEN left[n] - 1 ELSE left[n]]
      /\ pass' = 2
      /\ \/ /\ full = {}
            /\ UNCHANGED <<t, batch, pc>>
         \/ \E s \in full : /\ batch' = t[s[1]][s[2]]
                            /\ t' = [t EXCEPT ![s[1]][s[2]] = <<>>]
                            /\ pc' = "spin"
      /\ UNCHANGED <<near, lock, current, todo, adding, expire, late, aborted>>

UpdateReturns == /\ pc = "execute" /\ pass = 2
                 /\ near[time % Near] = <<>>
                 /\ lock' = FALSE
                 /\ todo' = todo - 1
                 /\ pc' = "idle"
                 /\ UNCHANGED <<wheel, time, current, pass, batch, adding, expire, ghosts, aborted>>

-------------------------------------------------------------------------------
TimerStep == /\ ~aborted
             /\ \/ \E d \in 1 .. MaxDiff : Updatetime(d)
                \/ Update \/ Execute \/ DispatchList \/ Relock \/ TimerShift \/ UpdateReturns

CallerStep(n) == /\ ~aborted
                 /\ AddNode(n) \/ \E d \in 1 .. MaxDelay : Timeout(n, d)

Next == TimerStep \/ \E n \in Node : CallerStep(n)

Spec == Init /\ [][Next]_vars

(***************************************************************************)
(* The timer thread runs and the clock goes on; a thread that waits for    *)
(* the spinlock gets it if it keeps becoming free.                         *)
(***************************************************************************)
FairSpec == /\ Spec
            /\ WF_vars(TimerStep)
            /\ SF_vars(~aborted /\ (Update \/ Relock))
            /\ \A n \in Node : SF_vars(~aborted /\ AddNode(n))

-------------------------------------------------------------------------------
(***************************************************************************)
(* The type invariant.                                                     *)
(***************************************************************************)
TypeOK == /\ near \in [0 .. Near - 1 -> Seq(Node)]
          /\ t \in [0 .. 3 -> [0 .. Level - 1 -> Seq(Node)]]
          /\ time \in 0 .. 2^Width - 1
          /\ current \in 0 .. 2^Width - 1
          /\ lock \in BOOLEAN
          /\ todo \in 0 .. MaxDiff
          /\ pc \in {"idle", "execute", "dispatch", "spin"}
          /\ pass \in {1, 2}
          /\ batch \in Seq(Node)
          /\ adding \subseteq Node
          /\ expire \in [Node -> 0 .. 2^Width - 1]
          /\ left \in [Node -> -MaxLag .. MaxDelay]
          /\ late \subseteq Node
          /\ aborted \in BOOLEAN

\* Whether the thread that moves the nodes is stuck with them.
Stuck == pc = "spin"

(***************************************************************************)
(* Every node that was filed in time is in the list in which AddNode would *)
(* put it now: no border of a block is passed without the list behind it   *)
(* having been moved, at no level and at no wrap of the 32 bits, and no    *)
(* node is passed over.                                                    *)
(***************************************************************************)
InPlace(n) == LET e == expire[n]
                  i == LevelOf(e, time)
              IN  IF SameBlock(e, time, NearShift)
                    THEN n \in NodesOf(near[e % Near])
                    ELSE n \in NodesOf(t[i][Digit(e, i)])

Placed == \A n \in Filed \ late : /\ InPlace(n)
                                  /\ left[n] >= 0
                                  /\ expire[n] = (time + left[n]) % 2^Width

(***************************************************************************)
(* A node that was filed in time is dispatched in the very tick in which   *)
(* it is due, not a tick or a turn of the wheel earlier or later, although *)
(* the lock is given up during the dispatch and others file nodes then.    *)
(***************************************************************************)
FiresOnTime ==
  pc = "dispatch" => \A k \in DOMAIN batch : batch[k] \in late \/ left[batch[k]] = 0

(***************************************************************************)
(* The lists of the wheel by their places: <<i, k>> is t_[i][k] and        *)
(* <<4, k>> is near_[k].                                                   *)
(***************************************************************************)
Slots == ({4} \X (0 .. Near - 1)) \union ((0 .. 3) \X (0 .. Level - 1))
At(s) == IF s[1] = 4 THEN near[s[2]] ELSE t[s[1]][s[2]]

(***************************************************************************)
(* A node is linked once: no two places of the wheel have it, no list has  *)
(* it twice, and none has it while it is dispatched or before AddNode.  So *)
(* one message is pushed for a call of Timeout.                            *)
(***************************************************************************)
Copies(n, list) == Cardinality({k \in DOMAIN list : list[k] = n})
LinkedOnce ==
  \A n \in Node, s \in Slots :
    /\ Copies(n, At(s)) + Copies(n, batch) + (IF n \in adding THEN 1 ELSE 0) <= 1
    /\ \A r \in Slots : n \in NodesOf(At(s)) /\ n \in NodesOf(At(r)) => s = r

(***************************************************************************)
(* Now() and the time of the wheel agree whenever Updatetime is not        *)
(* running, and differ by the calls of Update that are due while it is.    *)
(***************************************************************************)
NowIsTime == current = (time + todo - (IF pass = 2 /\ pc # "idle" THEN 1 ELSE 0)) % 2^Width

(***************************************************************************)
(* Every call of Timeout that is filed in time is answered, unless the     *)
(* process stops or MoveList meets a node: then the timer thread spins on  *)
(* its own lock.  (A node filed after it was due may be lost: its list can *)
(* be one with index 0, which TimerShift moves at the last level only.)    *)
(***************************************************************************)
Fires == \A n \in Node : n \in Pending ~> n \notin Pending \/ n \in late \/ Stuck \/ aborted

===============================================================================
