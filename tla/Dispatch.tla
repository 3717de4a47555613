------------------------------- MODULE Dispatch -------------------------------
(***************************************************************************)
(* The two levels of message queues (skynet-src/mq.cpp) and the code of    *)
(* skynet-src/service.cpp and handle.cpp that moves queues and messages:   *)
(* NewContext, ContextPush, MessageDispatch, HandleGrab, HandleRetire, and *)
(* the counting of references to a context that decides when its queue is  *)
(* marked for release.                                                     *)
(*                                                                         *)
(* A service is named by its queue.  A section under a queue's spinlock,   *)
(* the global one or the lock of the handle table is one step; between two *)
(* of them threads interleave.  The global list is the code's linked list: *)
(* head_, tail_ and next_.                                                 *)
(*                                                                         *)
(* Two things in this code have no defined result.  MessageQueue::Pop      *)
(* returns an uninitialised pointer when the queue is empty: the model     *)
(* takes it from EmptyPop, by caller.  NewContext and ContextPush delete   *)
(* contexts that are still in use: in the model a deleted context goes on  *)
(* answering with what it held and a second delete goes unnoticed.  (An    *)
(* allocator that stops the process there only cuts a behaviour short.)    *)
(***************************************************************************)
EXTENDS Integers, Sequences, FiniteSets

CONSTANTS Queue,          \* the services, named by their queues
          Worker,         \* the worker threads
          Sender,         \* other threads that send and retire: main, timer, socket
          None,           \* the null pointer, and the sender 0
          Source,         \* the handle each sender puts into its messages
          Weight,         \* the weight of each worker
          Callback,       \* the services whose module sets a callback
          EmptyPop,       \* what Pop may return of an empty queue, by caller
          MqOverload,     \* kMqOverload
          MaxLen          \* bound: the messages a queue receives

ASSUME DispatchAssumption ==
  /\ None \notin Queue
  /\ Worker \intersect Queue = {}
  /\ IsFiniteSet(Queue) /\ IsFiniteSet(Worker) /\ IsFiniteSet(Sender)
  /\ Source \in [Sender -> Queue \union {None}]
  /\ Weight \in [Worker -> Int]
  /\ Callback \subseteq Queue
  /\ EmptyPop \in [{"dispatch", "release"} -> SUBSET {"null", "message"}]
  /\ MqOverload \in Nat \ {0}
  /\ MaxLen \in [Queue -> Nat]

VARIABLES msgs,           \* message_queue_: the senders of the messages in it
          release, in_global, overload, threshold,    \* the queue's other fields
          next, head, tail,    \* kGlobalQueue
          ref,            \* ref_ of the service's context
          live,           \* the services whose handle resolves
          freed,          \* the services whose context has been deleted
          stage,          \* how far the service's NewContext is
          drain, dest,    \* of each thread that may be in MessageQueue::Release
          gone,           \* the queues that are deleted
          pc, cur, ctx, temp, i, n,    \* of each worker: MessageDispatch's variables
          doing, target,  \* of each sender: ContextPush's and HandleRetire's
          aborted,        \* why the process has stopped: a failed assertion, a fault
          nulled          \* auxiliary: Pop has returned null to MessageDispatch

queue == <<msgs, release, in_global, overload, threshold>>
list == <<head, tail, next>>
context == <<ref, live, freed>>
drainer == <<drain, dest, gone>>

worker == <<pc, cur, ctx, temp, i, n>>
sender == <<doing, target>>
vars == <<queue, list, context, stage, drainer, worker, sender, aborted, nulled>>

(***************************************************************************)
(* The stages of NewContext:                                               *)
(*   "none"   not called                                                   *)
(*   "init"   the context is registered, the module's init function runs   *)
(*   "push"   init succeeded, the creator's reference is given back and    *)
(*            the queue is not yet in the global list                      *)
(*   "fail"   init failed, the creator's reference is given back           *)
(*   "fail2"  ... and HandleRetire has cleared the slot                    *)
(*   "fail3"  ... and has given the slot's reference back                  *)
(*   "done"   returned                                                     *)
(***************************************************************************)
Stage == {"none", "init", "push", "fail", "fail2", "fail3", "done"}

Init == /\ msgs = [q \in Queue |-> <<>>]
        /\ release = [q \in Queue |-> FALSE]
        /\ in_global = [q \in Queue |-> 1]
        /\ overload = [q \in Queue |-> 0]
        /\ threshold = [q \in Queue |-> MqOverload]
        /\ next = [q \in Queue |-> None]
        /\ head = None
        /\ tail = None
        /\ ref = [q \in Queue |-> 0]
        /\ live = {}
        /\ freed = {}
        /\ stage = [q \in Queue |-> "none"]
        /\ drain = [t \in Worker \union Queue |-> "no"]
        /\ dest = [t \in Worker \union Queue |-> None]
        /\ gone = {}
        /\ pc = [w \in Worker |-> "start"]
        /\ cur = [w \in Worker |-> None]
        /\ ctx = [w \in Worker |-> None]
        /\ temp = [w \in Worker |-> None]
        /\ i = [w \in Worker |-> 0]
        /\ n = [w \in Worker |-> 0]
        /\ doing = [s \in Sender |-> "idle"]
        /\ target = [s \in Sender |-> None]
        /\ aborted = "no"
        /\ nulled = FALSE

\* What assert(p) makes of aborted.
Asserted(p) == IF p THEN "no" ELSE "assert"

-------------------------------------------------------------------------------
(***************************************************************************)
(* GlobalQueue::Push and Pop.  The queue Pop returns is head, None if the  *)
(* list is empty.                                                          *)
(***************************************************************************)
\* Mutant of GlobalPush: the queue is put in front of the list.
GlobalPushInFront(q) == /\ next[q] = None
                        /\ next' = [next EXCEPT ![q] = head]
                        /\ head' = q
                        /\ tail' = IF tail = None THEN q ELSE tail
                        /\ UNCHANGED aborted

GlobalPush(q) ==
  \/ /\ next[q] # None
     /\ aborted' = "assert"
     /\ UNCHANGED list
  \/ /\ next[q] = None
     /\ \/ /\ tail # None
           /\ next' = [next EXCEPT ![tail] = q]
           /\ UNCHANGED head
        \/ /\ tail = None
           /\ head' = q
           /\ UNCHANGED next
     /\ tail' = q
     /\ UNCHANGED aborted

\* Mutant of GlobalPop: tail_ still points to the last queue taken.
GlobalPopKeepsTail ==
  /\ IF head = None
       THEN UNCHANGED <<head, next>>
       ELSE head' = next[head] /\ next' = [next EXCEPT ![head] = None]
  /\ UNCHANGED <<tail, aborted>>

GlobalPop ==
  \/ /\ head = None
     /\ UNCHANGED <<list, aborted>>
  \/ /\ head # None
     /\ head' = next[head]
     /\ tail' = IF next[head] = None THEN None ELSE tail
     /\ aborted' = Asserted(next[head] = None => head = tail)
     /\ next' = [next EXCEPT ![head] = None]

-------------------------------------------------------------------------------
(***************************************************************************)
(* MessageQueue::MarkRelease and Context::Release.  The last reference     *)
(* marks the queue and deletes the context.  Two callers delete the        *)
(* context after Release, whatever it returned.                            *)
(***************************************************************************)
\* Mutant of MarkRelease: an idle queue is not put into the global list.
MarkReleaseOnly(q) == /\ release' = [release EXCEPT ![q] = TRUE]
                      /\ UNCHANGED <<list, aborted>>

\* Mutant of MarkRelease: it puts the queue into the list without looking at the flag.
MarkReleaseAlwaysPush(q) == /\ release' = [release EXCEPT ![q] = TRUE]
                            /\ GlobalPush(q)

MarkRelease(q) ==
  \/ /\ release[q]
     /\ aborted' = "assert"
     /\ UNCHANGED <<release, list>>
  \/ /\ ~release[q]
     /\ release' = [release EXCEPT ![q] = TRUE]
     /\ IF in_global[q] # 1 THEN GlobalPush(q) ELSE UNCHANGED <<list, aborted>>

Unreference(q) ==
  /\ ref' = [ref EXCEPT ![q] = @ - 1]
  /\ IF ref[q] = 1 THEN MarkRelease(q) ELSE UNCHANGED <<release, list, aborted>>
  /\ UNCHANGED <<msgs, in_global, overload, threshold>>

Release(q) == /\ Unreference(q)
              /\ freed' = IF ref[q] = 1 THEN freed \union {q} ELSE freed

ReleaseAndDelete(q) == /\ Unreference(q)
                       /\ freed' = freed \union {q}

-------------------------------------------------------------------------------
(***************************************************************************)
(* MessageQueue::Push; a message is told by its sender.                    *)
(***************************************************************************)
\* Mutant of Push: the flag is not set when the queue is put into the list.
PushUnflagged(q, from) ==
  /\ Len(msgs[q]) < MaxLen[q]
  /\ msgs' = [msgs EXCEPT ![q] = Append(@, from)]
  /\ IF in_global[q] = 0 THEN GlobalPush(q) ELSE UNCHANGED <<list, aborted>>
  /\ UNCHANGED <<release, in_global, overload, threshold>>

Push(q, from) ==
  /\ Len(msgs[q]) < MaxLen[q]
  /\ msgs' = [msgs EXCEPT ![q] = Append(@, from)]
  /\ in_global' = [in_global EXCEPT ![q] = 1]
  /\ IF in_global[q] = 0 THEN GlobalPush(q) ELSE UNCHANGED <<list, aborted>>
  /\ UNCHANGED <<release, overload, threshold>>

(***************************************************************************)
(* MessageQueue::Pop: it removes nothing.  Of a queue that is not empty it *)
(* doubles the threshold until it covers the length.                       *)
(***************************************************************************)
PopFull(q) ==
  LET len == Len(msgs[q])
      covers == {k \in 0 .. len : len <= threshold[q] * 2^k}
      doublings == CHOOSE k \in covers : \A j \in covers : k <= j
  IN  /\ msgs[q] # <<>>
      /\ overload' = IF doublings = 0 THEN overload ELSE [overload EXCEPT ![q] = len]
      /\ threshold' = [threshold EXCEPT ![q] = @ * 2^doublings]
      /\ UNCHANGED <<msgs, release, in_global>>

PopEmpty(q) == /\ msgs[q] = <<>>
               /\ threshold' = [threshold EXCEPT ![q] = MqOverload]
               /\ in_global' = [in_global EXCEPT ![q] = 0]
               /\ UNCHANGED <<msgs, release, overload>>

-------------------------------------------------------------------------------
(***************************************************************************)
(* MessageQueue::Release by thread t, a worker or the creator of q: a      *)
(* queue that is marked is drained, any other goes back into the global    *)
(* list.                                                                   *)
(***************************************************************************)
\* Mutant of QueueRelease: the queue is drained whether it is marked or not.
QueueReleaseUnmarked(t, q) == /\ drain' = [drain EXCEPT ![t] = "pop"]
                              /\ UNCHANGED <<list, aborted>>

QueueRelease(t, q) ==
  \/ /\ release[q]
     /\ drain' = [drain EXCEPT ![t] = "pop"]
     /\ UNCHANGED <<list, aborted>>
  \/ /\ ~release[q]
     /\ GlobalPush(q)
     /\ UNCHANGED drain

\* The queue that t drains: a creator is told by the queue it creates.
Drained(t) == IF t \in Worker THEN cur[t] ELSE t

(***************************************************************************)
(* The drain: every message popped goes to DropMessage, which reports an   *)
(* error to the message's sender through ContextPush; null ends the drain  *)
(* and the queue is deleted.                                               *)
(***************************************************************************)
DrainDrop(t) ==
  LET source == Head(msgs[Drained(t)])
  IN  /\ drain[t] = "pop"
      /\ PopFull(Drained(t))
      /\ \/ /\ source \notin live
            /\ UNCHANGED <<drain, dest, ref>>
         \/ /\ source \in live
            /\ ref' = [ref EXCEPT ![source] = @ + 1]
            /\ dest' = [dest EXCEPT ![t] = source]
            /\ drain' = [drain EXCEPT ![t] = "push"]
      /\ UNCHANGED <<list, live, freed, stage, gone, worker, sender, aborted, nulled>>

DrainPush(t) == /\ drain[t] = "push"
                /\ Push(dest[t], Drained(t))
                /\ drain' = [drain EXCEPT ![t] = "release"]
                /\ UNCHANGED <<context, stage, dest, gone, worker, sender, nulled>>

DrainRelease(t) == /\ drain[t] = "release"
                   /\ ReleaseAndDelete(dest[t])
                   /\ drain' = [drain EXCEPT ![t] = "pop"]
                   /\ dest' = [dest EXCEPT ![t] = None]
                   /\ UNCHANGED <<live, stage, gone, worker, sender, nulled>>

\* MessageQueue::~MessageQueue asserts next_ == nullptr; a garbage message faults.
DrainEnd(t) == /\ drain[t] = "pop"
               /\ PopEmpty(Drained(t))
               /\ \/ /\ "null" \in EmptyPop["release"]
                     /\ aborted' = Asserted(next[Drained(t)] = None)
                     /\ drain' = [drain EXCEPT ![t] = "no"]
                     /\ gone' = gone \union {Drained(t)}
                  \/ /\ "message" \in EmptyPop["release"]
                     /\ aborted' = "fault"
                     /\ UNCHANGED <<drain, gone>>
               /\ UNCHANGED <<list, context, stage, dest, worker, sender, nulled>>

-------------------------------------------------------------------------------
(***************************************************************************)
(* NewContext.  The context starts with two references, the creator's and  *)
(* the slot's, and its queue with in_global_ = 1 so that nobody puts it in *)
(* the global list before init is over.                                    *)
(***************************************************************************)
Advance(q, s) == stage' = [stage EXCEPT ![q] = s]

NewContext(q) == /\ stage[q] = "none"
                 /\ Advance(q, "init")
                 /\ ref' = [ref EXCEPT ![q] = 2]
                 /\ live' = live \union {q}
                 /\ UNCHANGED <<queue, list, freed, drainer, worker, sender, aborted, nulled>>

InitSucceeds(q) == /\ stage[q] = "init"
                   /\ Advance(q, "push")
                   /\ ReleaseAndDelete(q)
                   /\ UNCHANGED <<live, drainer, worker, sender, nulled>>

InitPush(q) == /\ stage[q] = "push"
               /\ Advance(q, "done")
               /\ GlobalPush(q)
               /\ UNCHANGED <<queue, context, drainer, worker, sender, nulled>>

InitFails(q) == /\ stage[q] = "init"
                /\ Advance(q, "fail")
                /\ Release(q)
                /\ UNCHANGED <<live, drainer, worker, sender, nulled>>

\* Mutant of FailRetire: the slot's reference is given back in any case.
FailRetireTwice(q) ==
  /\ stage[q] = "fail"
  /\ Advance(q, "fail2")
  /\ live' = live \ {q}
  /\ UNCHANGED <<queue, list, ref, freed, drainer, worker, sender, aborted, nulled>>

\* HandleRetire may find that another thread has retired the handle.
FailRetire(q) == /\ stage[q] = "fail"
                 /\ Advance(q, IF q \in live THEN "fail2" ELSE "fail3")
                 /\ live' = live \ {q}
                 /\ UNCHANGED <<queue, list, ref, freed, drainer, worker, sender, aborted, nulled>>

FailRelease(q) == /\ stage[q] = "fail2"
                  /\ Advance(q, "fail3")
                  /\ Release(q)
                  /\ UNCHANGED <<live, drainer, worker, sender, nulled>>

FailQueueRelease(q) == /\ stage[q] = "fail3"
                       /\ Advance(q, "done")
                       /\ QueueRelease(q, q)
                       /\ UNCHANGED <<queue, context, dest, gone, worker, sender, nulled>>

-------------------------------------------------------------------------------
(***************************************************************************)
(* ContextPush and HandleRetire, called by a thread that is not a worker   *)
(* or by a module's init function.  Neither changes anything for a handle  *)
(* that does not resolve.                                                  *)
(***************************************************************************)
Does(s, what, q) == /\ doing' = [doing EXCEPT ![s] = what]
                    /\ target' = [target EXCEPT ![s] = q]

\* Mutant of SendGrab: HandleGrab forgets to take a reference.
SendGrabUncounted(s, q) ==
  /\ doing[s] = "idle"
  /\ q \in live
  /\ Does(s, "push", q)
  /\ UNCHANGED <<queue, list, context, stage, drainer, worker, aborted, nulled>>

SendGrab(s, q) == /\ doing[s] = "idle"
                  /\ q \in live
                  /\ ref' = [ref EXCEPT ![q] = @ + 1]
                  /\ Does(s, "push", q)
                  /\ UNCHANGED <<queue, list, live, freed, stage, drainer, worker, aborted, nulled>>

SendPush(s) == /\ doing[s] = "push"
               /\ Push(target[s], Source[s])
               /\ Does(s, "release", target[s])
               /\ UNCHANGED <<context, stage, drainer, worker, nulled>>

SendRelease(s) == /\ doing[s] = "release"
                  /\ ReleaseAndDelete(target[s])
                  /\ Does(s, "idle", None)
                  /\ UNCHANGED <<live, stage, drainer, worker, nulled>>

Retire(s, q) == /\ doing[s] = "idle"
                /\ q \in live
                /\ live' = live \ {q}
                /\ Does(s, "retire", q)
                /\ UNCHANGED <<queue, list, ref, freed, stage, drainer, worker, aborted, nulled>>

RetireRelease(s) == /\ doing[s] = "retire"
                    /\ Release(target[s])
                    /\ Does(s, "idle", None)
                    /\ UNCHANGED <<live, stage, drainer, worker, nulled>>

-------------------------------------------------------------------------------
(***************************************************************************)
(* MessageDispatch, by worker w.  cur[w] is the queue it is called with or *)
(* has taken, None once it has finished with it; ctx[w] the context it has *)
(* grabbed.                                                                *)
(***************************************************************************)
Goto(w, l) == pc' = [pc EXCEPT ![w] = l]

Start(w) == /\ pc[w] = "start"
            /\ \/ /\ cur[w] # None
                  /\ Goto(w, "grab")
                  /\ UNCHANGED <<cur, list, aborted>>
               \/ /\ cur[w] = None
                  /\ head # None
                  /\ GlobalPop
                  /\ cur' = [cur EXCEPT ![w] = head]
                  /\ Goto(w, "grab")
            /\ UNCHANGED <<queue, context, stage, drainer, ctx, temp, i, n, sender, nulled>>

Grab(w) == /\ pc[w] = "grab"
           /\ \/ /\ cur[w] \in live
                 /\ ref' = [ref EXCEPT ![cur[w]] = @ + 1]
                 /\ ctx' = [ctx EXCEPT ![w] = cur[w]]
                 /\ i' = [i EXCEPT ![w] = 0]
                 /\ n' = [n EXCEPT ![w] = 1]
                 /\ Goto(w, "pop")
              \/ /\ cur[w] \notin live
                 /\ Goto(w, "qrelease")
                 /\ UNCHANGED <<ref, ctx, i, n>>
           /\ UNCHANGED <<queue, list, live, freed, stage, drainer, cur, temp, sender, aborted, nulled>>

WorkerQueueRelease(w) == /\ pc[w] = "qrelease"
                         /\ QueueRelease(w, cur[w])
                         /\ IF release[cur[w]]
                              THEN Goto(w, "drain") /\ UNCHANGED cur
                              ELSE Goto(w, "next") /\ cur' = [cur EXCEPT ![w] = None]
                         /\ UNCHANGED <<queue, context, stage, dest, gone, ctx, temp, i, n, sender, nulled>>

QueueReleased(w) ==
  /\ pc[w] = "drain"
  /\ drain[w] = "no"
  /\ Goto(w, "next")
  /\ cur' = [cur EXCEPT ![w] = None]
  /\ UNCHANGED <<queue, list, context, stage, drainer, ctx, temp, i, n, sender, aborted, nulled>>

\* Pop returned a pointer that is not null: the worker lets the queue go.
PopMessage(w) == /\ pc[w] = "pop"
                 /\ \/ PopFull(cur[w])
                    \/ PopEmpty(cur[w]) /\ "message" \in EmptyPop["dispatch"]
                 /\ Goto(w, "release")
                 /\ cur' = [cur EXCEPT ![w] = None]
                 /\ UNCHANGED <<list, context, stage, drainer, ctx, temp, i, n, sender, aborted, nulled>>

PopNull(w) == /\ pc[w] = "pop"
              /\ PopEmpty(cur[w])
              /\ "null" \in EmptyPop["dispatch"]
              /\ nulled' = TRUE
              /\ Goto(w, "body")
              /\ UNCHANGED <<list, context, stage, drainer, cur, ctx, temp, i, n, sender, aborted>>

\* Mutant of Body: the loop's index is not incremented.
BodySameIndex(w) ==
  /\ pc[w] = "body"
  /\ aborted' = Asserted(cur[w] \notin Callback)
  /\ Goto(w, IF i[w] < n[w] THEN "pop" ELSE "after")
  /\ UNCHANGED <<queue, list, context, stage, drainer, cur, ctx, temp, i, n, sender, nulled>>

(***************************************************************************)
(* The rest of the loop's body: Length, Overload, then the callback.       *)
(* DispatchMessage asserts init_, which NewContext sets only in a context  *)
(* that its Release has deleted and whose handle no longer resolves.       *)
(***************************************************************************)
Body(w) ==
  LET q == cur[w]
      bound == IF i[w] = 0 /\ Weight[w] >= 0 THEN Len(msgs[q]) \div 2^Weight[w] ELSE n[w]
  IN  /\ pc[w] = "body"
      /\ overload' = [overload EXCEPT ![q] = 0]
      /\ n' = [n EXCEPT ![w] = bound]
      /\ aborted' = Asserted(q \notin Callback)
      /\ i' = [i EXCEPT ![w] = @ + 1]
      /\ Goto(w, IF i[w] + 1 < bound THEN "pop" ELSE "after")
      /\ UNCHANGED <<msgs, release, in_global, threshold, list, context, stage, drainer,
                     cur, ctx, temp, sender, nulled>>

After(w) == /\ pc[w] = "after"
            /\ GlobalPop
            /\ temp' = [temp EXCEPT ![w] = head]
            /\ Goto(w, IF head = None THEN "release" ELSE "swap")
            /\ UNCHANGED <<queue, context, stage, drainer, cur, ctx, i, n, sender, nulled>>

Swap(w) == /\ pc[w] = "swap"
           /\ GlobalPush(cur[w])
           /\ cur' = [cur EXCEPT ![w] = temp[w]]
           /\ temp' = [temp EXCEPT ![w] = None]
           /\ Goto(w, "release")
           /\ UNCHANGED <<queue, context, stage, drainer, ctx, i, n, sender, nulled>>

\* A worker that has let its queue go returns the next one of the list.
DispatchRelease(w) == /\ pc[w] = "release"
                      /\ Release(ctx[w])
                      /\ ctx' = [ctx EXCEPT ![w] = None]
                      /\ i' = [i EXCEPT ![w] = 0]
                      /\ n' = [n EXCEPT ![w] = 0]
                      /\ Goto(w, IF cur[w] = None THEN "next" ELSE "start")
                      /\ UNCHANGED <<live, stage, drainer, cur, temp, sender, nulled>>

NextQueue(w) == /\ pc[w] = "next"
                /\ GlobalPop
                /\ cur' = [cur EXCEPT ![w] = head]
                /\ Goto(w, "start")
                /\ UNCHANGED <<queue, context, stage, drainer, ctx, temp, i, n, sender, nulled>>

-------------------------------------------------------------------------------
DispatchStep(w) == /\ aborted = "no"
                   /\ \/ Start(w) \/ Grab(w) \/ WorkerQueueRelease(w) \/ QueueReleased(w)
                      \/ PopMessage(w) \/ PopNull(w) \/ Body(w) \/ After(w) \/ Swap(w)
                      \/ DispatchRelease(w) \/ NextQueue(w)

DrainStep(t) == /\ aborted = "no"
                /\ DrainDrop(t) \/ DrainPush(t) \/ DrainRelease(t) \/ DrainEnd(t)

CreateStep(q) == /\ aborted = "no"
                 /\ \/ NewContext(q) \/ InitSucceeds(q) \/ InitPush(q) \/ InitFails(q)
                    \/ FailRetire(q) \/ FailRelease(q) \/ FailQueueRelease(q)

SenderStep(s) == /\ aborted = "no"
                 /\ \/ \E q \in Queue : SendGrab(s, q) \/ Retire(s, q)
                    \/ SendPush(s) \/ SendRelease(s) \/ RetireRelease(s)

Next == \/ \E w \in Worker : DispatchStep(w)
        \/ \E t \in Worker \union Queue : DrainStep(t)
        \/ \E q \in Queue : CreateStep(q)
        \/ \E s \in Sender : SenderStep(s)

Spec == Init /\ [][Next]_vars

\* A thread that is running MessageDispatch is scheduled again and again.
FairSpec == Spec /\ \A w \in Worker : WF_vars(DispatchStep(w) \/ DrainStep(w))

-------------------------------------------------------------------------------
(***************************************************************************)
(* The type invariant.                                                     *)
(***************************************************************************)
TypeOK == /\ msgs \in [Queue -> Seq(Queue \union {None})]
          /\ release \in [Queue -> BOOLEAN]
          /\ in_global \in [Queue -> {0, 1}]
          /\ overload \in [Queue -> Nat]
          /\ threshold \in [Queue -> Nat \ {0}]
          /\ next \in [Queue -> Queue \union {None}]
          /\ {head, tail} \subseteq Queue \union {None}
          /\ ref \in [Queue -> Nat]
          /\ live \subseteq Queue
          /\ freed \subseteq Queue
          /\ stage \in [Queue -> Stage]
          /\ drain \in [Worker \union Queue -> {"no", "pop", "push", "release"}]
          /\ dest \in [Worker \union Queue -> Queue \union {None}]
          /\ gone \subseteq Queue
          /\ pc \in [Worker -> {"start", "grab", "qrelease", "drain", "pop", "body",
                                "after", "swap", "release", "next"}]
          /\ cur \in [Worker -> Queue \union {None}]
          /\ ctx \in [Worker -> Queue \union {None}]
          /\ temp \in [Worker -> Queue \union {None}]
          /\ i \in [Worker -> Nat]
          /\ n \in [Worker -> Nat]
          /\ doing \in [Sender -> {"idle", "push", "release", "retire"}]
          /\ target \in [Sender -> Queue \union {None}]
          /\ aborted \in {"no", "assert", "fault"}
          /\ nulled \in BOOLEAN

\* The queues from head on, along next.
Chain == LET walk[k \in 0 .. Cardinality(Queue)] ==
               IF k = 0
                 THEN IF head = None THEN <<>> ELSE <<head>>
                 ELSE LET c == walk[k - 1]
                      IN  IF c = <<>> \/ next[c[Len(c)]] = None
                            THEN c
                            ELSE Append(c, next[c[Len(c)]])
         IN  walk[Cardinality(Queue)]

(***************************************************************************)
(* Every reference that somebody still has to give back is counted, and    *)
(* nothing else is: the slot's, the creator's, one per thread that has     *)
(* grabbed the context or has unlinked it.  Context::Release acts on the   *)
(* last one, so a count too high never frees a service and one too low     *)
(* frees it under somebody's feet.                                         *)
(***************************************************************************)
RefExact ==
  \A q \in Queue :
    ref[q] = (IF q \in live THEN 1 ELSE 0)
             + (IF stage[q] \in {"init", "fail2"} THEN 1 ELSE 0)
             + Cardinality({w \in Worker : ctx[w] = q})
             + Cardinality({s \in Sender : target[s] = q})
             + Cardinality({t \in Worker \union Queue : dest[t] = q})

(***************************************************************************)
(* As long as Pop never returns null to MessageDispatch, a queue is in one *)
(* place: once in the global list, or with one worker, or with the thread  *)
(* that creates it, or being drained.  So no two workers run one service   *)
(* at the same time and nobody links a queue that is linked already.       *)
(***************************************************************************)
Places(q) == Cardinality({k \in DOMAIN Chain : Chain[k] = q})
             + Cardinality({w \in Worker : q \in {cur[w], temp[w]}})
             + (IF stage[q] \in Stage \ {"none", "done"} \/ drain[q] # "no" THEN 1 ELSE 0)

SingleOwner == nulled \/ \A q \in Queue : Places(q) <= 1

(***************************************************************************)
(* A queue that is not flagged as being in the global list holds no        *)
(* message and, if it is with nobody, is not released: the Push or         *)
(* MarkRelease that would have put it in the list cannot have been lost.   *)
(***************************************************************************)
NoLostPush == \A q \in Queue :
                in_global[q] = 0 /\ aborted = "no"
                  => /\ msgs[q] = <<>>
                     /\ ~release[q] \/ Places(q) > 0 \/ q \in gone

(***************************************************************************)
(* Nobody can still reach a queue that MessageQueue::Release has deleted:  *)
(* not through the list, a worker's variable, a grabbed context or the     *)
(* handle table.                                                           *)
(***************************************************************************)
NoUseOfDeleted ==
  nulled \/ \A q \in gone : /\ ref[q] = 0 /\ q \notin live
                            /\ \A k \in DOMAIN Chain : Chain[k] # q
                            /\ \A w \in Worker : cur[w] = q => pc[w] = "drain" /\ drain[w] = "no"
                            /\ tail # q

(***************************************************************************)
(* The linked list is well formed: tail_ is its last queue, and a queue    *)
(* outside it has no successor.                                            *)
(***************************************************************************)
ListWellFormed ==
  nulled \/ /\ tail = (IF Chain = <<>> THEN None ELSE Chain[Len(Chain)])
            /\ \A q \in Queue : next[q] # None => \E k \in DOMAIN Chain : Chain[k] = q

(***************************************************************************)
(* The linked list is a first-in first-out queue: a step leaves it, takes  *)
(* its first element away or adds a queue that is not in it at its end.    *)
(***************************************************************************)
GlobalIsFifo ==
  [][\/ nulled' \/ aborted' # "no"
     \/ Chain' = Chain
     \/ Chain # <<>> /\ Chain' = Tail(Chain)
     \/ \E q \in Queue : Chain' = Append(Chain, q)]_vars

(***************************************************************************)
(* No assertion of mq.cpp fails as long as Pop never returns null to       *)
(* MessageDispatch: no queue is linked twice, marked for release twice or  *)
(* deleted while it is linked, and the list never loses its tail.          *)
(***************************************************************************)
AssertionsHold == nulled \/ aborted # "assert"

(***************************************************************************)
(* A call of MessageDispatch returns, unless an assertion stops the        *)
(* process or it drains a queue that holds messages, which never ends:     *)
(* Pop leaves the message in the queue.                                    *)
(***************************************************************************)
DispatchReturns ==
  \A w \in Worker :
    pc[w] # "start" ~> \/ pc[w] = "start"
                       \/ aborted # "no"
                       \/ pc[w] = "drain" /\ msgs[cur[w]] # <<>>

(***************************************************************************)
(* mq.h says of in_global_: 1 means mq is in global mq, or the message is  *)
(* dispatching.                                                            *)
(***************************************************************************)
FlagMeansScheduled ==
  \A q \in Queue : in_global[q] = 1 /\ stage[q] = "done" => Places(q) >= 1

(***************************************************************************)
(* service.cpp says of Context::Release that the context is not really     *)
(* released but only when the count of references is 0.                    *)
(***************************************************************************)
FreedWhenUnreferenced == \A q \in freed : ref[q] = 0

===============================================================================
