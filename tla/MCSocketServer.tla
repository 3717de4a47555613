---------------------------- MODULE MCSocketServer ----------------------------
(***************************************************************************)
(* Instances of SocketServer for TLC.  View hides what no action reads and *)
(* no invariant but the type invariant looks at: the count of kSocketClose *)
(* (unless CloseOnce is checked), what epoll was last asked for a          *)
(* descriptor that is closed, whether an id to which nobody sends is open  *)
(* or only known, and all of a process that has aborted.                   *)
(***************************************************************************)
EXTENDS SocketServer, TLC

CONSTANTS c1, c2

MCClient == {c1, c2}

(***************************************************************************)
(* The ids 1 and 3 have one slot, 2 and 4 the other.  The first client     *)
(* listens with 1, connects or accepts 2, writes to it and closes it; the  *)
(* other one writes to 2 as well, opens its slot again with 4 and pauses   *)
(* that one, to which the first then sends with low priority.  A           *)
(* connection that is accepted takes the next id.                          *)
(***************************************************************************)
MCCalls == (c1 :> ({<<"L", 1>>, <<"R", 1>>, <<"O", 2>>, <<"P", 4>>}
                     \union ({"K", "shutdown", "R", "D"} \X {2})))
           @@ (c2 :> {<<"D", 2>>, <<"O", 4>>, <<"S", 4>>})

(***************************************************************************)
(* For CloseOnce there is one slot.  One client opens it, sends to it and  *)
(* closes it, the other one opens it again.                                *)
(***************************************************************************)
CloseCalls == (c1 :> {<<"O", 1>>, <<"P", 1>>, <<"K", 1>>, <<"shutdown", 1>>})
              @@ (c2 :> {<<"O", 2>>})

Seen(k) == IF Registered(k) THEN k ELSE [k EXCEPT !.reading = FALSE, !.writing = FALSE]

\* Only Send and SendLowpriority tell the ids that are open from those that are known.
SentTo == {id \in Id : \E c \in Client : <<"D", id>> \in Calls[c] \/ <<"P", id>> \in Calls[c]}
Known == [i \in Id |-> IF i \in SentTo \/ told[i] = "no" THEN told[i] ELSE "id"]

View == IF aborted # "no" THEN <<aborted>>
        ELSE <<alloc_id, [s \in Slot |-> Seen(slot[s])], lock, pipe, poll, Known, taken, client>>

===============================================================================
