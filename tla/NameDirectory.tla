---------------------------- MODULE NameDirectory ----------------------------
(***************************************************************************)
(* What the name table of handle.cpp promises: a directory from names to   *)
(* handles.  A name is bound at most once until its handle retires, every  *)
(* name of a retired handle goes at one stroke, and a call is answered     *)
(* from the bindings of the moment.                                        *)
(***************************************************************************)
CONSTANTS Name, Handle,
          None,       \* no handle
          NoAnswer

VARIABLES dir,        \* the handle each name is bound to, or None
          answer      \* the call that returns in this step, its name and its result

vars == <<dir, answer>>

Init == /\ dir = [n \in Name |-> None]
        /\ answer = NoAnswer

Find(n) == /\ answer' = <<"find", n, dir[n]>>
           /\ UNCHANGED dir

Bind(n, h) == /\ dir[n] = None
              /\ dir' = [dir EXCEPT ![n] = h]
              /\ answer' = <<"bind", n, n>>

Refuse(n) == /\ dir[n] # None
             /\ answer' = <<"bind", n, None>>
             /\ UNCHANGED dir

Unbind(h) == /\ dir' = [n \in Name |-> IF dir[n] = h THEN None ELSE dir[n]]
             /\ answer' = NoAnswer

Work == answer' = NoAnswer /\ UNCHANGED dir

Next == \/ \E n \in Name : Find(n) \/ Refuse(n)
        \/ \E n \in Name, h \in Handle : Bind(n, h)
        \/ \E h \in Handle : Unbind(h)
        \/ Work

Spec == Init /\ [][Next]_vars
===============================================================================
