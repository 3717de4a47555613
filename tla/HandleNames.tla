----------------------------- MODULE HandleNames -----------------------------
(***************************************************************************)
(* The name table of skynet-src/handle.cpp: HandleFindname,                *)
(* HandleNamehandle and the part of HandleRetire that removes the names of *)
(* a handle, executed by concurrent threads under the lock of the storage. *)
(*                                                                         *)
(* One action is one iteration of a loop, so that a search of one thread   *)
(* interleaves with the calls of the others.  Names are positive integers, *)
(* ordered as std::string orders them; 0 is the empty string.              *)
(*                                                                         *)
(* The lock is the one RWLock models, at the level of RWLockSpec: calls of *)
(* its write side do not overlap (the proviso under which RWLockProofs     *)
(* proves exclusion).  Its write flag is kept because HandleNamehandle may *)
(* return without clearing it; a thread that then calls rwlock_wlock gets  *)
(* in all the same (its second compare and exchange is from 1 to 1), while *)
(* rwlock_rlock spins until somebody clears the flag.                      *)
(***************************************************************************)
EXTENDS Integers

CONSTANTS Thread,
          Name,           \* the names callers use
          Handle,         \* the handles callers use
          InitialCap,     \* the size HandleInit gives the table
          MaxSlotSize     \* kMaxSlotSize

ASSUME NameAssumption == /\ Name \subseteq Nat \ {0}
                         /\ Handle \subseteq Nat \ {0}
ASSUME CapAssumption == InitialCap \in Nat \ {0} /\ MaxSlotSize \in Nat

VARIABLES name,           \* kHandleStorage->name, its entries in use
          cap,            \* name.size()
          name_count,
          write,          \* lock.write
          pc,             \* where each thread is, see below
          key,            \* parameter name of the thread's call
          hdl,            \* parameter handle of the thread's call
          begin, end,     \* the search's variables; i and j in HandleRetire
          answer,         \* what the last step returned to a caller, if it did
          aborted         \* an assertion has failed

table == <<name, cap, name_count>>
locals == <<key, hdl, begin, end>>
vars == <<name, cap, name_count, write, pc, key, hdl, begin, end, answer, aborted>>

(***************************************************************************)
(* "idle"; "rlock" spins in rwlock_rlock; "find" in the loop of            *)
(* HandleFindname, holding the lock for reading; "bind" in the loop of     *)
(* HandleNamehandle and "compact" in the loop of HandleRetire, holding it  *)
(* for writing.                                                            *)
(***************************************************************************)
PC == {"idle", "rlock", "find", "bind", "compact"}

None == 0

Entry == [name : Name \cup {0}, handle : Handle \cup {0}]

Goto(t, l) == pc' = [pc EXCEPT ![t] = l]

NoAnswer == <<>>

Quiet == answer' = NoAnswer

(***************************************************************************)
(* A call that ends: its locals are gone.                                  *)
(***************************************************************************)
Return(t) == /\ Goto(t, "idle")
             /\ key' = [key EXCEPT ![t] = 0]
             /\ hdl' = [hdl EXCEPT ![t] = 0]
             /\ begin' = [begin EXCEPT ![t] = 0]
             /\ end' = [end EXCEPT ![t] = 0]

Answer(t, op, v) == Return(t) /\ answer' = <<op, key[t], v>>

Init == /\ name = [i \in 0 .. -1 |-> 0]
        /\ cap = InitialCap
        /\ name_count = 0
        /\ write = 0
        /\ pc = [t \in Thread |-> "idle"]
        /\ key = [t \in Thread |-> 0]
        /\ hdl = [t \in Thread |-> 0]
        /\ begin = [t \in Thread |-> 0]
        /\ end = [t \in Thread |-> 0]
        /\ answer = NoAnswer
        /\ aborted = FALSE

-------------------------------------------------------------------------------
(***************************************************************************)
(* rwlock_wlock returns: nobody is inside.  A write flag that was left at  *)
(* 1 does not stop it.                                                     *)
(***************************************************************************)
NobodyInside == \A t \in Thread : pc[t] \notin {"find", "bind", "compact"}

WlockReturns == NobodyInside /\ write' = 1

-------------------------------------------------------------------------------
(***************************************************************************)
(* The binary search HandleFindname and HandleNamehandle share.            *)
(***************************************************************************)
Mid(t) == (begin[t] + end[t]) \div 2

StartSearch(t, n) == /\ key' = [key EXCEPT ![t] = n]
                     /\ begin' = [begin EXCEPT ![t] = 0]
                     /\ end' = [end EXCEPT ![t] = name_count - 1]

\* Mutant: the last candidate is not looked at.
SearchingShort(t) == begin[t] < end[t]

Searching(t) == begin[t] <= end[t]

Hit(t) == Searching(t) /\ name[Mid(t)].name = key[t]

\* Mutant: the half that is kept includes its middle.
HalveKeepsMid(t) ==
  /\ Searching(t)
  /\ \/ /\ name[Mid(t)].name < key[t]
        /\ begin' = [begin EXCEPT ![t] = Mid(t)]
        /\ UNCHANGED end
     \/ /\ name[Mid(t)].name > key[t]
        /\ end' = [end EXCEPT ![t] = Mid(t)]
        /\ UNCHANGED begin
  /\ Quiet
  /\ UNCHANGED <<name, cap, name_count, write, pc, key, hdl, aborted>>

Halve(t) ==
  /\ Searching(t)
  /\ \/ /\ name[Mid(t)].name < key[t]
        /\ begin' = [begin EXCEPT ![t] = Mid(t) + 1]
        /\ UNCHANGED end
     \/ /\ name[Mid(t)].name > key[t]
        /\ end' = [end EXCEPT ![t] = Mid(t) - 1]
        /\ UNCHANGED begin
  /\ Quiet
  /\ UNCHANGED <<name, cap, name_count, write, pc, key, hdl, aborted>>

-------------------------------------------------------------------------------
\* HandleFindname(name)

CallFindname(t) == /\ pc[t] = "idle"
                   /\ Goto(t, "rlock")
                   /\ Quiet
                   /\ UNCHANGED <<table, write, locals, aborted>>

FindnameLocked(t) == /\ pc[t] = "rlock"
                     /\ write = 0
                     /\ \E n \in Name : StartSearch(t, n)
                     /\ Goto(t, "find")
                     /\ Quiet
                     /\ UNCHANGED <<table, write, hdl, aborted>>

FindnameLoop(t) == pc[t] = "find" /\ Halve(t)

FindnameReturn(t) == /\ pc[t] = "find"
                     /\ \/ Hit(t) /\ Answer(t, "find", name[Mid(t)].handle)
                        \/ ~Searching(t) /\ Answer(t, "find", None)
                     /\ UNCHANGED <<table, write, aborted>>

-------------------------------------------------------------------------------
\* HandleNamehandle(handle, name)

CallNamehandle(t) == /\ pc[t] = "idle"
                     /\ WlockReturns
                     /\ \E n \in Name : StartSearch(t, n)
                     /\ \E h \in Handle : hdl' = [hdl EXCEPT ![t] = h]
                     /\ Goto(t, "bind")
                     /\ Quiet
                     /\ UNCHANGED <<table, aborted>>

NamehandleLoop(t) == pc[t] = "bind" /\ Halve(t)

(***************************************************************************)
(* Line 160: a name that is taken; the return skips rwlock_wunlock.        *)
(***************************************************************************)
NamehandleTaken(t) == /\ pc[t] = "bind"
                      /\ Hit(t)
                      /\ Answer(t, "bind", 0)
                      /\ UNCHANGED <<table, write, aborted>>

\* Mutant: the table grows one insertion too late.
FullLate == name_count > cap

Full == name_count >= cap

NewCap == IF Full THEN cap * 2 ELSE cap

Inserted(t) ==
  [i \in 0 .. name_count |->
     IF i = begin[t] THEN [name |-> key[t], handle |-> hdl[t]]
     ELSE IF i < begin[t] THEN name[i] ELSE name[i - 1]]

NamehandleInsert(t) == /\ pc[t] = "bind"
                       /\ ~Searching(t)
                       /\ Full => cap * 2 <= MaxSlotSize
                       /\ name' = Inserted(t)
                       /\ cap' = NewCap
                       /\ name_count' = name_count + 1
                       /\ write' = 0
                       /\ Answer(t, "bind", key[t])
                       /\ UNCHANGED aborted

\* Line 169: the table may not grow any more.
NamehandleAssert(t) == /\ pc[t] = "bind"
                       /\ ~Searching(t)
                       /\ Full /\ cap * 2 > MaxSlotSize
                       /\ aborted' = TRUE
                       /\ Quiet
                       /\ UNCHANGED <<table, write, pc, locals>>

-------------------------------------------------------------------------------
(***************************************************************************)
(* HandleRetire(handle) of a handle that is in its slot.                   *)
(***************************************************************************)
CallRetire(t) == /\ pc[t] = "idle"
                 /\ WlockReturns
                 /\ \E h \in Handle : hdl' = [hdl EXCEPT ![t] = h]
                 /\ begin' = [begin EXCEPT ![t] = 0]
                 /\ end' = [end EXCEPT ![t] = 0]
                 /\ Goto(t, "compact")
                 /\ Quiet
                 /\ UNCHANGED <<table, key, aborted>>

\* Mutant: the entry after a removed one is not moved down.
RetireLoopInPlace(t) ==
  /\ pc[t] = "compact"
  /\ begin[t] < name_count
  /\ begin' = [begin EXCEPT ![t] = @ + 1]
  /\ \/ /\ name[begin[t]].handle = hdl[t]
        /\ name' = [name EXCEPT ![begin[t]].name = 0]
        /\ UNCHANGED end
     \/ /\ name[begin[t]].handle # hdl[t]
        /\ end' = [end EXCEPT ![t] = @ + 1]
        /\ UNCHANGED name
  /\ Quiet
  /\ UNCHANGED <<cap, name_count, write, pc, key, hdl, aborted>>

RetireLoop(t) ==
  /\ pc[t] = "compact"
  /\ begin[t] < name_count
  /\ begin' = [begin EXCEPT ![t] = @ + 1]
  /\ \/ /\ name[begin[t]].handle = hdl[t]
        /\ name' = [name EXCEPT ![begin[t]].name = 0]
        /\ UNCHANGED end
     \/ /\ name[begin[t]].handle # hdl[t]
        /\ name' = [name EXCEPT ![end[t]] = name[begin[t]]]
        /\ end' = [end EXCEPT ![t] = @ + 1]
  /\ Quiet
  /\ UNCHANGED <<cap, name_count, write, pc, key, hdl, aborted>>

RetireReturn(t) == /\ pc[t] = "compact"
                   /\ begin[t] >= name_count
                   /\ name_count' = end[t]
                   /\ name' = [i \in 0 .. end[t] - 1 |-> name[i]]
                   /\ write' = 0
                   /\ Return(t)
                   /\ Quiet
                   /\ UNCHANGED <<cap, aborted>>

(***************************************************************************)
(* HandleRegister, and HandleRetire of a handle that is not in its slot:   *)
(* the write lock is taken and cleared, the names stay.                    *)
(***************************************************************************)
OtherWriter(t) == /\ pc[t] = "idle"
                  /\ NobodyInside
                  /\ write' = 0
                  /\ Quiet
                  /\ UNCHANGED <<table, pc, locals, aborted>>

-------------------------------------------------------------------------------
Call(t) == CallFindname(t) \/ CallNamehandle(t) \/ CallRetire(t) \/ OtherWriter(t)

Progress(t) == \/ FindnameLocked(t) \/ FindnameLoop(t) \/ FindnameReturn(t)
               \/ NamehandleLoop(t) \/ NamehandleTaken(t)
               \/ NamehandleInsert(t) \/ NamehandleAssert(t)
               \/ RetireLoop(t) \/ RetireReturn(t)

Next == ~aborted /\ \E t \in Thread : Call(t) \/ Progress(t)

Spec == Init /\ [][Next]_vars

(***************************************************************************)
(* The operating system runs every thread; calling is a thread's choice.   *)
(***************************************************************************)
FairSpec == Spec /\ \A t \in Thread : WF_vars(~aborted /\ Progress(t))

-------------------------------------------------------------------------------
(***************************************************************************)
(* The type invariant: in particular the entries in use never outgrow the  *)
(* vector, whose size HandleNamehandle only changes when it looks full.    *)
(***************************************************************************)
TypeOK == /\ cap \in Nat \ {0}
          /\ name_count \in 0 .. cap
          /\ name \in [0 .. name_count - 1 -> Entry]
          /\ write \in {0, 1}
          /\ pc \in [Thread -> PC]
          /\ key \in [Thread -> Name \cup {0}]
          /\ hdl \in [Thread -> Handle \cup {0}]
          /\ begin \in [Thread -> 0 .. cap]
          /\ end \in [Thread -> -1 .. cap]
          /\ \/ answer = NoAnswer
             \/ answer \in {"find", "bind"} \X Name \X (Handle \cup Name \cup {0})
          /\ aborted \in BOOLEAN

(***************************************************************************)
(* The entries that count: all of them, or, while HandleRetire moves them, *)
(* those it has kept and those it has not looked at.                       *)
(***************************************************************************)
Compacting == {t \in Thread : pc[t] = "compact"}

Used == {i \in 0 .. name_count - 1 :
           \A t \in Compacting : /\ i < end[t] \/ i >= begin[t]
                                 /\ name[i].handle # hdl[t]}

(***************************************************************************)
(* handle.h:45: the table is sorted by name, strictly, after and during    *)
(* every call, the moves of HandleRetire included: no name is there twice. *)
(***************************************************************************)
Sorted == \A i, j \in Used : i < j => name[i].name < name[j].name

(***************************************************************************)
(* A binary search that started ends: no choice of begin and end makes it  *)
(* run for ever, and every HandleRetire reaches the end of the table.      *)
(***************************************************************************)
LoopsEnd == \A t \in Thread :
              pc[t] \in {"find", "bind", "compact"} ~> (pc[t] = "idle" \/ aborted)

(***************************************************************************)
(* A call of HandleFindname returns.                                       *)
(***************************************************************************)
FindnameAnswers == \A t \in Thread : pc[t] = "rlock" ~> (pc[t] = "idle" \/ aborted)

(***************************************************************************)
(* The table with its searches and its moves is a directory: a search      *)
(* answers what the directory holds, although threads bind, retire and     *)
(* search at the same time.                                                *)
(***************************************************************************)
HandleOf(n) == LET at == {i \in Used : name[i].name = n}
               IN  IF at = {} THEN None ELSE name[CHOOSE i \in at : TRUE].handle

Directory == INSTANCE NameDirectory WITH dir <- [n \in Name |-> HandleOf(n)]

ImplementsDirectory == Directory!Spec
===============================================================================
