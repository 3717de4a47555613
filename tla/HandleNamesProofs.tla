-------------------------- MODULE HandleNamesProofs --------------------------
(***************************************************************************)
(* Proofs about HandleNames for every number of threads, names and         *)
(* handles and every capacity: the table stays sorted, and the binary      *)
(* searches over it implement the directory of NameDirectory.              *)
(***************************************************************************)
EXTENDS HandleNames, TLAPS

(***************************************************************************)
(* The parts of the inductive invariant.                                   *)
(***************************************************************************)
\* The lock: who changes the table is alone inside.
OneInside ==
  \A s, t \in Thread :
    pc[t] \in {"bind", "compact"} /\ pc[s] \in {"find", "bind", "compact"} => s = t

\* And it has raised the flag that keeps readers out.
FlagUp == \A t \in Thread : pc[t] \in {"bind", "compact"} => write = 1

\* A search: all that is left of begin is smaller, all that is right of end larger.
Bracket ==
  \A t \in Thread : pc[t] \in {"find", "bind"} =>
    /\ key[t] \in Name
    /\ begin[t] <= end[t] + 1
    /\ end[t] < name_count
    /\ \A i \in 0 .. name_count - 1 : /\ i < begin[t] => name[i].name < key[t]
                                      /\ i > end[t] => name[i].name > key[t]

\* The arguments of the calls that change the table.
Argument == \A t \in Thread : pc[t] \in {"bind", "compact"} => hdl[t] \in Handle

\* HandleRetire: what is kept so far does not belong to the handle.
Kept ==
  \A t \in Thread : pc[t] = "compact" =>
    /\ 0 <= end[t] /\ end[t] <= begin[t] /\ begin[t] <= name_count
    /\ \A i \in 0 .. end[t] - 1 : name[i].handle # hdl[t]

\* An entry in use has a name and a handle.
Real == \A i \in Used : name[i].name \in Name /\ name[i].handle \in Handle

IInv == TypeOK /\ OneInside /\ FlagUp /\ Bracket /\ Argument /\ Kept /\ Real /\ Sorted

-------------------------------------------------------------------------------
LEMMA MidBetween ==
  ASSUME NEW t \in Thread, begin[t] \in Nat, end[t] \in Int, begin[t] <= end[t]
  PROVE  Mid(t) \in Nat /\ begin[t] <= Mid(t) /\ Mid(t) <= end[t]
BY DEF Mid

LEMMA NamesAreNumbers ==
  ASSUME TypeOK
  PROVE  \A i \in 0 .. name_count - 1 : name[i].name \in Nat
<1> SUFFICES ASSUME NEW i \in 0 .. name_count - 1 PROVE name[i].name \in Nat
    OBVIOUS
<1>1. name \in [0 .. name_count - 1 -> Entry] BY DEF TypeOK
<1>2. name[i] \in Entry BY <1>1
<1>3. name[i].name \in Name \cup {0} BY <1>2 DEF Entry
<1>4. \A x \in Name \cup {0} : x \in Nat BY NameAssumption
<1> QED BY <1>3, <1>4

LEMMA UsedAll ==
  ASSUME \A t \in Thread : pc[t] # "compact"
  PROVE  Used = 0 .. name_count - 1
BY DEF Used, Compacting

LEMMA UsedByOne ==
  ASSUME OneInside, NEW t \in Thread, pc[t] = "compact"
  PROVE  Used = {i \in 0 .. name_count - 1 :
                   (i < end[t] \/ i >= begin[t]) /\ name[i].handle # hdl[t]}
BY DEF Used, Compacting, OneInside

LEMMA IInvInitially == Init => IInv
<1> SUFFICES ASSUME Init PROVE IInv
    OBVIOUS
<1>1. Used = {} BY DEF Init, Used
<1>2. TypeOK
  <2>1. aborted \in BOOLEAN BY DEF Init
  <2>2. /\ cap \in Nat \ {0} /\ name_count \in 0 .. cap /\ write \in {0, 1}
        /\ name \in [0 .. name_count - 1 -> Entry]
        BY CapAssumption DEF Init
  <2>3. /\ pc \in [Thread -> PC] /\ key \in [Thread -> Name \cup {0}]
        /\ hdl \in [Thread -> Handle \cup {0}]
        BY DEF Init, PC
  <2>4. begin \in [Thread -> 0 .. cap] /\ end \in [Thread -> -1 .. cap]
        BY CapAssumption DEF Init
  <2>5. answer = NoAnswer BY DEF Init
  <2> QED BY <2>1, <2>2, <2>3, <2>4, <2>5 DEF TypeOK
<1>3. Real /\ Sorted BY <1>1 DEF Real, Sorted
<1>4. OneInside /\ FlagUp /\ Bracket /\ Argument /\ Kept
      BY DEF Init, OneInside, FlagUp, Bracket, Argument, Kept
<1> QED BY <1>2, <1>3, <1>4 DEF IInv

(***************************************************************************)
(* A step that neither changes the table nor starts, advances or ends a    *)
(* HandleRetire leaves the entries in use alone.                           *)
(***************************************************************************)
LEMMA SameTable ==
  ASSUME Real, Sorted, UNCHANGED <<name, name_count>>,
         \A s \in Thread : /\ pc'[s] = "compact" <=> pc[s] = "compact"
                           /\ pc[s] = "compact" => /\ begin'[s] = begin[s]
                                                   /\ end'[s] = end[s]
                                                   /\ hdl'[s] = hdl[s]
  PROVE  Real' /\ Sorted' /\ Used' = Used
<1>1. Used' = Used BY DEF Used, Compacting
<1> QED BY <1>1 DEF Real, Sorted

LEMMA CallFindnameStep ==
  ASSUME IInv, NEW t \in Thread, CallFindname(t)
  PROVE  IInv'
<1> USE DEF IInv, CallFindname, Goto, table, locals, Quiet
<1>1. TypeOK' BY DEF TypeOK, PC
<1>2. (OneInside /\ FlagUp /\ Bracket /\ Argument /\ Kept)'
      BY DEF TypeOK, OneInside, FlagUp, Bracket, Argument, Kept
<1>3. Real' /\ Sorted' BY SameTable DEF TypeOK
<1> QED BY <1>1, <1>2, <1>3

LEMMA OtherWriterStep ==
  ASSUME IInv, NEW t \in Thread, OtherWriter(t)
  PROVE  IInv'
<1> USE DEF IInv, OtherWriter, NobodyInside, table, locals, Quiet
<1>1. TypeOK' BY DEF TypeOK, PC
<1>2. (OneInside /\ FlagUp /\ Bracket /\ Argument /\ Kept)'
      BY DEF TypeOK, OneInside, FlagUp, Bracket, Argument, Kept
<1>3. Real' /\ Sorted' BY SameTable DEF TypeOK
<1> QED BY <1>1, <1>2, <1>3

(***************************************************************************)
(* A search starts with the whole table as its bracket.                    *)
(***************************************************************************)
LEMMA FindnameLockedStep ==
  ASSUME IInv, NEW t \in Thread, FindnameLocked(t)
  PROVE  IInv'
<1> USE DEF IInv, FindnameLocked, StartSearch, Goto, table, Quiet
<1>0. \A s \in Thread : pc[s] \notin {"bind", "compact"} BY DEF FlagUp
<1>1. TypeOK' BY DEF TypeOK, PC
<1>2. (OneInside /\ FlagUp /\ Argument /\ Kept)'
      BY <1>0 DEF TypeOK, OneInside, FlagUp, Argument, Kept
<1>3. Bracket' BY <1>0, NameAssumption DEF TypeOK, Bracket
<1>4. Real' /\ Sorted' BY <1>0, SameTable DEF TypeOK
<1> QED BY <1>1, <1>2, <1>3, <1>4

LEMMA CallNamehandleStep ==
  ASSUME IInv, NEW t \in Thread, CallNamehandle(t)
  PROVE  IInv'
<1> USE DEF IInv, CallNamehandle, WlockReturns, NobodyInside, StartSearch, Goto, table, Quiet
<1>1. TypeOK' BY DEF TypeOK, PC
<1>2. (OneInside /\ FlagUp /\ Argument /\ Kept)'
      BY DEF TypeOK, OneInside, FlagUp, Argument, Kept
<1>3. Bracket' BY NameAssumption DEF TypeOK, Bracket
<1>4. Real' /\ Sorted' BY SameTable DEF TypeOK
<1> QED BY <1>1, <1>2, <1>3, <1>4

(***************************************************************************)
(* Halving keeps the bracket because the table is sorted.                  *)
(***************************************************************************)
LEMMA HalveStep ==
  ASSUME IInv, NEW t \in Thread, pc[t] \in {"find", "bind"}, Halve(t)
  PROVE  IInv'
<1> USE DEF IInv
<1> DEFINE m == Mid(t)
<1>a. /\ begin[t] \in Nat /\ end[t] \in Int /\ begin[t] <= end[t]
      /\ end[t] < name_count /\ name_count \in Nat
      BY DEF TypeOK, Bracket, Halve, Searching
<1>b. m \in Nat /\ begin[t] <= m /\ m <= end[t] BY <1>a, MidBetween
<1>c. \A s \in Thread : pc[s] # "compact" BY DEF OneInside
<1>d. \A i, j \in 0 .. name_count - 1 : i < j => name[i].name < name[j].name
      BY <1>c, UsedAll DEF Sorted
<1>e. \A i \in 0 .. name_count - 1 : name[i].name \in Nat
      BY NamesAreNumbers
<1> HIDE DEF m
<1>1. TypeOK'
  <2>1. name_count <= cap /\ cap \in Nat BY DEF TypeOK
  <2>2. m + 1 \in 0 .. cap /\ m - 1 \in -1 .. cap BY <1>a, <1>b, <2>1
  <2>3. \/ begin' = [begin EXCEPT ![t] = m + 1] /\ end' = end
        \/ end' = [end EXCEPT ![t] = m - 1] /\ begin' = begin
        BY DEF Halve, m
  <2>4. begin' \in [Thread -> 0 .. cap] /\ end' \in [Thread -> -1 .. cap]
        BY <2>2, <2>3 DEF TypeOK
  <2> QED BY <2>4 DEF TypeOK, Halve, Quiet
<1>2. (OneInside /\ FlagUp /\ Argument)'
      BY DEF TypeOK, OneInside, FlagUp, Argument, Halve
<1>3. Kept' BY <1>c DEF Kept, Halve
<1>4. Bracket'
  <2> SUFFICES ASSUME NEW s \in Thread, pc[s] \in {"find", "bind"}
               PROVE  (/\ key[s] \in Name
                       /\ begin[s] <= end[s] + 1
                       /\ end[s] < name_count
                       /\ \A i \in 0 .. name_count - 1 :
                            /\ i < begin[s] => name[i].name < key[s]
                            /\ i > end[s] => name[i].name > key[s])'
      BY DEF Bracket, Halve
  <2>1. CASE s # t BY <2>1 DEF Bracket, Halve, TypeOK
  <2>2. CASE s = t
    <3>0. key[t] \in Name /\ key[t] \in Nat /\ key' = key /\ name' = name
          /\ name_count' = name_count
          BY NameAssumption DEF Bracket, Halve
    <3>1. CASE name[m].name < key[t] /\ begin' = [begin EXCEPT ![t] = m + 1] /\ end' = end
      <4>1. \A i \in 0 .. name_count - 1 : i < m + 1 => name[i].name < key[t]
        <5> SUFFICES ASSUME NEW i \in 0 .. name_count - 1, i < m + 1
                     PROVE  name[i].name < key[t]
            OBVIOUS
        <5>1. CASE i = m BY <5>1, <3>1
        <5>2. CASE i < m
          <6>1. m \in 0 .. name_count - 1 BY <1>a, <1>b
          <6>2. name[i].name < name[m].name BY <6>1, <5>2, <1>d
          <6> QED BY <6>1, <6>2, <3>0, <3>1, <1>e
        <5> QED BY <5>1, <5>2, <1>b
      <4>2. begin'[t] = m + 1 /\ end'[t] = end[t] BY <3>1 DEF TypeOK
      <4> QED BY <2>2, <3>0, <4>1, <4>2, <1>a, <1>b DEF Bracket
    <3>2. CASE name[m].name > key[t] /\ end' = [end EXCEPT ![t] = m - 1] /\ begin' = begin
      <4>1. \A i \in 0 .. name_count - 1 : i > m - 1 => name[i].name > key[t]
        <5> SUFFICES ASSUME NEW i \in 0 .. name_count - 1, i > m - 1
                     PROVE  name[i].name > key[t]
            OBVIOUS
        <5>1. CASE i = m BY <5>1, <3>2
        <5>2. CASE i > m
          <6>1. m \in 0 .. name_count - 1 BY <1>a, <1>b
          <6>2. name[m].name < name[i].name BY <6>1, <5>2, <1>d
          <6> QED BY <6>1, <6>2, <3>0, <3>2, <1>e
        <5> QED BY <5>1, <5>2, <1>b
      <4>2. end'[t] = m - 1 /\ begin'[t] = begin[t] BY <3>2 DEF TypeOK
      <4> QED BY <2>2, <3>0, <4>1, <4>2, <1>a, <1>b DEF Bracket
    <3> QED BY <3>1, <3>2 DEF Halve, m
  <2> QED BY <2>1, <2>2
<1>5. Real' /\ Sorted' BY <1>c, SameTable DEF Halve
<1> QED BY <1>1, <1>2, <1>3, <1>4, <1>5

(***************************************************************************)
(* The end of a call that leaves the table as it is.                       *)
(***************************************************************************)
LEMMA ReturnStep ==
  ASSUME IInv, NEW t \in Thread, pc[t] \in {"find", "bind"}, Return(t),
         UNCHANGED <<name, cap, name_count, write, aborted>>,
         \/ answer' = NoAnswer
         \/ answer' \in {"find", "bind"} \X Name \X (Handle \cup Name \cup {0})
  PROVE  IInv'
<1> USE DEF IInv, Return, Goto
<1>1. TypeOK'
  <2>1. 0 \in 0 .. cap /\ 0 \in -1 .. cap BY DEF TypeOK
  <2> QED BY <2>1 DEF TypeOK, PC
<1>2. (OneInside /\ FlagUp /\ Argument /\ Kept)'
      BY DEF TypeOK, OneInside, FlagUp, Argument, Kept
<1>3. Bracket' BY DEF TypeOK, Bracket
<1>4. Real' /\ Sorted' BY SameTable DEF TypeOK
<1> QED BY <1>1, <1>2, <1>3, <1>4

LEMMA FindnameReturnStep ==
  ASSUME IInv, NEW t \in Thread, FindnameReturn(t)
  PROVE  IInv'
<1>1. key[t] \in Name /\ pc[t] = "find" BY DEF IInv, Bracket, FindnameReturn
<1>2. Return(t) /\ UNCHANGED <<name, cap, name_count, write, aborted>>
      BY DEF FindnameReturn, Answer, table
<1>3. answer' \in {"find", "bind"} \X Name \X (Handle \cup Name \cup {0})
  <2>1. CASE Hit(t) /\ Answer(t, "find", name[Mid(t)].handle)
    <3>1. Mid(t) \in 0 .. name_count - 1
          BY <1>1, <2>1, MidBetween DEF Hit, Searching, IInv, TypeOK, Bracket
    <3>2. name[Mid(t)] \in Entry BY <3>1 DEF IInv, TypeOK
    <3>3. name[Mid(t)].handle \in Handle \cup {0} BY <3>2 DEF Entry
    <3> QED BY <1>1, <2>1, <3>3 DEF Answer
  <2>2. CASE Answer(t, "find", None) BY <1>1, <2>2 DEF Answer, None
  <2> QED BY <2>1, <2>2 DEF FindnameReturn
<1> QED BY <1>1, <1>2, <1>3, ReturnStep

LEMMA NamehandleTakenStep ==
  ASSUME IInv, NEW t \in Thread, NamehandleTaken(t)
  PROVE  IInv'
<1>1. key[t] \in Name /\ pc[t] = "bind" BY DEF IInv, Bracket, NamehandleTaken
<1>2. Return(t) /\ UNCHANGED <<name, cap, name_count, write, aborted>>
      BY DEF NamehandleTaken, Answer, table
<1>3. answer' \in {"find", "bind"} \X Name \X (Handle \cup Name \cup {0})
      BY <1>1 DEF NamehandleTaken, Answer
<1> QED BY <1>1, <1>2, <1>3, ReturnStep

LEMMA NamehandleAssertStep ==
  ASSUME IInv, NEW t \in Thread, NamehandleAssert(t)
  PROVE  IInv'
<1> USE DEF IInv, NamehandleAssert, table, locals, Quiet
<1>1. TypeOK' BY DEF TypeOK
<1>2. (OneInside /\ FlagUp /\ Bracket /\ Argument /\ Kept)'
      BY DEF TypeOK, OneInside, FlagUp, Bracket, Argument, Kept
<1>3. Real' /\ Sorted' BY SameTable DEF TypeOK
<1> QED BY <1>1, <1>2, <1>3

(***************************************************************************)
(* A search that ends without a hit leaves begin at the one place where    *)
(* the name belongs.                                                       *)
(***************************************************************************)
LEMMA NamehandleInsertStep ==
  ASSUME IInv, NEW t \in Thread, NamehandleInsert(t)
  PROVE  IInv'
<1> USE DEF IInv
<1> DEFINE b == begin[t]
           n == name_count
<1>a. pc[t] = "bind" /\ key[t] \in Name /\ hdl[t] \in Handle /\ key[t] \in Nat
      BY NameAssumption DEF NamehandleInsert, Bracket, Argument
<1>b. b \in 0 .. n /\ n \in Nat /\ cap \in Nat \ {0} /\ n <= cap
      BY <1>a DEF TypeOK, Bracket
<1>c. \A i \in 0 .. n - 1 : /\ i < b => name[i].name < key[t]
                            /\ i >= b => name[i].name > key[t]
      BY <1>a, <1>b DEF TypeOK, Bracket, NamehandleInsert, Searching
<1>d. \A s \in Thread : s # t => pc[s] \notin {"find", "bind", "compact"}
      BY <1>a DEF OneInside
<1>e. \A i, j \in 0 .. n - 1 : i < j => name[i].name < name[j].name
      BY <1>a, <1>d, UsedAll DEF Sorted
<1>f. \A i \in 0 .. n - 1 : name[i] \in Entry /\ name[i].name \in Name
                           /\ name[i].handle \in Handle
  <2>1. name \in [0 .. n - 1 -> Entry] BY DEF TypeOK
  <2> QED BY <2>1, <1>a, <1>d, UsedAll DEF Real
<1>g. \A s \in Thread : pc'[s] \notin {"find", "bind", "compact"}
      BY <1>d DEF NamehandleInsert, Answer, Return, Goto, TypeOK
<1>h. n' = n + 1 /\ name' = Inserted(t) BY DEF NamehandleInsert
<1>i. DOMAIN name' = 0 .. n BY <1>h DEF Inserted
<1>j. name'[b] = [name |-> key[t], handle |-> hdl[t]]
      BY <1>b, <1>h DEF Inserted
<1>k. \A i \in 0 .. n : i < b => name'[i] = name[i]
      BY <1>b, <1>h DEF Inserted
<1>l. \A i \in 0 .. n : i > b => name'[i] = name[i - 1]
      BY <1>b, <1>h DEF Inserted
<1>m. Used' = 0 .. n
  <2>1. Used' = 0 .. n' - 1 BY <1>g DEF Used, Compacting
  <2> QED BY <2>1, <1>h, <1>b
<1> HIDE DEF b, n
<1>1. \A i \in 0 .. n : name'[i] \in Entry /\ name'[i].name \in Name
                       /\ name'[i].handle \in Handle
  <2> SUFFICES ASSUME NEW i \in 0 .. n
               PROVE  name'[i] \in Entry /\ name'[i].name \in Name
                      /\ name'[i].handle \in Handle
      OBVIOUS
  <2>1. CASE i = b BY <2>1, <1>a, <1>j DEF Entry
  <2>2. CASE i < b
    <3>1. i \in 0 .. n - 1 BY <1>b, <2>2
    <3> QED BY <3>1, <2>2, <1>f, <1>k
  <2>3. CASE i > b
    <3>1. i - 1 \in 0 .. n - 1 BY <1>b, <2>3
    <3> QED BY <3>1, <2>3, <1>f, <1>l
  <2> QED BY <1>b, <2>1, <2>2, <2>3
<1>2. TypeOK'
  <2>1. cap' \in Nat \ {0} /\ name_count' \in 0 .. cap' /\ cap <= cap'
        BY <1>b DEF NamehandleInsert, NewCap, Full, n
  <2>2. name' \in [0 .. n' - 1 -> Entry]
    <3>1. 0 .. n' - 1 = 0 .. n BY <1>b, <1>h
    <3>2. name' = [i \in 0 .. n |-> name'[i]] BY <1>h DEF Inserted, n
    <3> QED BY <3>1, <3>2, <1>1
  <2>3. begin' \in [Thread -> 0 .. cap'] /\ end' \in [Thread -> -1 .. cap']
    <3>1. \A i \in 0 .. cap : i \in 0 .. cap' BY <2>1, <1>b
    <3>2. \A i \in -1 .. cap : i \in -1 .. cap' BY <2>1, <1>b
    <3>3. 0 \in 0 .. cap' /\ 0 \in -1 .. cap' BY <2>1
    <3> QED BY <3>1, <3>2, <3>3 DEF TypeOK, NamehandleInsert, Answer, Return
  <2>4. answer' \in {"find", "bind"} \X Name \X (Handle \cup Name \cup {0})
        BY <1>a DEF NamehandleInsert, Answer
  <2>5. /\ write' \in {0, 1} /\ pc' \in [Thread -> PC]
        /\ key' \in [Thread -> Name \cup {0}] /\ hdl' \in [Thread -> Handle \cup {0}]
        BY DEF TypeOK, NamehandleInsert, Answer, Return, Goto, PC
  <2>6. aborted' \in BOOLEAN BY DEF TypeOK, NamehandleInsert
  <2> QED BY <2>1, <2>2, <2>3, <2>4, <2>5, <2>6 DEF TypeOK, n
<1>3. (OneInside /\ FlagUp /\ Bracket /\ Argument /\ Kept)'
      BY <1>g DEF OneInside, FlagUp, Bracket, Argument, Kept
<1>4. Real' BY <1>1, <1>m DEF Real
<1>5. Sorted'
  <2> SUFFICES ASSUME NEW i \in 0 .. n, NEW j \in 0 .. n, i < j
               PROVE  name'[i].name < name'[j].name
      BY <1>m DEF Sorted
  <2>0. name'[b].name = key[t] BY <1>j
  <2>1. CASE j < b
    <3>1. i \in 0 .. n - 1 /\ j \in 0 .. n - 1 /\ i < b BY <2>1, <1>b
    <3> QED BY <3>1, <2>1, <1>e, <1>k
  <2>2. CASE j = b
    <3>1. i \in 0 .. n - 1 /\ i < b BY <2>2, <1>b
    <3> QED BY <3>1, <2>0, <2>2, <1>c, <1>k
  <2>3. CASE j > b /\ i = b
    <3>1. j - 1 \in 0 .. n - 1 /\ j - 1 >= b BY <2>3, <1>b
    <3>2. name[j - 1].name > key[t] BY <3>1, <1>c
    <3>3. name[j - 1].name \in Nat BY <3>1, <1>f, NameAssumption
    <3> QED BY <3>2, <3>3, <2>0, <2>3, <1>l, <1>a
  <2>4. CASE j > b /\ i < b
    <3>1. i \in 0 .. n - 1 /\ j - 1 \in 0 .. n - 1 /\ j - 1 >= b BY <2>4, <1>b
    <3>2. name[i].name < key[t] /\ name[j - 1].name > key[t] BY <3>1, <2>4, <1>c
    <3>3. name[i].name \in Nat /\ name[j - 1].name \in Nat BY <3>1, <1>f, NameAssumption
    <3> QED BY <3>2, <3>3, <2>4, <1>k, <1>l, <1>a
  <2>5. CASE j > b /\ i > b
    <3>1. i - 1 \in 0 .. n - 1 /\ j - 1 \in 0 .. n - 1 /\ i - 1 < j - 1 BY <2>5, <1>b
    <3> QED BY <3>1, <2>5, <1>e, <1>l
  <2> QED BY <2>1, <2>2, <2>3, <2>4, <2>5, <1>b
<1> QED BY <1>2, <1>3, <1>4, <1>5

-------------------------------------------------------------------------------
(***************************************************************************)
(* HandleRetire.                                                           *)
(***************************************************************************)
LEMMA CallRetireStep ==
  ASSUME IInv, NEW t \in Thread, CallRetire(t)
  PROVE  /\ IInv'
         /\ Used = 0 .. name_count - 1
         /\ Used' = {i \in Used : name[i].handle # hdl'[t]}
<1> USE DEF IInv, CallRetire, WlockReturns, NobodyInside, Goto, table, Quiet
<1>1. TypeOK'
  <2>1. 0 \in 0 .. cap /\ 0 \in -1 .. cap BY DEF TypeOK
  <2> QED BY <2>1 DEF TypeOK, PC
<1>2. (OneInside /\ FlagUp /\ Bracket /\ Argument /\ Kept)'
      BY DEF TypeOK, OneInside, FlagUp, Bracket, Argument, Kept
<1>3. Used = 0 .. name_count - 1 BY UsedAll
<1>4. Used' = {i \in Used : name[i].handle # hdl'[t]}
  <2>1. pc'[t] = "compact" /\ begin'[t] = 0 BY DEF TypeOK
  <2>2. \A s \in Thread : pc'[s] = "compact" <=> s = t BY DEF TypeOK
  <2>3. Used' = {i \in 0 .. name_count - 1 :
                   (i < end'[t] \/ i >= begin'[t]) /\ name[i].handle # hdl'[t]}
        BY <2>2 DEF Used, Compacting
  <2>4. \A i \in 0 .. name_count - 1 : i >= begin'[t] BY <2>1 DEF TypeOK
  <2> QED BY <1>3, <2>3, <2>4
<1>5. Real' BY <1>4 DEF Real
<1>6. Sorted' BY <1>4 DEF Sorted
<1> QED BY <1>1, <1>2, <1>3, <1>4, <1>5, <1>6

(***************************************************************************)
(* The entries in use, as a set: what the moves of HandleRetire keep.      *)
(***************************************************************************)
Entries == {name[i] : i \in Used}

LEMMA RetireLoopStep ==
  ASSUME IInv, NEW t \in Thread, RetireLoop(t)
  PROVE  IInv' /\ Entries' = Entries
<1> USE DEF IInv
<1> DEFINE b == begin[t]
           e == end[t]
           n == name_count
<1>a. pc[t] = "compact" /\ hdl[t] \in Handle BY DEF RetireLoop, Argument
<1>b. b \in Nat /\ e \in Nat /\ n \in Nat /\ e <= b /\ b < n /\ n <= cap /\ cap \in Nat
      BY <1>a DEF TypeOK, Kept, RetireLoop
<1>c. \A s \in Thread : s # t => pc[s] \notin {"find", "bind", "compact"}
      BY <1>a DEF OneInside
<1>d. UNCHANGED <<cap, name_count, write, pc, key, hdl, aborted>> /\ answer' = NoAnswer
      BY DEF RetireLoop, Quiet
<1>e. begin' = [begin EXCEPT ![t] = b + 1] BY DEF RetireLoop
<1>f. name \in [0 .. n - 1 -> Entry] BY DEF TypeOK
<1>g. Used = {i \in 0 .. n - 1 : (i < e \/ i >= b) /\ name[i].handle # hdl[t]}
      BY <1>a, UsedByOne
<1>h. Used' = {i \in 0 .. n - 1 : (i < end'[t] \/ i >= b + 1) /\ name'[i].handle # hdl[t]}
  <2>1. begin'[t] = b + 1 BY <1>e DEF TypeOK
  <2>2. \A s \in Thread : pc'[s] = "compact" <=> s = t BY <1>a, <1>c, <1>d
  <2> QED BY <2>1, <2>2, <1>d DEF Used, Compacting
<1>i. \A i \in 0 .. e - 1 : name[i].handle # hdl[t] BY <1>a DEF Kept
<1>j. begin' \in [Thread -> 0 .. cap]
  <2>1. b + 1 \in 0 .. cap BY <1>b
  <2> QED BY <2>1, <1>e DEF TypeOK
<1>k. (OneInside /\ FlagUp /\ Argument)'
      BY <1>d DEF OneInside, FlagUp, Argument
<1>l. Bracket' BY <1>a, <1>c, <1>d DEF Bracket
<1> HIDE DEF b, e, n
<1>1. CASE name[b].handle = hdl[t] /\ name' = [name EXCEPT ![b].name = 0] /\ end' = end
  <2>1. \A i \in 0 .. n - 1 : i # b => name'[i] = name[i] BY <1>1, <1>f
  <2>2. name'[b].handle = hdl[t] /\ name'[b] \in Entry
    <3>1. b \in 0 .. n - 1 BY <1>b
    <3>2. name'[b] = [name[b] EXCEPT !.name = 0] BY <1>1, <1>f, <3>1
    <3>3. name[b] \in Entry BY <1>f, <3>1
    <3> QED BY <3>2, <3>3, <1>1 DEF Entry
  <2>3. end'[t] = e BY <1>1 DEF e
  <2>4. Used' = Used
    <3>1. \A i \in 0 .. n - 1 : i \in Used' <=> i \in Used
      <4> SUFFICES ASSUME NEW i \in 0 .. n - 1 PROVE i \in Used' <=> i \in Used
          OBVIOUS
      <4>1. CASE i = b BY <4>1, <1>1, <1>g, <1>h, <2>2
      <4>2. CASE i # b
        <5>1. i >= b + 1 <=> i >= b BY <4>2, <1>b
        <5> QED BY <5>1, <4>2, <1>g, <1>h, <2>1, <2>3
      <4> QED BY <4>1, <4>2
    <3> QED BY <3>1, <1>g, <1>h
  <2>5. \A i \in Used : name'[i] = name[i] /\ i \in 0 .. n - 1
        BY <1>1, <1>g, <2>1
  <2>6. Real' /\ Sorted' /\ Entries' = Entries
        BY <2>4, <2>5 DEF Real, Sorted, Entries
  <2>7. Kept'
    <3>1. begin'[t] = b + 1 BY <1>e DEF TypeOK
    <3>2. \A i \in 0 .. e - 1 : name'[i].handle # hdl[t]
      <4>1. \A i \in 0 .. e - 1 : i \in 0 .. n - 1 /\ i # b BY <1>b
      <4> QED BY <4>1, <2>1, <1>i
    <3> QED BY <3>1, <3>2, <2>3, <1>a, <1>b, <1>c, <1>d DEF Kept, n
  <2>8. TypeOK'
    <3>1. name' \in [0 .. n - 1 -> Entry]
      <4>1. DOMAIN name' = 0 .. n - 1 BY <1>1, <1>f
      <4>2. \A i \in 0 .. n - 1 : name'[i] \in Entry BY <2>1, <2>2, <1>f
      <4>3. name' = [i \in 0 .. n - 1 |-> name'[i]] BY <1>1, <1>f
      <4> QED BY <4>2, <4>3
    <3> QED BY <3>1, <1>1, <1>d, <1>j DEF TypeOK, n
  <2> QED BY <1>k, <1>l, <2>6, <2>7, <2>8
<1>2. CASE /\ name[b].handle # hdl[t]
           /\ name' = [name EXCEPT ![e] = name[b]]
           /\ end' = [end EXCEPT ![t] = e + 1]
  <2>0. b \in 0 .. n - 1 /\ e \in 0 .. n - 1 BY <1>b
  <2>1. \A i \in 0 .. n - 1 : i # e => name'[i] = name[i] BY <1>2, <1>f
  <2>2. name'[e] = name[b] BY <1>2, <1>f, <2>0
  <2>3. end'[t] = e + 1 BY <1>2 DEF TypeOK
  <2>4. b \in Used /\ e \in Used' BY <1>2, <1>b, <1>g, <1>h, <2>0, <2>2, <2>3
  <2>5. \A i \in 0 .. n - 1 : i # e /\ i # b => (i \in Used' <=> i \in Used)
    <3> SUFFICES ASSUME NEW i \in 0 .. n - 1, i # e, i # b
                 PROVE  i \in Used' <=> i \in Used
        OBVIOUS
    <3>1. (i < e + 1 <=> i < e) /\ (i >= b + 1 <=> i >= b) BY <1>b
    <3> QED BY <3>1, <1>g, <1>h, <2>1, <2>3
  <2>6. e # b => e \notin Used /\ b \notin Used'
        BY <1>b, <1>g, <1>h, <2>0, <2>3
  <2>7. \A i \in Used' : i \in 0 .. n - 1 /\ (i = e \/ (i # b /\ i \in Used))
        BY <1>h, <2>5, <2>6
  <2>8. Real'
    <3> SUFFICES ASSUME NEW i \in Used'
                 PROVE  name'[i].name \in Name /\ name'[i].handle \in Handle
        BY DEF Real
    <3>1. CASE i = e BY <3>1, <2>2, <2>4 DEF Real
    <3>2. CASE i # e BY <3>2, <2>1, <2>7 DEF Real
    <3> QED BY <3>1, <3>2
  <2>9. Sorted'
    <3> SUFFICES ASSUME NEW i \in Used', NEW j \in Used', i < j
                 PROVE  name'[i].name < name'[j].name
        BY DEF Sorted
    <3>0. i \in Nat /\ j \in Nat /\ i \in 0 .. n - 1 /\ j \in 0 .. n - 1 BY <2>7, <1>b
    <3>1. CASE i # e /\ j # e BY <3>1, <2>1, <2>7 DEF Sorted
    <3>2. CASE i = e
      <4>1. j # e /\ j \in Used /\ j # b BY <3>2, <3>0, <2>7
      <4>2. j > b BY <4>1, <3>0, <3>2, <1>b, <1>g
      <4> QED BY <4>1, <4>2, <3>0, <3>2, <2>1, <2>2, <2>4, <1>b DEF Sorted
    <3>3. CASE j = e
      <4>1. i # e /\ i \in Used /\ i < b BY <3>3, <3>0, <2>7, <1>b
      <4> QED BY <4>1, <3>0, <3>3, <2>1, <2>2, <2>4 DEF Sorted
    <3> QED BY <3>1, <3>2, <3>3
  <2>10. Entries' = Entries
    <3>1. \A i \in Used' : name'[i] \in Entries
      <4> SUFFICES ASSUME NEW i \in Used' PROVE name'[i] \in Entries
          OBVIOUS
      <4>1. CASE i = e BY <4>1, <2>2, <2>4 DEF Entries
      <4>2. CASE i # e BY <4>2, <2>1, <2>7 DEF Entries
      <4> QED BY <4>1, <4>2
    <3>2. \A i \in Used : name[i] \in Entries'
      <4> SUFFICES ASSUME NEW i \in Used PROVE name[i] \in Entries'
          OBVIOUS
      <4>1. CASE i = b BY <4>1, <2>2, <2>4 DEF Entries
      <4>2. CASE i # b
        <5>1. i \in 0 .. n - 1 /\ i # e BY <4>2, <2>6, <1>g
        <5> QED BY <4>2, <5>1, <2>1, <2>5 DEF Entries
      <4> QED BY <4>1, <4>2
    <3> QED BY <3>1, <3>2 DEF Entries
  <2>11. Kept'
    <3>1. begin'[t] = b + 1 BY <1>e DEF TypeOK
    <3>2. \A i \in 0 .. e : name'[i].handle # hdl[t]
      <4> SUFFICES ASSUME NEW i \in 0 .. e PROVE name'[i].handle # hdl[t]
          OBVIOUS
      <4>1. CASE i = e BY <4>1, <2>2, <1>2
      <4>2. CASE i # e
        <5>1. i \in 0 .. e - 1 /\ i \in 0 .. n - 1 BY <4>2, <1>b
        <5> QED BY <5>1, <4>2, <2>1, <1>i
      <4> QED BY <4>1, <4>2
    <3>3. 0 .. (e + 1) - 1 = 0 .. e BY <1>b
    <3> QED BY <3>1, <3>2, <3>3, <2>3, <1>a, <1>b, <1>c, <1>d DEF Kept, n
  <2>12. TypeOK'
    <3>1. name' \in [0 .. n - 1 -> Entry] BY <1>2, <1>f, <2>0
    <3>2. e + 1 \in -1 .. cap BY <1>b
    <3>3. end' \in [Thread -> -1 .. cap] BY <1>2, <3>2 DEF TypeOK
    <3> QED BY <3>1, <3>3, <1>d, <1>j DEF TypeOK, n
  <2> QED BY <1>k, <1>l, <2>8, <2>9, <2>10, <2>11, <2>12
<1> QED BY <1>1, <1>2 DEF RetireLoop, b, e

LEMMA RetireReturnStep ==
  ASSUME IInv, NEW t \in Thread, RetireReturn(t)
  PROVE  IInv' /\ Entries' = Entries
<1> USE DEF IInv
<1> DEFINE e == end[t]
<1>a. pc[t] = "compact" BY DEF RetireReturn
<1>b. begin[t] = name_count /\ e \in 0 .. name_count /\ name_count \in Nat
      /\ name_count <= cap /\ cap \in Nat \ {0}
      BY <1>a DEF TypeOK, Kept, RetireReturn
<1>c. \A s \in Thread : s # t => pc[s] \notin {"find", "bind", "compact"}
      BY <1>a DEF OneInside
<1>d. \A s \in Thread : pc'[s] \notin {"find", "bind", "compact"}
      BY <1>c DEF RetireReturn, Return, Goto, TypeOK
<1>e. name_count' = e /\ name' = [i \in 0 .. e - 1 |-> name[i]] BY DEF RetireReturn
<1>f. Used' = 0 .. e - 1 BY <1>d, <1>e DEF Used, Compacting
<1>g. Used = 0 .. e - 1
  <2>1. Used = {i \in 0 .. name_count - 1 :
                  (i < e \/ i >= begin[t]) /\ name[i].handle # hdl[t]}
        BY <1>a, UsedByOne
  <2>2. \A i \in 0 .. e - 1 : i \in 0 .. name_count - 1 /\ name[i].handle # hdl[t]
        BY <1>a, <1>b DEF Kept
  <2>3. \A i \in 0 .. name_count - 1 : (i < e \/ i >= begin[t]) => i \in 0 .. e - 1
        BY <1>b
  <2>4. \A i \in 0 .. e - 1 : i < e BY <1>b
  <2> QED BY <2>1, <2>2, <2>3, <2>4
<1>h. \A i \in Used' : i \in Used /\ name'[i] = name[i] BY <1>e, <1>f, <1>g
<1>1. TypeOK'
  <2>1. name' \in [0 .. name_count' - 1 -> Entry]
    <3>1. \A i \in 0 .. e - 1 : i \in 0 .. name_count - 1 BY <1>b
    <3>2. \A i \in 0 .. e - 1 : name[i] \in Entry BY <3>1 DEF TypeOK
    <3> QED BY <3>2, <1>e
  <2>2. 0 \in 0 .. cap /\ 0 \in -1 .. cap BY <1>b
  <2>3. name_count' \in 0 .. cap BY <1>b, <1>e
  <2> QED BY <2>1, <2>2, <2>3, <1>e DEF TypeOK, RetireReturn, Return, Goto, Quiet, PC
<1>2. (OneInside /\ FlagUp /\ Bracket /\ Argument /\ Kept)'
      BY <1>d DEF OneInside, FlagUp, Bracket, Argument, Kept
<1>3. Real' BY <1>h DEF Real
<1>4. Sorted' BY <1>h DEF Sorted
<1>5. Entries' = Entries BY <1>f, <1>g, <1>h DEF Entries
<1> QED BY <1>1, <1>2, <1>3, <1>4, <1>5

-------------------------------------------------------------------------------
LEMMA IInvInductive == IInv /\ [Next]_vars => IInv'
<1> SUFFICES ASSUME IInv, [Next]_vars PROVE IInv'
    OBVIOUS
<1>1. CASE UNCHANGED vars
  <2>1. Used' = Used BY <1>1 DEF vars, Used, Compacting
  <2> QED BY <1>1, <2>1 DEF vars, IInv, TypeOK, OneInside, FlagUp, Bracket, Argument, Kept,
                            Real, Sorted
<1>2. ASSUME NEW t \in Thread, Call(t) PROVE IInv'
      BY <1>2, CallFindnameStep, CallNamehandleStep, CallRetireStep, OtherWriterStep DEF Call
<1>3. ASSUME NEW t \in Thread, Progress(t) PROVE IInv'
  <2>1. CASE FindnameLoop(t) BY <2>1, HalveStep DEF FindnameLoop
  <2>2. CASE NamehandleLoop(t) BY <2>2, HalveStep DEF NamehandleLoop
  <2> QED BY <1>3, <2>1, <2>2, FindnameLockedStep, FindnameReturnStep, NamehandleTakenStep,
             NamehandleInsertStep, NamehandleAssertStep, RetireLoopStep, RetireReturnStep
          DEF Progress
<1> QED BY <1>1, <1>2, <1>3 DEF Next

(***************************************************************************)
(* Every reachable state has the declared types: name_count never exceeds  *)
(* the capacity, so no write of HandleNamehandle is out of bounds.         *)
(***************************************************************************)
THEOREM TypeCorrect == Spec => []TypeOK
<1>1. IInv => TypeOK BY DEF IInv
<1> QED BY <1>1, IInvInitially, IInvInductive, PTL DEF Spec

(***************************************************************************)
(* The name table is strictly sorted in every reachable state, in the      *)
(* middle of a HandleRetire too.                                           *)
(***************************************************************************)
THEOREM TableSorted == Spec => []Sorted
<1>1. IInv => Sorted BY DEF IInv
<1> QED BY <1>1, IInvInitially, IInvInductive, PTL DEF Spec

-------------------------------------------------------------------------------
(***************************************************************************)
(* The refinement.  What a name is bound to depends on the set of entries  *)
(* in use only, because no name is there twice.                            *)
(***************************************************************************)
LEMMA UsedInRange == TypeOK => \A i \in Used : i \in Int /\ name[i] \in Entry
BY DEF Used, TypeOK

LEMMA Unique ==
  ASSUME IInv, NEW i \in Used, NEW j \in Used, name[i].name = name[j].name
  PROVE  i = j
<1>1. i \in Int /\ j \in Int BY UsedInRange DEF IInv
<1>2. name[i].name \in Int /\ name[j].name \in Int
      BY NameAssumption DEF IInv, Real
<1>3. CASE i < j BY <1>1, <1>2, <1>3 DEF IInv, Sorted
<1>4. CASE j < i BY <1>1, <1>2, <1>4 DEF IInv, Sorted
<1> QED BY <1>1, <1>3, <1>4

LEMMA BoundTo ==
  ASSUME IInv, NEW i \in Used
  PROVE  HandleOf(name[i].name) = name[i].handle
<1> DEFINE at == {j \in Used : name[j].name = name[i].name}
<1>1. at = {i} BY Unique
<1>2. (CHOOSE j \in at : TRUE) = i BY <1>1
<1> QED BY <1>1, <1>2 DEF HandleOf

LEMMA NotBound ==
  ASSUME NEW n, \A i \in Used : name[i].name # n
  PROVE  HandleOf(n) = None
BY DEF HandleOf

LEMMA FromEntries ==
  ASSUME IInv, NEW n \in Name, NEW h \in Handle
  PROVE  HandleOf(n) = h <=> \E e \in Entries : e.name = n /\ e.handle = h
<1>1. ASSUME NEW i \in Used, name[i].name = n
      PROVE  HandleOf(n) = h <=> \E e \in Entries : e.name = n /\ e.handle = h
  <2>1. HandleOf(n) = name[i].handle BY <1>1, BoundTo
  <2>2. \A e \in Entries : e.name = n => e = name[i] BY <1>1, Unique DEF Entries
  <2>3. name[i] \in Entries BY DEF Entries
  <2> QED BY <1>1, <2>1, <2>2, <2>3
<1>2. CASE \A i \in Used : name[i].name # n
  <2>1. HandleOf(n) = None BY <1>2, NotBound
  <2>2. h # None BY NameAssumption DEF None
  <2> QED BY <1>2, <2>1, <2>2 DEF Entries
<1> QED BY <1>1, <1>2

LEMMA HandleOfType ==
  ASSUME IInv, NEW n \in Name
  PROVE  HandleOf(n) \in Handle \cup {None}
<1>1. ASSUME NEW i \in Used, name[i].name = n PROVE HandleOf(n) \in Handle
      BY <1>1, BoundTo DEF IInv, Real
<1>2. CASE \A i \in Used : name[i].name # n BY <1>2, NotBound
<1> QED BY <1>1, <1>2

\* The same of the next state.
LEMMA FromEntriesNext ==
  ASSUME IInv', NEW n \in Name, NEW h \in Handle
  PROVE  HandleOf(n)' = h <=> \E e \in Entries' : e.name = n /\ e.handle = h
<1>1. (HandleOf(n) = h <=> \E e \in Entries : e.name = n /\ e.handle = h)'
      BY FromEntries, PTL
<1> QED BY <1>1

LEMMA HandleOfTypeNext ==
  ASSUME IInv', NEW n \in Name
  PROVE  HandleOf(n)' \in Handle \cup {None}
<1>1. (HandleOf(n) \in Handle \cup {None})' BY HandleOfType, PTL
<1> QED BY <1>1

Dir == [n \in Name |-> HandleOf(n)]

(***************************************************************************)
(* The same entries give the same directory.                               *)
(***************************************************************************)
LEMMA SameEntries ==
  ASSUME IInv, IInv', Entries' = Entries
  PROVE  Dir' = Dir
<1> SUFFICES ASSUME NEW n \in Name PROVE HandleOf(n)' = HandleOf(n)
    BY DEF Dir
<1>1. \A h \in Handle : HandleOf(n)' = h <=> \E e \in Entries' : e.name = n /\ e.handle = h
      BY FromEntriesNext
<1>2. \A h \in Handle : HandleOf(n) = h <=> \E e \in Entries : e.name = n /\ e.handle = h
      BY FromEntries
<1>3. HandleOf(n) \in Handle \cup {None} BY HandleOfType
<1>4. HandleOf(n)' \in Handle \cup {None} BY HandleOfTypeNext
<1> QED BY <1>1, <1>2, <1>3, <1>4

(***************************************************************************)
(* What a hit and a search without a hit say about the directory.          *)
(***************************************************************************)
LEMMA SearchAnswers ==
  ASSUME IInv, NEW t \in Thread, pc[t] \in {"find", "bind"}
  PROVE  /\ key[t] \in Name
         /\ Hit(t) => HandleOf(key[t]) = name[Mid(t)].handle /\ HandleOf(key[t]) \in Handle
         /\ ~Searching(t) => HandleOf(key[t]) = None
<1>1. key[t] \in Name BY DEF IInv, Bracket
<1>2. Used = 0 .. name_count - 1
  <2>1. \A s \in Thread : pc[s] # "compact" BY DEF IInv, OneInside
  <2> QED BY <2>1, UsedAll
<1>3. ASSUME Hit(t)
      PROVE HandleOf(key[t]) = name[Mid(t)].handle /\ HandleOf(key[t]) \in Handle
  <2>1. Mid(t) \in Used
        BY <1>2, <1>3, MidBetween DEF Hit, Searching, IInv, TypeOK, Bracket
  <2>2. name[Mid(t)].name = key[t] BY <1>3 DEF Hit
  <2>3. HandleOf(key[t]) = name[Mid(t)].handle BY <2>1, <2>2, BoundTo
  <2> QED BY <2>1, <2>3 DEF IInv, Real
<1>4. ASSUME ~Searching(t) PROVE HandleOf(key[t]) = None
  <2>1. \A i \in Used : name[i].name # key[t]
    <3> SUFFICES ASSUME NEW i \in Used PROVE name[i].name # key[t]
        OBVIOUS
    <3>1. i \in 0 .. name_count - 1 /\ name_count \in Nat BY <1>2 DEF IInv, TypeOK
    <3>2. i < begin[t] \/ i > end[t]
          BY <3>1, <1>4 DEF Searching, IInv, TypeOK
    <3>3. name[i].name < key[t] \/ name[i].name > key[t]
          BY <3>1, <3>2 DEF IInv, Bracket
    <3>4. name[i].name \in Nat /\ key[t] \in Nat
          BY <1>1, <3>1, NamesAreNumbers, NameAssumption DEF IInv
    <3> QED BY <3>3, <3>4
  <2> QED BY <2>1, NotBound
<1> QED BY <1>1, <1>3, <1>4

(***************************************************************************)
(* An insertion adds one entry, and its name was free.                     *)
(***************************************************************************)
LEMMA InsertBinds ==
  ASSUME IInv, IInv', NEW t \in Thread, NamehandleInsert(t)
  PROVE  Dir[key[t]] = None /\ Dir' = [Dir EXCEPT ![key[t]] = hdl[t]]
<1> DEFINE b == begin[t]
           new == [name |-> key[t], handle |-> hdl[t]]
<1>a. pc[t] = "bind" /\ ~Searching(t) BY DEF NamehandleInsert
<1>b. key[t] \in Name /\ HandleOf(key[t]) = None BY <1>a, SearchAnswers
<1>c. hdl[t] \in Handle BY <1>a DEF IInv, Argument
<1>d. b \in 0 .. name_count /\ name_count \in Nat
      BY <1>a DEF IInv, TypeOK, Bracket
<1>e. Used = 0 .. name_count - 1
  <2>1. \A s \in Thread : pc[s] # "compact" BY <1>a DEF IInv, OneInside
  <2> QED BY <2>1, UsedAll
<1>f. Used' = 0 .. name_count
  <2>1. \A s \in Thread : pc'[s] # "compact"
        BY <1>a DEF IInv, TypeOK, OneInside, NamehandleInsert, Answer, Return, Goto
  <2>2. Used' = 0 .. name_count' - 1 BY <2>1 DEF Used, Compacting
  <2> QED BY <2>2, <1>d DEF NamehandleInsert
<1>g. name' = [i \in 0 .. name_count |-> IF i = b THEN new
                                        ELSE IF i < b THEN name[i] ELSE name[i - 1]]
      BY DEF NamehandleInsert, Inserted
<1> HIDE DEF b, new
<1>1. \A e \in Entries' : e = new \/ e \in Entries
  <2> SUFFICES ASSUME NEW i \in 0 .. name_count PROVE name'[i] = new \/ name'[i] \in Entries
      BY <1>f DEF Entries
  <2>1. CASE i = b BY <2>1, <1>g
  <2>2. CASE i < b
    <3>1. i \in Used BY <2>2, <1>d, <1>e
    <3> QED BY <3>1, <2>2, <1>d, <1>g DEF Entries
  <2>3. CASE i > b
    <3>1. i - 1 \in Used BY <2>3, <1>d, <1>e
    <3> QED BY <3>1, <2>3, <1>d, <1>g DEF Entries
  <2> QED BY <2>1, <2>2, <2>3, <1>d
<1>2. \A e \in Entries : e \in Entries'
  <2> SUFFICES ASSUME NEW i \in 0 .. name_count - 1 PROVE name[i] \in Entries'
      BY <1>e DEF Entries
  <2>1. CASE i < b
    <3>1. i \in 0 .. name_count BY <1>d
    <3> QED BY <3>1, <2>1, <1>d, <1>f, <1>g DEF Entries
  <2>2. CASE i >= b
    <3>1. i + 1 \in 0 .. name_count /\ i + 1 > b /\ (i + 1) - 1 = i BY <2>2, <1>d
    <3>2. name'[i + 1] = name[i] BY <3>1, <1>d, <1>g
    <3> QED BY <3>1, <3>2, <1>f DEF Entries
  <2> QED BY <2>1, <2>2, <1>d
<1>3. new \in Entries'
  <2>1. name'[b] = new /\ b \in Used' BY <1>d, <1>f, <1>g
  <2> QED BY <2>1 DEF Entries
<1>4. ASSUME NEW n \in Name
      PROVE  HandleOf(n)' = IF n = key[t] THEN hdl[t] ELSE HandleOf(n)
  <2>1. \A h \in Handle : HandleOf(n)' = h <=> \E e \in Entries' : e.name = n /\ e.handle = h
        BY FromEntriesNext
  <2>2. \A h \in Handle : HandleOf(n) = h <=> \E e \in Entries : e.name = n /\ e.handle = h
        BY FromEntries
  <2>3. HandleOf(n) \in Handle \cup {None} BY HandleOfType
  <2>4. HandleOf(n)' \in Handle \cup {None} BY HandleOfTypeNext
  <2>5. new.name = key[t] /\ new.handle = hdl[t] BY DEF new
  <2>6. CASE n = key[t] BY <2>6, <2>1, <2>5, <1>c, <1>3
  <2>7. CASE n # key[t] BY <2>7, <2>1, <2>2, <2>3, <2>4, <2>5, <1>1, <1>2
  <2> QED BY <2>6, <2>7
<1> QED BY <1>b, <1>4 DEF Dir

(***************************************************************************)
(* A HandleRetire that starts has dropped the names of its handle.         *)
(***************************************************************************)
LEMMA RetireUnbinds ==
  ASSUME IInv, IInv', NEW t \in Thread, CallRetire(t)
  PROVE  Dir' = [n \in Name |-> IF Dir[n] = hdl'[t] THEN None ELSE Dir[n]]
<1>1. Used' = {i \in Used : name[i].handle # hdl'[t]} /\ name' = name
      BY CallRetireStep DEF CallRetire, table
<1>2. \A e : e \in Entries' <=> e \in Entries /\ e.handle # hdl'[t]
      BY <1>1 DEF Entries
<1>3. ASSUME NEW n \in Name
      PROVE  HandleOf(n)' = IF HandleOf(n) = hdl'[t] THEN None ELSE HandleOf(n)
  <2>1. \A h \in Handle : HandleOf(n)' = h <=> \E e \in Entries' : e.name = n /\ e.handle = h
        BY FromEntriesNext
  <2>2. \A h \in Handle : HandleOf(n) = h <=> \E e \in Entries : e.name = n /\ e.handle = h
        BY FromEntries
  <2>3. HandleOf(n) \in Handle \cup {None} BY HandleOfType
  <2>4. HandleOf(n)' \in Handle \cup {None} BY HandleOfTypeNext
  <2>5. hdl'[t] \in Handle /\ None \notin Handle
        BY NameAssumption DEF CallRetire, None, IInv, TypeOK
  <2> QED BY <1>2, <2>1, <2>2, <2>3, <2>4, <2>5
<1> QED BY <1>3 DEF Dir

(***************************************************************************)
(* The sorted array with its binary searches and its in-place removal is a *)
(* directory, for every number of threads, names and handles: the initial  *)
(* state maps to the empty directory, and every step to a step of          *)
(* NameDirectory.                                                          *)
(***************************************************************************)
THEOREM TableIsDirectory == Spec => ImplementsDirectory
<1>1. Init => Directory!Init
  <2> SUFFICES ASSUME Init PROVE Directory!Init
      OBVIOUS
  <2>1. Used = {} BY DEF Init, Used
  <2>2. \A n \in Name : HandleOf(n) = None BY <2>1, NotBound
  <2> QED BY <2>2 DEF Init, Directory!Init
<1>2. IInv /\ IInv' /\ [Next]_vars => [Directory!Next]_(Directory!vars)
  <2> SUFFICES ASSUME IInv, IInv', [Next]_vars
               PROVE  Directory!Next \/ UNCHANGED <<Dir, answer>>
      BY DEF Directory!vars, Dir
  <2>a. ASSUME Entries' = Entries, answer' = NoAnswer PROVE Directory!Next
        BY <2>a, SameEntries DEF Directory!Next, Directory!Work, Dir
  <2>b. ASSUME UNCHANGED <<name, name_count>>,
               \A s \in Thread : /\ pc'[s] = "compact" <=> pc[s] = "compact"
                                 /\ pc[s] = "compact" => /\ begin'[s] = begin[s]
                                                         /\ end'[s] = end[s]
                                                         /\ hdl'[s] = hdl[s]
        PROVE  Entries' = Entries
        BY <2>b, SameTable DEF IInv, Entries
  <2>1. CASE UNCHANGED vars
    <3>1. Entries' = Entries BY <2>1, <2>b DEF vars
    <3> QED BY <2>1, <3>1, SameEntries DEF vars
  <2>2. ASSUME NEW t \in Thread, CallFindname(t) PROVE Directory!Next
    <3>1. Entries' = Entries
          BY <2>2, <2>b DEF CallFindname, Goto, table, locals, IInv, TypeOK
    <3> QED BY <2>2, <2>a, <3>1 DEF CallFindname, Quiet
  <2>3. ASSUME NEW t \in Thread, CallNamehandle(t) PROVE Directory!Next
    <3>1. Entries' = Entries
          BY <2>3, <2>b DEF CallNamehandle, WlockReturns, NobodyInside, StartSearch, Goto,
                            table, IInv, TypeOK
    <3> QED BY <2>3, <2>a, <3>1 DEF CallNamehandle, Quiet
  <2>4. ASSUME NEW t \in Thread, OtherWriter(t) PROVE Directory!Next
    <3>1. Entries' = Entries BY <2>4, <2>b DEF OtherWriter, table, locals
    <3> QED BY <2>4, <2>a, <3>1 DEF OtherWriter, Quiet
  <2>5. ASSUME NEW t \in Thread, CallRetire(t) PROVE Directory!Next
    <3>1. hdl'[t] \in Handle BY <2>5 DEF CallRetire, IInv, TypeOK
    <3>2. Directory!Unbind(hdl'[t])
          BY <2>5, RetireUnbinds DEF Directory!Unbind, Dir, CallRetire, Quiet
    <3> QED BY <3>1, <3>2 DEF Directory!Next
  <2>6. ASSUME NEW t \in Thread, FindnameLocked(t) PROVE Directory!Next
    <3>1. Entries' = Entries
          BY <2>6, <2>b DEF FindnameLocked, StartSearch, Goto, table, IInv, TypeOK
    <3> QED BY <2>6, <2>a, <3>1 DEF FindnameLocked, Quiet
  <2>7. ASSUME NEW t \in Thread, pc[t] \in {"find", "bind"}, Halve(t) PROVE Directory!Next
    <3>1. \A s \in Thread : pc[s] # "compact" BY <2>7 DEF IInv, OneInside
    <3>2. Entries' = Entries BY <2>7, <2>b, <3>1 DEF Halve
    <3> QED BY <2>7, <2>a, <3>2 DEF Halve, Quiet
  <2>c. ASSUME NEW t \in Thread, pc[t] \in {"find", "bind"}, Return(t),
               UNCHANGED <<name, name_count>>
        PROVE  Dir' = Dir
    <3>1. Entries' = Entries BY <2>b, <2>c DEF Return, Goto, IInv, TypeOK
    <3> QED BY <3>1, SameEntries
  <2>8. ASSUME NEW t \in Thread, FindnameReturn(t) PROVE Directory!Next
    <3>1. pc[t] = "find" BY <2>8 DEF FindnameReturn
    <3>2. Dir' = Dir BY <2>8, <2>c, <3>1 DEF FindnameReturn, Answer, table
    <3>3. key[t] \in Name BY <3>1, SearchAnswers
    <3>4. answer' = <<"find", key[t], Dir[key[t]]>>
          BY <2>8, <3>1, <3>3, SearchAnswers DEF FindnameReturn, Answer, Dir
    <3>5. Directory!Find(key[t]) BY <3>2, <3>4 DEF Directory!Find, Dir
    <3> QED BY <3>3, <3>5 DEF Directory!Next
  <2>9. ASSUME NEW t \in Thread, NamehandleTaken(t) PROVE Directory!Next
    <3>1. pc[t] = "bind" BY <2>9 DEF NamehandleTaken
    <3>2. Dir' = Dir BY <2>9, <2>c, <3>1 DEF NamehandleTaken, Answer, table
    <3>3. key[t] \in Name /\ Dir[key[t]] # None
          BY <2>9, <3>1, SearchAnswers, NameAssumption DEF NamehandleTaken, Dir, None
    <3>4. Directory!Refuse(key[t])
          BY <2>9, <3>2, <3>3 DEF Directory!Refuse, NamehandleTaken, Answer, Dir, None
    <3> QED BY <3>3, <3>4 DEF Directory!Next
  <2>10. ASSUME NEW t \in Thread, NamehandleInsert(t) PROVE Directory!Next
    <3>1. pc[t] = "bind" BY <2>10 DEF NamehandleInsert
    <3>2. key[t] \in Name /\ hdl[t] \in Handle
          BY <3>1, SearchAnswers DEF IInv, Argument
    <3>3. Directory!Bind(key[t], hdl[t])
          BY <2>10, InsertBinds DEF Directory!Bind, NamehandleInsert, Answer, Dir
    <3> QED BY <3>2, <3>3 DEF Directory!Next
  <2>11. ASSUME NEW t \in Thread, NamehandleAssert(t) PROVE Directory!Next
    <3>1. Entries' = Entries BY <2>11, <2>b DEF NamehandleAssert, table, locals
    <3> QED BY <2>11, <2>a, <3>1 DEF NamehandleAssert, Quiet
  <2>12. ASSUME NEW t \in Thread, RetireLoop(t) PROVE Directory!Next
         BY <2>12, <2>a, RetireLoopStep DEF RetireLoop, Quiet
  <2>13. ASSUME NEW t \in Thread, RetireReturn(t) PROVE Directory!Next
         BY <2>13, <2>a, RetireReturnStep DEF RetireReturn, Quiet
  <2> QED BY <2>1, <2>2, <2>3, <2>4, <2>5, <2>6, <2>7, <2>8, <2>9, <2>10, <2>11, <2>12, <2>13
          DEF Next, Call, Progress, FindnameLoop, NamehandleLoop
<1> QED BY <1>1, <1>2, IInvInitially, IInvInductive, PTL
        DEF Spec, ImplementsDirectory, Directory!Spec
===============================================================================
