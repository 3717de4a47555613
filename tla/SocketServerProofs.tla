-------------------------- MODULE SocketServerProofs --------------------------
(***************************************************************************)
(* Proofs about SocketServer for any number of clients, slots and ids and  *)
(* any bounds.                                                             *)
(***************************************************************************)
EXTENDS SocketServer, FiniteSetTheorems, SequenceTheorems, TLAPS

Socket == [type : Type, id : Id \union {0}, tcp : BOOLEAN, tag : Nat, sending : Nat,
           closing : BOOLEAN, reading : BOOLEAN, writing : BOOLEAN,
           high : Nat, low : Nat, dw : BOOLEAN]
Requests == [op : Op, id : Id, counted : BOOLEAN]
Events == [slot : Slot \union {None}, kind : Kind]
Forces == [slot : Slot, id : 0 .. MaxId, closed : BOOLEAN, clear : BOOLEAN, raise : BOOLEAN]
SendOp == {"D", "P"}
OtherOp == {"K", "shutdown", "R", "S", "W"}

(***************************************************************************)
(* The type invariant in the form in which it is inductive: the slots, the *)
(* pipe and the events of the batch as functions.                          *)
(***************************************************************************)
Types ==
  /\ alloc_id \in 0 .. MaxId
  /\ slot \in [Slot -> Socket]
  /\ \A s \in Slot : slot[s].id # 0 => HASH_ID(slot[s].id) = s
  /\ lock \in [Slot -> Client \union {None}]
  /\ pipe \in Seq(Requests) /\ Len(pipe) <= MaxPipe
  /\ checkctrl \in BOOLEAN
  /\ events \in Seq(Events)
  /\ force = None \/ force \in Forces
  /\ told \in [Id -> {"no", "id", "open"}]
  /\ closes \in [Id -> Nat]
  /\ taken \subseteq Slot
  /\ pc \in [Client -> Label]
  /\ arg \in [Client -> [op : Op \union {"none"}, id : Id \union {0}, counted : BOOLEAN]]
  /\ pinned \subseteq Client /\ stray \subseteq Slot
  /\ aborted \in {"no", "reserved", "newfd", "sending", "uncomplete"}

\* What a client is about, and the lock that it holds while it looks again and writes.
Holding == {"readid", "readlists", "readsending", "readhalf", "readtype", "write"}
Sending == {"check", "trylock", "trigger", "inc", "queue"} \union Holding
Calling ==
  \A c \in Client :
    /\ pc[c] = "idle" => arg[c] = NoRequest
    /\ pc[c] \in {"assign", "ask"} => arg[c].op \in OpenOp /\ arg[c].id # 0 /\ ~arg[c].counted
    /\ pc[c] \in Sending => arg[c].op \in SendOp /\ arg[c].id # 0
    /\ arg[c].counted => pc[c] = "queue"
Locks ==
  /\ \A s \in Slot, c \in Client : lock[s] = c <=> pc[c] \in Holding /\ HASH_ID(arg[c].id) = s
  /\ \A c \in pinned : pc[c] \in Holding

\* The slot that ForceClose waits for has a descriptor.
Busy(f, s) == f # None /\ ~f.closed /\ f.slot = s
Closing == \A s \in Slot : Busy(force, s) /\ aborted = "no" => Registered(slot[s])

\* An id that is reserved and not opened yet is so in one place.
OpenedOnce ==
  \A id \in Id :
    /\ \A c, d \in Client : Opens(c, id) /\ Opens(d, id) => c = d
    /\ \A r, q \in 1 .. Len(pipe) : Awaits(r, id) /\ Awaits(q, id) => r = q
    /\ \A c \in Client, r \in 1 .. Len(pipe) : ~(Opens(c, id) /\ Awaits(r, id))

(***************************************************************************)
(* Ids are allocated once, and a slot has the tag of its id once its       *)
(* socket is opened.  Only requests for opened ids are counted.            *)
(***************************************************************************)
Ids ==
  /\ \A i \in Id : Unopened(i) => i <= alloc_id
  /\ \A s \in Slot : slot[s].id <= alloc_id
  /\ \A s \in Slot : slot[s].tcp => slot[s].id # 0 /\ slot[s].tag = ID_TAG16(slot[s].id)
  /\ \A s \in Slot, i \in Id : slot[s].tcp /\ slot[s].id = i => ~Unopened(i)
  /\ \A i \in Id : told[i] # "no" => i <= alloc_id
  /\ \A r \in 1 .. Len(pipe) : pipe[r].id <= alloc_id
  /\ \A c \in Client : arg[c].id <= alloc_id
Counteds ==
  /\ \A r \in 1 .. Len(pipe) : pipe[r].counted => pipe[r].op \in SendOp
  /\ \A r \in 1 .. Len(pipe), i \in Id : pipe[r].counted /\ pipe[r].id = i => ~Unopened(i)
  /\ \A c \in Client, i \in Id : arg[c].counted /\ arg[c].id = i => ~Unopened(i)

(***************************************************************************)
(* A slot whose reservation nobody has undone is reserved for one id at a  *)
(* time (ReservedForOne), keeps its id as long as it has a descriptor, and *)
(* has one as long as it is written to directly, and as long as the lock   *)
(* is held of a client that got it while it had one.                       *)
(***************************************************************************)
Locked == \A s \in Slot \ taken :
            aborted = "no" /\ lock[s] # None =>
              /\ pc[lock[s]] = "write" \/ lock[s] \in pinned => Registered(slot[s])
              /\ lock[s] \in pinned => slot[s].id = arg[lock[s]].id
Connected == \A s \in Slot \ taken : aborted = "no" /\ Registered(slot[s]) => slot[s].tcp

(***************************************************************************)
(* When services wait until they are told, whoever sends to an id has been *)
(* told that it is open, and what is not counted is for an id that is gone *)
(* from its slot.                                                          *)
(***************************************************************************)
Gone(id) == HASH_ID(id) \notin taken => slot[HASH_ID(id)].id # id
Told ==
  aborted = "no" =>
    /\ \A i \in Id : told[i] = "open" /\ HASH_ID(i) \notin taken =>
                       ~Unopened(i) /\ (slot[HASH_ID(i)].id = i => slot[HASH_ID(i)].tcp)
    /\ \A c \in Client : arg[c].op \in SendOp => told[arg[c].id] = "open"
    /\ \A r \in 1 .. Len(pipe) : pipe[r].op \in SendOp => told[pipe[r].id] = "open"
    /\ \A c \in Client : pc[c] = "queue" /\ ~arg[c].counted => Gone(arg[c].id)
    /\ \A r \in 1 .. Len(pipe) : pipe[r].op \in SendOp /\ ~pipe[r].counted => Gone(pipe[r].id)
Exact == \A s \in Slot \ taken :
           aborted = "no" /\ slot[s].tcp =>
             slot[s].sending = Cardinality(Counted(slot[s].id)) + Cardinality(Counting(slot[s].id))

-------------------------------------------------------------------------------
(***************************************************************************)
(* Ids, slots and tags.                                                    *)
(***************************************************************************)
LEMMA Sizes == MaxSocket \in Nat /\ MaxSocket > 0 /\ 0 \in Slot
BY SocketAssumption DEF Slot

LEMMA HashInSlot == \A id \in Nat : HASH_ID(id) \in Slot
BY Sizes DEF HASH_ID, Slot

LEMMA IdIsNat == Id \subseteq Nat /\ 0 \notin Id /\ Id \union {0} \subseteq Nat
BY DEF Id

LEMMA TagIsNat == \A id \in Nat : ID_TAG16(id) \in Nat
BY Sizes DEF ID_TAG16

LEMMA HashAndTag == \A i, j \in Nat : HASH_ID(i) = HASH_ID(j) /\ ID_TAG16(i) = ID_TAG16(j) => i = j
BY Sizes DEF HASH_ID, ID_TAG16

LEMMA NoneIsNot == None \notin Slot /\ None \notin Client
                   /\ None \notin Forces
BY SocketAssumption DEF Slot, Forces

-------------------------------------------------------------------------------
(***************************************************************************)
(* A step of the socket thread gives one slot a new value and is of one of *)
(* six kinds, whatever the request or the event is.                        *)
(***************************************************************************)
Full(k) == k.high > 0 \/ k.low > 0 \/ k.dw
Needs(k) == Registered(k) /\ k.type # "halfwrite" /\ Full(k)
SameId(k, r) == r.id = k.id /\ r.tcp = k.tcp /\ r.tag = k.tag
Takes(ops) == pipe # <<>> /\ Head(pipe).op \in ops /\ pipe' = Tail(pipe)

\* The type stays, or the slot has a descriptor before and after.
Quiet(s, r) ==
  /\ SameId(slot[s], r) /\ r.sending = slot[s].sending
  /\ \/ r.type = slot[s].type
     \/ Registered(slot[s]) /\ Registered(r)
     \/ s \in taken'
     \/ aborted' # "no"
  /\ pipe' = pipe \/ Takes(OtherOp)
  /\ alloc_id' = alloc_id
  /\ told' = told \/ (Registered(slot[s]) /\ told' = [told EXCEPT ![slot[s].id] = "open"])

\* The socket is closed.
Shuts(s, r) ==
  /\ SameId(slot[s], r) /\ r.sending = slot[s].sending
  /\ Registered(slot[s]) /\ lock[s] = None /\ r.type = "invalid"
  /\ pipe' = pipe /\ alloc_id' = alloc_id /\ told' = told

\* A request to open a socket fails, or opens it.
Fails(s, r) ==
  /\ SameId(slot[s], r) /\ r.sending = slot[s].sending
  /\ Takes(OpenOp) /\ s = HASH_ID(Head(pipe).id)
  /\ r.type = "invalid"
  /\ alloc_id' = alloc_id /\ told' = told
NewSocket(r, id) == r.id = id /\ r.tcp /\ r.tag = ID_TAG16(id) /\ r.sending = 0 /\ Registered(r)
Succeeds(s, r) ==
  /\ Takes(OpenOp) /\ s = HASH_ID(Head(pipe).id)
  /\ NewSocket(r, Head(pipe).id)
  /\ aborted' = "no" => slot[s].type = "reserve"
  /\ alloc_id' = alloc_id
  /\ told' = told \/ told' = [told EXCEPT ![Head(pipe).id] = "open"]

\* A connection is accepted, or epoll refuses it.
Accepts(s, r) ==
  /\ alloc_id' \in Id /\ alloc_id' > alloc_id
  /\ s = HASH_ID(alloc_id') /\ slot[s].type = "invalid"
  /\ \/ NewSocket(r, alloc_id')
     \/ r.id = alloc_id' /\ ~r.tcp /\ r.type = "invalid"
  /\ pipe' = pipe
  /\ told' = told \/ told' = [told EXCEPT ![alloc_id'] = "id"]

\* A package comes.
Discounts(s, r) ==
  /\ Takes(SendOp) /\ s = HASH_ID(Head(pipe).id)
  /\ SameId(slot[s], r) /\ r.type = slot[s].type
  /\ IF slot[s].id = Head(pipe).id /\ slot[s].tcp
       THEN \/ slot[s].sending # 0 /\ r.sending = slot[s].sending - 1
            \/ slot[s].sending = 0 /\ aborted' = "sending"
       ELSE r.sending = slot[s].sending
  /\ aborted' = "no" \/ (slot[s].id = Head(pipe).id /\ slot[s].tcp /\ slot[s].sending = 0)
  /\ alloc_id' = alloc_id /\ told' = told

\* What the slot's buffers need, for NoLostWrite.
Cares(s, r) ==
  /\ \A t \in Slot : Busy(force, t) => t = s
  /\ \/ pipe' = pipe
     \/ /\ pipe # <<>> /\ pipe' = Tail(pipe)
        /\ Head(pipe).op = "W" => /\ s = HASH_ID(Head(pipe).id)
                                  /\ Needs(r) => r.writing \/ Head(pipe).id # r.id
  /\ aborted' = "no" /\ s \notin taken' /\ Needs(r) /\ ~Busy(force', s) =>
       \/ r.writing
       \/ Needs(slot[s]) /\ r.id = slot[s].id /\ (slot[s].writing => r.writing) /\ ~Busy(force, s)

Kinds(s, r) == \/ Quiet(s, r) \/ Shuts(s, r) \/ Fails(s, r) \/ Succeeds(s, r)
               \/ Accepts(s, r) \/ Discounts(s, r)
Moves(s, r) == /\ slot' = [slot EXCEPT ![s] = r]
               /\ r.id # 0 => HASH_ID(r.id) = s
               /\ UNCHANGED <<lock, client>>
               /\ taken \subseteq taken' /\ taken' \subseteq Slot
               /\ aborted' = "sending" => Discounts(s, r)
               /\ Cares(s, r) /\ Kinds(s, r)
Move == \E s \in Slot, r \in Socket : Moves(s, r)


LEMMA SocketIs ==
  ASSUME NEW k \in Socket
  PROVE  /\ k.type \in Type /\ k.id \in Id \union {0} /\ k.id \in Nat /\ k.tcp \in BOOLEAN /\ k.tag \in Nat
         /\ k.sending \in Nat /\ k.closing \in BOOLEAN /\ k.reading \in BOOLEAN
         /\ k.writing \in BOOLEAN /\ k.high \in Nat /\ k.low \in Nat /\ k.dw \in BOOLEAN
BY IdIsNat DEF Socket

LEMMA SlotIdBound ==
  ASSUME NEW k \in Socket
  PROVE  k.id \in 0 .. MaxId
<1>1. k.id \in Id \union {0}
  BY SocketIs
<1>2. MaxId \in Nat
  BY SocketAssumption
<1> QED BY <1>1, <1>2 DEF Id

LEMMA RequestIs ==
  ASSUME Types, pipe # <<>>
  PROVE  /\ Head(pipe) \in Requests /\ Head(pipe).id \in Id /\ Head(pipe).id \in Nat
         /\ Head(pipe).op \in Op /\ Head(pipe).counted \in BOOLEAN
         /\ HASH_ID(Head(pipe).id) \in Slot
         /\ slot[HASH_ID(Head(pipe).id)] \in Socket
         /\ Tail(pipe) \in Seq(Requests) /\ Len(Tail(pipe)) = Len(pipe) - 1
         /\ Head(pipe) = pipe[1] /\ Len(pipe) > 0
<1>1. pipe \in Seq(Requests) /\ Len(pipe) > 0
  BY EmptySeq, LenProperties DEF Types
<1>2. Head(pipe) \in Requests /\ Tail(pipe) \in Seq(Requests) /\ Len(Tail(pipe)) = Len(pipe) - 1
      /\ Head(pipe) = pipe[1]
  BY <1>1
<1>3. /\ Head(pipe).id \in Id /\ Head(pipe).id \in Nat /\ Head(pipe).op \in Op
      /\ Head(pipe).counted \in BOOLEAN
  BY <1>2, IdIsNat DEF Requests
<1>4. HASH_ID(Head(pipe).id) \in Slot
  BY <1>3, HashInSlot
<1> QED BY <1>1, <1>2, <1>3, <1>4 DEF Types

\* A step that leaves the slots alone.
LEMMA SameSlots ==
  ASSUME Types, NEW s \in Slot, slot' = slot
  PROVE  /\ slot[s] \in Socket /\ slot' = [slot EXCEPT ![s] = slot[s]]
         /\ (slot[s].id # 0 => HASH_ID(slot[s].id) = s) /\ SameId(slot[s], slot[s])
BY DEF Types, SameId

\* How a socket is opened.
LEMMA NewFdIs ==
  ASSUME NEW k \in Socket, NEW id \in Id, NEW type \in Type, NEW reading \in BOOLEAN,
         NEW r, r = NewFd(k, id, type, reading)
  PROVE  /\ r \in Socket /\ r.id = id /\ r.tcp /\ r.tag = ID_TAG16(id) /\ r.sending = 0
         /\ r.type = type /\ r.high = k.high /\ r.low = k.low /\ ~r.dw
<1>1. ID_TAG16(id) \in Nat
  BY IdIsNat, TagIsNat
<1> QED BY <1>1, SocketIs DEF NewFd, Socket

LEMMA OpenMoves ==
  ASSUME Types, aborted = "no", OpenSocket \/ ListenSocket
  PROVE  Move
<1> DEFINE id == Head(pipe).id
<1> DEFINE s == HASH_ID(id)
<1>1. /\ pipe # <<>> /\ force = None /\ Takes(OpenOp) /\ pipe' = Tail(pipe)
      /\ Head(pipe).op # "W" /\ UNCHANGED <<alloc_id, lock, client, taken>>
  BY DEF OpenSocket, ListenSocket, Take, Takes, OpenOp, poll, client
<1>2. id \in Id /\ s \in Slot /\ slot[s] \in Socket
  BY <1>1, RequestIs
<1>3. taken \subseteq taken' /\ taken' \subseteq Slot /\ UNCHANGED <<lock, client>>
  BY <1>1 DEF Types
<1>4. CASE SetTarget([Target EXCEPT !.type = "invalid"]) /\ UNCHANGED <<told, aborted>>
  <2>1. PICK r : r = [slot[s] EXCEPT !.type = "invalid"]
    OBVIOUS
  <2>2. r \in Socket /\ SameId(slot[s], r) /\ r.sending = slot[s].sending /\ r.type = "invalid"
    BY <2>1, <1>2 DEF Socket, SameId, Type
  <2>3. slot' = [slot EXCEPT ![s] = r]
    BY <1>4, <2>1 DEF SetTarget, Target, Req
  <2>4. Fails(s, r)
    BY <1>1, <1>4, <2>2 DEF Fails
  <2>5. r.id # 0 => HASH_ID(r.id) = s
    BY <1>2, <2>2 DEF Types, SameId
  <2>6. Cares(s, r)
    BY <1>1, <2>2 DEF Cares, Busy, Needs, Registered
  <2>7. Moves(s, r)
    BY <1>3, <1>4, <2>3, <2>4, <2>5, <2>6 DEF Moves, Kinds
  <2> QED BY <1>2, <2>2, <2>7 DEF Move
<1>5. ASSUME NEW r \in Socket, SetTarget(r), NewSocket(r, id), aborted' = NewFdAsserts(Target),
             r.high = slot[s].high, r.low = slot[s].low, ~r.dw,
             told' = told \/ told' = [told EXCEPT ![id] = "open"]
      PROVE  Move
  <2>1. slot' = [slot EXCEPT ![s] = r]
    BY <1>5 DEF SetTarget, Req
  <2>2. aborted' = "no" => slot[s].type = "reserve" /\ SendBufferEmpty(slot[s])
    BY <1>5 DEF NewFdAsserts, Asserted, Target, Req
  <2>3. aborted' # "sending"
    BY <1>5 DEF NewFdAsserts, Asserted
  <2>4. Succeeds(s, r)
    BY <1>1, <1>5, <2>2 DEF Succeeds
  <2>5. r.id # 0 => HASH_ID(r.id) = s
    BY <1>5 DEF NewSocket
  <2>6. aborted' = "no" => ~Full(r)
    BY <1>5, <2>2, SocketIs DEF SendBufferEmpty, Full
  <2>7. Cares(s, r)
    BY <1>1, <2>6 DEF Cares, Busy, Needs
  <2>8. Moves(s, r)
    BY <1>3, <2>1, <2>3, <2>4, <2>5, <2>7 DEF Moves, Kinds
  <2> QED BY <1>2, <2>8 DEF Move
<1>6. ASSUME NEW type \in {"connected", "plisten"}, NEW reading \in BOOLEAN,
             SetTarget(NewFd(Target, Req, type, reading)), aborted' = NewFdAsserts(Target),
             told' = told \/ told' = [told EXCEPT ![id] = "open"]
      PROVE  Move
  <2>1. PICK r : r = NewFd(slot[s], id, type, reading)
    OBVIOUS
  <2>2. type \in Type
    BY DEF Type
  <2>3. /\ r \in Socket /\ r.id = id /\ r.tcp /\ r.tag = ID_TAG16(id) /\ r.sending = 0
        /\ r.type = type /\ r.high = slot[s].high /\ r.low = slot[s].low /\ ~r.dw
    BY <1>2, <2>1, <2>2, NewFdIs
  <2>4. NewSocket(r, id)
    BY <2>3 DEF NewSocket, Registered
  <2>5. SetTarget(r)
    BY <1>6, <2>1 DEF Target, Req
  <2> QED BY <1>5, <1>6, <2>3, <2>4, <2>5
<1>7. ASSUME SetTarget([NewFd(Target, Req, "connecting", TRUE) EXCEPT !.writing = TRUE]),
             aborted' = NewFdAsserts(Target), told' = told
      PROVE  Move
  <2>1. PICK n : n = NewFd(slot[s], id, "connecting", TRUE)
    OBVIOUS
  <2>2. "connecting" \in Type
    BY DEF Type
  <2>3. /\ n \in Socket /\ n.id = id /\ n.tcp /\ n.tag = ID_TAG16(id) /\ n.sending = 0
        /\ n.type = "connecting" /\ n.high = slot[s].high /\ n.low = slot[s].low /\ ~n.dw
    BY <1>2, <2>1, <2>2, IdIsNat, TagIsNat, SocketIs DEF NewFd, Socket
  <2>4. PICK r : r = [n EXCEPT !.writing = TRUE]
    OBVIOUS
  <2>5. /\ r \in Socket /\ r.id = id /\ r.tcp /\ r.tag = ID_TAG16(id) /\ r.sending = 0
        /\ r.type = "connecting" /\ r.high = slot[s].high /\ r.low = slot[s].low /\ ~r.dw
    BY <2>3, <2>4 DEF Socket
  <2>6. NewSocket(r, id)
    BY <2>5 DEF NewSocket, Registered
  <2>7. SetTarget(r)
    BY <1>7, <2>1, <2>4 DEF Target, Req
  <2> QED BY <1>5, <1>7, <2>5, <2>6, <2>7
<1>8. CASE OpenSocket
  BY <1>4, <1>6, <1>7, <1>8 DEF OpenSocket, RaiseOpen, Req
<1>9. CASE ListenSocket
  BY <1>4, <1>6, <1>9 DEF ListenSocket, RaiseOpen, Req
<1> QED BY <1>8, <1>9


\* A request that changes no more of its slot than a quiet step does.
LEMMA QuietRequest ==
  ASSUME Types, aborted = "no", Takes(OtherOp), force = None, NEW r \in Socket,
         SetTarget(r), SameId(Target, r), r.sending = Target.sending,
         \/ r.type = Target.type
         \/ Registered(Target) /\ Registered(r)
         \/ HASH_ID(Req) \in taken'
         \/ aborted' # "no",
         Head(pipe).op = "W" => (Needs(r) => r.writing \/ Req # r.id),
         aborted' = "no" /\ HASH_ID(Req) \notin taken' /\ Needs(r)
           /\ ~Busy(force', HASH_ID(Req)) =>
           r.writing \/ (Needs(Target) /\ (Target.writing => r.writing)),
         UNCHANGED <<lock, client, alloc_id>>, aborted' # "sending",
         taken \subseteq taken', taken' \subseteq Slot,
         told' = told \/ (Registered(Target) /\ told' = [told EXCEPT ![Target.id] = "open"])
  PROVE  Move
<1> DEFINE s == HASH_ID(Head(pipe).id)
<1>1. pipe # <<>> /\ pipe' = Tail(pipe)
  BY DEF Takes
<1>2. s \in Slot /\ slot[s] \in Socket
  BY <1>1, RequestIs
<1>3. Quiet(s, r)
  BY DEF Quiet, Target, Req
<1>4. Cares(s, r)
  BY <1>1 DEF Cares, Busy, Target, Req, SameId
<1>5. slot' = [slot EXCEPT ![s] = r]
  BY DEF SetTarget, Req
<1>6. r.id # 0 => HASH_ID(r.id) = s
  BY <1>2 DEF Types, SameId, Target, Req
<1>7. Moves(s, r)
  BY <1>3, <1>4, <1>5, <1>6 DEF Moves, Kinds
<1> QED BY <1>2, <1>7 DEF Move

LEMMA ResumeMoves ==
  ASSUME Types, aborted = "no", ResumeSocket
  PROVE  Move
<1>1. /\ pipe # <<>> /\ force = None /\ Takes(OtherOp) /\ Head(pipe).op # "W"
      /\ UNCHANGED <<alloc_id, lock, client, taken, aborted>>
  BY DEF ResumeSocket, Take, Takes, OtherOp, poll, client
<1>2. HASH_ID(Req) \in Slot /\ Target \in Socket
  BY <1>1, RequestIs DEF Req, Target
<1>3. taken \subseteq taken' /\ taken' \subseteq Slot
  BY <1>1 DEF Types
<1>4. PICK r : r = IF SocketInvalid(Target, Req) \/ HalfcloseRead(Target) THEN Target
                   ELSE [Target EXCEPT !.reading = TRUE,
                                       !.type = IF Resumes(Target, Req) THEN Resumed(@) ELSE @]
  OBVIOUS
<1>5. SetTarget(r)
  BY <1>2, <1>4 DEF ResumeSocket, SetTarget, Target, Types
<1>6. Resumed(Target.type) \in Type
  BY <1>2, SocketIs DEF Resumed, Type
<1>7. /\ r \in Socket /\ SameId(Target, r) /\ r.sending = Target.sending
      /\ r.writing = Target.writing /\ Full(r) = Full(Target)
      /\ r.type = Target.type \/ (r.type = Resumed(Target.type) /\ Resumes(Target, Req))
  BY <1>2, <1>4, <1>6 DEF Socket, SameId, Full
<1>8. /\ r.type = Target.type \/ (Registered(Target) /\ Registered(r))
      /\ Needs(r) => Needs(Target)
  BY <1>2, <1>7, SocketIs DEF Resumed, Registered, Needs, Type
<1>9. told' = told \/ (Registered(Target) /\ told' = [told EXCEPT ![Target.id] = "open"])
  <2>1. CASE Resumes(Target, Req) /\ Resumed(Target.type) \in {"connected", "listen"}
    BY <1>2, <2>1, SocketIs
    DEF ResumeSocket, RaiseOpen, Resumes, SocketInvalid, Resumed, Registered, Type
  <2>2. CASE ~(Resumes(Target, Req) /\ Resumed(Target.type) \in {"connected", "listen"})
    BY <2>2 DEF ResumeSocket
  <2> QED BY <2>1, <2>2
<1> QED BY <1>1, <1>3, <1>5, <1>7, <1>8, <1>9, QuietRequest

LEMMA PauseMoves ==
  ASSUME Types, aborted = "no", PauseSocket \/ TriggerWrite
  PROVE  Move
<1>1. /\ pipe # <<>> /\ force = None /\ Takes(OtherOp)
      /\ UNCHANGED <<alloc_id, lock, client, taken, force, aborted, told>>
  BY DEF PauseSocket, TriggerWrite, Take, Takes, OtherOp, poll, client
<1>2. HASH_ID(Req) \in Slot /\ Target \in Socket
  BY <1>1, RequestIs DEF Req, Target
<1>3. taken \subseteq taken' /\ taken' \subseteq Slot
  BY <1>1 DEF Types
<1>4. CASE PauseSocket
  <2>1. PICK r : r = IF SocketInvalid(Target, Req) THEN Target ELSE [Target EXCEPT !.reading = FALSE]
    OBVIOUS
  <2>2. SetTarget(r)
    BY <1>2, <1>4, <2>1 DEF PauseSocket, SetTarget, Target, Types
  <2>3. /\ r \in Socket /\ SameId(Target, r) /\ r.sending = Target.sending
        /\ r.writing = Target.writing /\ Full(r) = Full(Target) /\ r.type = Target.type
    BY <1>2, <2>1 DEF Socket, SameId, Full
  <2>4. Needs(r) => Needs(Target)
    BY <2>3 DEF Needs, Registered
  <2>5. Head(pipe).op # "W"
    BY <1>4 DEF PauseSocket, Take
  <2> QED BY <1>1, <1>3, <2>2, <2>3, <2>4, <2>5, QuietRequest
<1>5. CASE TriggerWrite
  <2>1. PICK r : r = IF SocketInvalid(Target, Req) THEN Target ELSE [Target EXCEPT !.writing = TRUE]
    OBVIOUS
  <2>2. SetTarget(r)
    BY <1>2, <1>5, <2>1 DEF TriggerWrite, SetTarget, Target, Types
  <2>3. /\ r \in Socket /\ SameId(Target, r) /\ r.sending = Target.sending
        /\ (Target.writing => r.writing) /\ Full(r) = Full(Target) /\ r.type = Target.type
        /\ ~SocketInvalid(Target, Req) => r.writing
    BY <1>2, <2>1 DEF Socket, SameId, Full
  <2>4. /\ Needs(r) => Needs(Target)
        /\ Needs(r) => r.writing \/ Req # r.id
    BY <2>3 DEF Needs, Registered, SocketInvalid, SameId
  <2> QED BY <1>1, <1>3, <2>2, <2>3, <2>4, QuietRequest
<1> QED BY <1>4, <1>5


LEMMA AppendedIs ==
  ASSUME NEW k \in Socket, NEW op, NEW r, r = Appended(k, op)
  PROVE  /\ r \in Socket /\ SameId(k, r) /\ r.type = k.type /\ r.sending = k.sending
         /\ r.dw = k.dw /\ (k.writing => r.writing)
         /\ r.writing \/ Full(k)
<1>1. k.high \in Nat /\ k.low \in Nat
  BY SocketIs
<1>2. CASE SendBufferEmpty(k)
  <2>1. r = [k EXCEPT !.high = 1, !.writing = TRUE]
    BY <1>2 DEF Appended
  <2>2. r \in Socket
    <3>1. PICK m : m = [k EXCEPT !.high = 1]
      OBVIOUS
    <3>2. m \in Socket
      BY <3>1 DEF Socket
    <3>3. r = [m EXCEPT !.writing = TRUE]
      BY <2>1, <3>1 DEF Socket
    <3> QED BY <3>2, <3>3 DEF Socket
  <2>3. SameId(k, r) /\ r.type = k.type /\ r.sending = k.sending /\ r.dw = k.dw
    BY <2>1 DEF Socket, SameId
  <2>4. r.writing
    BY <2>1 DEF Socket
  <2> QED BY <2>2, <2>3, <2>4
<1>3. CASE ~SendBufferEmpty(k)
  <2>1. PICK h \in Nat : h = k.high + 1
    BY <1>1
  <2>2. PICK l \in Nat : l = k.low + 1
    BY <1>1
  <2>3. r = [k EXCEPT !.low = l] \/ r = [k EXCEPT !.high = h]
    BY <1>3, <2>1, <2>2 DEF Appended
  <2>4. r \in Socket /\ SameId(k, r) /\ r.type = k.type /\ r.sending = k.sending
        /\ r.dw = k.dw /\ (k.writing => r.writing)
    BY <2>3 DEF Socket, SameId
  <2>5. Full(k)
    BY <1>1, <1>3 DEF SendBufferEmpty, Full
  <2> QED BY <2>4, <2>5
<1> QED BY <1>2, <1>3

LEMMA SendMoves ==
  ASSUME Types, aborted = "no", NEW op \in SendOp, SendSocket(op)
  PROVE  Move
<1> DEFINE id == Head(pipe).id
<1> DEFINE s == HASH_ID(id)
<1>1. /\ pipe # <<>> /\ force = None /\ Takes(SendOp) /\ pipe' = Tail(pipe) /\ Head(pipe).op # "W"
      /\ UNCHANGED <<alloc_id, lock, client, taken, force, told>>
  BY DEF SendSocket, Take, Takes, SendOp, poll, client
<1>2. id \in Id /\ s \in Slot /\ slot[s] \in Socket
  BY <1>1, RequestIs
<1>3. taken \subseteq taken' /\ taken' \subseteq Slot /\ UNCHANGED <<lock, client>>
  BY <1>1 DEF Types
<1>4. PICK k : k = IF Drops(slot[s], id) THEN slot[s] ELSE Appended(slot[s], op)
  OBVIOUS
<1>5. /\ k \in Socket /\ SameId(slot[s], k) /\ k.type = slot[s].type /\ k.sending = slot[s].sending
      /\ k.dw = slot[s].dw /\ (slot[s].writing => k.writing)
      /\ k = slot[s] \/ k.writing \/ Full(slot[s])
  <2>1. CASE Drops(slot[s], id)
    BY <1>2, <1>4, <2>1 DEF SameId
  <2>2. CASE ~Drops(slot[s], id)
    <3>1. k = Appended(slot[s], op)
      BY <1>4, <2>2
    <3> QED BY <1>2, <3>1, AppendedIs
  <2> QED BY <2>1, <2>2
<1>6. PICK r : r = IF (k.id = id /\ k.tcp) /\ k.sending # 0 THEN [k EXCEPT !.sending = @ - 1] ELSE k
  OBVIOUS
<1>7. /\ slot' = [slot EXCEPT ![s] = r]
      /\ aborted' = Asserted(k.id = id /\ k.tcp => k.sending # 0, "sending")
  BY <1>4, <1>6 DEF SendSocket, SetTarget, Target, Req
<1>8. /\ r \in Socket /\ SameId(k, r) /\ r.type = k.type /\ r.writing = k.writing
      /\ Full(r) = Full(k)
      /\ IF k.id = id /\ k.tcp /\ k.sending # 0 THEN r.sending = k.sending - 1 ELSE r.sending = k.sending
  BY <1>5, <1>6, SocketIs DEF Socket, SameId, Full
<1>9. aborted' = IF k.id = id /\ k.tcp /\ k.sending = 0 THEN "sending" ELSE "no"
  BY <1>7 DEF Asserted
<1>10. Discounts(s, r)
  BY <1>1, <1>5, <1>8, <1>9 DEF Discounts, SameId
<1>11. Cares(s, r)
  <2>1. SameId(slot[s], r) /\ (slot[s].writing => r.writing)
    BY <1>5, <1>8 DEF SameId
  <2>2. Needs(r) => r.writing \/ Needs(slot[s])
    BY <1>5, <1>8 DEF Needs, Registered
  <2> QED BY <1>1, <2>1, <2>2 DEF Cares, Busy, SameId
<1>12. r.id # 0 => HASH_ID(r.id) = s
  BY <1>2, <1>5, <1>8 DEF SameId, Types
<1>13. Moves(s, r)
  BY <1>3, <1>7, <1>10, <1>11, <1>12 DEF Moves, Kinds
<1> QED BY <1>2, <1>8, <1>13 DEF Move

LEMMA CloseMoves ==
  ASSUME Types, aborted = "no", NEW op \in {"K", "shutdown"},
         CloseNow(op) \/ CloseLater(op) \/ CloseIgnored(op)
  PROVE  Move
<1>1. /\ pipe # <<>> /\ force = None /\ Takes(OtherOp) /\ Head(pipe).op # "W"
      /\ UNCHANGED <<alloc_id, lock, client, told>>
  BY DEF CloseNow, CloseLater, CloseIgnored, Take, Takes, OtherOp, poll, client, socket
<1>2. HASH_ID(Req) \in Slot /\ Target \in Socket
  BY <1>1, RequestIs DEF Req, Target
<1>3. CASE CloseNow(op)
  <2>1. PICK r : r = [Target EXCEPT !.high = 0, !.low = 0]
    OBVIOUS
  <2>2. /\ aborted' = Asserted(Target.type # "reserve", "reserved")
        /\ slot' = [slot EXCEPT ![HASH_ID(Req)].high = 0, ![HASH_ID(Req)].low = 0]
        /\ force' = [slot |-> HASH_ID(Req), id |-> Target.id, closed |-> FALSE,
                     clear |-> ~HalfcloseRead(Target), raise |-> ~HalfcloseRead(Target)]
        /\ UNCHANGED taken
    BY <1>3 DEF CloseNow, ForceClose, Target
  <2>3. SetTarget(r)
    BY <1>2, <2>1, <2>2 DEF SetTarget, Target, Types
  <2>4. r \in Socket /\ SameId(Target, r) /\ r.sending = Target.sending /\ r.type = Target.type
    BY <1>2, <2>1 DEF Socket, SameId
  <2>5. aborted' # "sending"
    BY <2>2 DEF Asserted
  <2>6. Busy(force', HASH_ID(Req))
    <3>1. PICK b \in BOOLEAN : force' = [slot |-> HASH_ID(Req), id |-> Target.id, closed |-> FALSE,
                                         clear |-> b, raise |-> b]
      BY <2>2
    <3>2. Target.id \in 0 .. MaxId
      BY <1>2, SlotIdBound DEF Target
    <3>3. force' \in Forces /\ ~force'.closed /\ force'.slot = HASH_ID(Req)
      BY <1>2, <3>1, <3>2 DEF Forces
    <3> QED BY <3>3, NoneIsNot DEF Busy
  <2>7. taken \subseteq taken' /\ taken' \subseteq Slot
    BY <2>2 DEF Types
  <2> QED BY <1>1, <2>3, <2>4, <2>5, <2>6, <2>7, QuietRequest
<1>4. CASE CloseLater(op)
  <2>1. PICK k : k = IF HalfcloseRead(Target) THEN Target ELSE ReadClosed(Target)
    OBVIOUS
  <2>2. PICK r : r = [k EXCEPT !.closing = TRUE]
    OBVIOUS
  <2>3. SetTarget(r) /\ UNCHANGED <<aborted, force>> /\ Overtakes(HASH_ID(Req), Target)
    BY <1>4, <2>1, <2>2 DEF CloseLater, poll
  <2>4. /\ r \in Socket /\ SameId(Target, r) /\ r.sending = Target.sending
        /\ r.type = "halfread" /\ r.writing = Target.writing /\ Full(r) = Full(Target)
    BY <1>2, <2>1, <2>2 DEF Socket, SameId, Full, ReadClosed, Type, HalfcloseRead
  <2>5. /\ taken \subseteq taken' /\ taken' \subseteq Slot
        /\ Target.type # "reserve" \/ HASH_ID(Req) \in taken'
    BY <1>2, <2>3 DEF Types, Overtakes
  <2>6. Target.type # "invalid" /\ Target.type # "halfwrite"
    BY <1>4 DEF CloseLater, SocketInvalid, NomoreSendingData
  <2>7. (Registered(Target) /\ Registered(r)) \/ HASH_ID(Req) \in taken'
    BY <2>4, <2>5, <2>6 DEF Registered
  <2>8. HASH_ID(Req) \notin taken' /\ Needs(r) => Needs(Target)
    BY <2>4, <2>6, <2>7 DEF Needs
  <2> QED BY <1>1, <2>3, <2>4, <2>5, <2>7, <2>8, QuietRequest
<1>5. CASE CloseIgnored(op)
  <2>1. SetTarget(Target) /\ SameId(Target, Target) /\ UNCHANGED <<aborted, force, taken>>
    BY <1>2, <1>5 DEF CloseIgnored, SetTarget, Target, SameId, socket, poll, Types
  <2>2. taken \subseteq taken' /\ taken' \subseteq Slot
    BY <2>1 DEF Types
  <2> QED BY <1>1, <1>2, <2>1, <2>2, QuietRequest
<1> QED BY <1>3, <1>4, <1>5

LEMMA CtrlMoves ==
  ASSUME Types, CtrlCmd
  PROVE  Move
BY OpenMoves, ResumeMoves, PauseMoves, SendMoves, CloseMoves DEF CtrlCmd, SendOp

LEMMA FinishMoves ==
  ASSUME Types, Closing, FinishClose
  PROVE  Move
<1> DEFINE s == force.slot
<1>1. s \in Slot /\ slot[s] \in Socket
  BY DEF FinishClose, Types, Forces
<1>2. PICK r : r = Closed(slot[s])
  OBVIOUS
<1>3. /\ slot' = [slot EXCEPT ![s] = r] /\ lock[s] = None /\ Busy(force, s)
      /\ UNCHANGED <<alloc_id, lock, pipe, told, taken, client, aborted>> /\ aborted = "no"
      /\ Registered(slot[s])
  BY <1>1, <1>2 DEF FinishClose, Closing, Busy
<1>4. r \in Socket /\ SameId(slot[s], r) /\ r.sending = slot[s].sending /\ r.type = "invalid"
  BY <1>1, <1>2 DEF Closed, Socket, SameId, Type
<1>5. Shuts(s, r)
  BY <1>3, <1>4 DEF Shuts
<1>6. Cares(s, r)
  BY <1>3, <1>4 DEF Cares, Busy, Needs, Registered
<1>7. r.id # 0 => HASH_ID(r.id) = s
  BY <1>1, <1>4 DEF SameId, Types
<1>8. UNCHANGED <<lock, client>> /\ taken \subseteq taken' /\ taken' \subseteq Slot
  BY <1>3 DEF Types, client
<1>9. Moves(s, r)
  BY <1>3, <1>5, <1>6, <1>7, <1>8 DEF Moves, Kinds
<1> QED BY <1>1, <1>4, <1>9 DEF Move

LEMMA ClearMoves ==
  ASSUME Types, ClearClosedEvent
  PROVE  Move
<1> DEFINE s == force.slot
<1>1. /\ s \in Slot /\ aborted = "no" /\ ~Busy(force, s) /\ (\A t \in Slot : ~Busy(force, t))
      /\ UNCHANGED <<slot, lock, client, alloc_id, pipe, told, taken, aborted>>
  BY DEF ClearClosedEvent, Types, Forces, Busy, socket
<1>2. /\ slot[s] \in Socket /\ slot' = [slot EXCEPT ![s] = slot[s]] /\ SameId(slot[s], slot[s])
      /\ (slot[s].id # 0 => HASH_ID(slot[s].id) = s)
  BY <1>1, SameSlots
<1>3. PICK r \in Socket : r = slot[s]
  BY <1>2
<1>4. Quiet(s, r)
  BY <1>1, <1>2, <1>3 DEF Quiet
<1>5. Cares(s, r)
  BY <1>1, <1>3 DEF Cares
<1>6. taken \subseteq taken' /\ taken' \subseteq Slot
  BY <1>1 DEF Types
<1>7. Moves(s, r)
  BY <1>1, <1>2, <1>3, <1>4, <1>5, <1>6 DEF Moves, Kinds
<1> QED BY <1>1, <1>7 DEF Move


\* The same for events: what a quiet step may change, ForceClose, and nothing at all.
LEMMA QuietEvent ==
  ASSUME Types, aborted = "no", force = None, NEW s \in Slot, NEW r \in Socket,
         slot' = [slot EXCEPT ![s] = r], SameId(slot[s], r), r.sending = slot[s].sending,
         \/ r.type = slot[s].type
         \/ Registered(slot[s]) /\ Registered(r)
         \/ s \in taken'
         \/ aborted' # "no",
         aborted' = "no" /\ s \notin taken' /\ Needs(r) /\ ~Busy(force', s) =>
           r.writing \/ (Needs(slot[s]) /\ (slot[s].writing => r.writing)),
         UNCHANGED <<lock, client, alloc_id, pipe>>, aborted' # "sending",
         taken \subseteq taken', taken' \subseteq Slot,
         told' = told \/ (Registered(slot[s]) /\ told' = [told EXCEPT ![slot[s].id] = "open"])
  PROVE  Move
<1>1. Quiet(s, r)
  BY DEF Quiet
<1>2. Cares(s, r)
  BY DEF Cares, Busy, SameId
<1>3. r.id # 0 => HASH_ID(r.id) = s
  BY DEF Types, SameId
<1>4. Moves(s, r)
  BY <1>1, <1>2, <1>3 DEF Moves, Kinds
<1> QED BY <1>4 DEF Move

LEMMA ForceMoves ==
  ASSUME Types, aborted = "no", force = None, NEW s \in Slot,
         NEW clear \in BOOLEAN, NEW raise \in BOOLEAN, ForceClose(s, clear, raise),
         UNCHANGED <<lock, client, alloc_id, pipe, told, taken>>
  PROVE  Move
<1>1. slot[s] \in Socket
  BY DEF Types
<1>2. PICK r : r = [slot[s] EXCEPT !.high = 0, !.low = 0]
  OBVIOUS
<1>3. /\ aborted' # "sending" /\ slot' = [slot EXCEPT ![s] = r]
      /\ force' = [slot |-> s, id |-> slot[s].id, closed |-> FALSE, clear |-> clear, raise |-> raise]
  BY <1>2 DEF ForceClose, Asserted, Types
<1>4. r \in Socket /\ SameId(slot[s], r) /\ r.sending = slot[s].sending /\ r.type = slot[s].type
  BY <1>1, <1>2 DEF Socket, SameId
<1>5. Busy(force', s)
  <2>1. slot[s].id \in 0 .. MaxId
    BY <1>1, SlotIdBound
  <2>2. force' \in Forces /\ ~force'.closed /\ force'.slot = s
    BY <1>3, <2>1 DEF Forces
  <2> QED BY <2>2, NoneIsNot DEF Busy
<1>6. taken \subseteq taken' /\ taken' \subseteq Slot
  BY DEF Types
<1> QED BY <1>3, <1>4, <1>5, <1>6, QuietEvent

LEMMA StillMoves ==
  ASSUME Types, aborted = "no", force = None, aborted' # "sending",
         UNCHANGED <<slot, lock, client, alloc_id, pipe, told, taken, force>>
  PROVE  Move
<1>1. /\ slot[0] \in Socket /\ slot' = [slot EXCEPT ![0] = slot[0]] /\ SameId(slot[0], slot[0])
  BY Sizes, SameSlots
<1>2. taken \subseteq taken' /\ taken' \subseteq Slot
  BY DEF Types
<1> QED BY <1>1, <1>2, Sizes, QuietEvent

LEMMA ConnectMoves ==
  ASSUME Types, aborted = "no", force = None, NEW e \in Events, NEW rest, ReportConnect(e, rest)
  PROVE  Move
<1> DEFINE s == e.slot
<1>1. s \in Slot /\ slot[s] \in Socket /\ slot[s].type = "connecting"
      /\ UNCHANGED <<alloc_id, lock, pipe, taken, client>>
  BY DEF ReportConnect, Events, Types
<1>2. CASE ForceClose(e.slot, FALSE, FALSE) /\ UNCHANGED told
  BY <1>1, <1>2, ForceMoves
<1>3. CASE /\ slot' = [slot EXCEPT ![e.slot].type = "connected",
                                   ![e.slot].writing = @ /\ ~NomoreSendingData(slot[e.slot])]
           /\ RaiseOpen(slot[e.slot].id)
           /\ UNCHANGED <<force, aborted>>
  <2>1. PICK w \in BOOLEAN : w = (slot[s].writing /\ ~NomoreSendingData(slot[s]))
    OBVIOUS
  <2>2. PICK r : r = [slot[s] EXCEPT !.type = "connected",
                                     !.writing = @ /\ ~NomoreSendingData(slot[s])]
    OBVIOUS
  <2>3. slot' = [slot EXCEPT ![s] = r]
    BY <1>1, <1>3, <2>2 DEF Types
  <2>4. /\ r \in Socket /\ SameId(slot[s], r) /\ r.sending = slot[s].sending /\ r.type = "connected"
        /\ r.writing = w /\ Full(r) = Full(slot[s])
    BY <1>1, <2>1, <2>2 DEF Socket, SameId, Type, Full
  <2>5. Registered(slot[s]) /\ Registered(r)
    BY <1>1, <2>4 DEF Registered
  <2>6. Needs(r) => ~NomoreSendingData(slot[s]) /\ Needs(slot[s])
    BY <1>1, <2>4, <2>5, SocketIs DEF Needs, Full, NomoreSendingData, SendBufferEmpty
  <2>7. Needs(r) => Needs(slot[s]) /\ (slot[s].writing => r.writing)
    BY <2>1, <2>4, <2>6
  <2>8. told' = [told EXCEPT ![slot[s].id] = "open"]
    BY <1>3 DEF RaiseOpen
  <2>9. taken \subseteq taken' /\ taken' \subseteq Slot /\ aborted' # "sending"
    BY <1>1, <1>3 DEF Types
  <2> QED BY <1>1, <1>3, <2>3, <2>4, <2>5, <2>7, <2>8, <2>9, QuietEvent
<1> QED BY <1>2, <1>3 DEF ReportConnect

LEMMA AcceptMoves ==
  ASSUME Types, aborted = "no", force = None, NEW e \in Events, NEW rest, ReportAccept(e, rest)
  PROVE  Move
<1>1. UNCHANGED <<lock, pipe, force, taken, client>>
  BY DEF ReportAccept
<1>2. CASE UNCHANGED <<alloc_id, slot, told, aborted>>
  BY <1>1, <1>2, StillMoves
<1>3. ASSUME NEW id \in Id, Candidate(id), alloc_id' = id,
             \/ /\ slot' = [slot EXCEPT ![HASH_ID(id)].id = id, ![HASH_ID(id)].tcp = FALSE]
                /\ UNCHANGED <<told, aborted>>
             \/ /\ slot' = [slot EXCEPT ![HASH_ID(id)] = NewFd(@, id, "paccept", FALSE)]
                /\ aborted' = Asserted(SendBufferEmpty(slot[HASH_ID(id)]), "newfd")
                /\ told' = [told EXCEPT ![id] = "id"]
      PROVE  Move
  <2> DEFINE s == HASH_ID(id)
  <2>1. s \in Slot /\ slot[s] \in Socket /\ slot[s].type = "invalid" /\ id > alloc_id
    BY <1>3, IdIsNat, HashInSlot DEF Candidate, Types
  <2>2. taken \subseteq taken' /\ taken' \subseteq Slot
    BY <1>1 DEF Types
  <2>3. CASE /\ slot' = [slot EXCEPT ![HASH_ID(id)].id = id, ![HASH_ID(id)].tcp = FALSE]
             /\ UNCHANGED <<told, aborted>>
    <3>1. PICK r : r = [slot[s] EXCEPT !.id = id, !.tcp = FALSE]
      OBVIOUS
    <3>2. slot' = [slot EXCEPT ![s] = r]
      BY <2>1, <2>3, <3>1 DEF Types
    <3>3. r \in Socket /\ r.id = id /\ ~r.tcp /\ r.type = "invalid"
      BY <2>1, <3>1 DEF Socket
    <3>4. Accepts(s, r)
      BY <1>1, <1>3, <2>1, <2>3, <3>3 DEF Accepts
    <3>5. Cares(s, r)
      BY <1>1, <3>3 DEF Cares, Busy, Needs, Registered
    <3>6. Moves(s, r)
      BY <1>1, <2>2, <2>3, <3>2, <3>3, <3>4, <3>5 DEF Moves, Kinds
    <3> QED BY <2>1, <3>3, <3>6 DEF Move
  <2>4. CASE /\ slot' = [slot EXCEPT ![HASH_ID(id)] = NewFd(@, id, "paccept", FALSE)]
             /\ aborted' = Asserted(SendBufferEmpty(slot[HASH_ID(id)]), "newfd")
             /\ told' = [told EXCEPT ![id] = "id"]
    <3>1. PICK r : r = NewFd(slot[s], id, "paccept", FALSE)
      OBVIOUS
    <3>2. slot' = [slot EXCEPT ![s] = r]
      BY <2>1, <2>4, <3>1 DEF Types
    <3>3. /\ r \in Socket /\ r.id = id /\ r.tcp /\ r.tag = ID_TAG16(id) /\ r.sending = 0
          /\ r.type = "paccept" /\ r.high = slot[s].high /\ r.low = slot[s].low /\ ~r.dw
      BY <2>1, <3>1, IdIsNat, TagIsNat, SocketIs DEF NewFd, Socket, Type
    <3>4. Accepts(s, r)
      BY <1>1, <1>3, <2>1, <2>4, <3>3 DEF Accepts, NewSocket, Registered
    <3>5. aborted' # "sending" /\ (aborted' = "no" => ~Full(r))
      BY <2>1, <2>4, <3>3, SocketIs DEF Asserted, SendBufferEmpty, Full
    <3>6. Cares(s, r)
      BY <1>1, <3>5 DEF Cares, Busy, Needs
    <3>7. Moves(s, r)
      BY <1>1, <2>2, <3>2, <3>3, <3>4, <3>5, <3>6 DEF Moves, Kinds
    <3> QED BY <2>1, <3>3, <3>7 DEF Move
  <2> QED BY <1>3, <2>3, <2>4
<1> QED BY <1>2, <1>3 DEF ReportAccept


LEMMA ReadMoves ==
  ASSUME Types, aborted = "no", force = None, NEW e \in Events, NEW rest,
         ReadEnd(e, rest) \/ ReadReserved(e, rest) \/ EofEvent(e, rest)
  PROVE  Move
<1> DEFINE s == e.slot
<1>1. s \in Slot /\ slot[s] \in Socket /\ slot[s].type # "invalid"
      /\ UNCHANGED <<alloc_id, lock, pipe, told, taken, client>>
  BY DEF ReadEnd, Reads, ReadReserved, EofEvent, AtSocket, Events, Types
<1>2. ASSUME NEW clear \in BOOLEAN, NEW raise \in BOOLEAN, ForceClose(s, clear, raise)
      PROVE  Move
  BY <1>1, <1>2, ForceMoves
<1>3. ASSUME UNCHANGED <<slot, force, aborted>>
      PROVE  Move
  BY <1>1, <1>3, StillMoves
<1>4. ASSUME slot' = [slot EXCEPT ![s] = ReadClosed(@)], Registered(slot[s]),
             slot[s].type \notin {"halfread", "halfwrite"}, UNCHANGED <<force, aborted>>
      PROVE  Move
  <2>1. PICK r : r = ReadClosed(slot[s])
    OBVIOUS
  <2>2. /\ r \in Socket /\ SameId(slot[s], r) /\ r.sending = slot[s].sending /\ r.type = "halfread"
        /\ r.writing = slot[s].writing /\ Full(r) = Full(slot[s])
    BY <1>1, <2>1 DEF ReadClosed, Socket, SameId, Type, Full
  <2>3. slot' = [slot EXCEPT ![s] = r]
    BY <1>4, <2>1
  <2>4. Registered(r) /\ (Needs(r) => Needs(slot[s]))
    BY <1>4, <2>2 DEF Registered, Needs
  <2>5. taken \subseteq taken' /\ taken' \subseteq Slot
    BY <1>1 DEF Types
  <2> QED BY <1>1, <1>4, <2>2, <2>3, <2>4, <2>5, QuietEvent
<1>5. CASE ReadEnd(e, rest)
  BY <1>2, <1>3, <1>4, <1>5 DEF ReadEnd
<1>6. CASE ReadReserved(e, rest)
  BY <1>2, <1>6 DEF ReadReserved
<1>7. CASE EofEvent(e, rest)
  <2>1. PICK b \in BOOLEAN : b = ~HalfcloseRead(slot[s])
    OBVIOUS
  <2>2. ForceClose(s, FALSE, b)
    BY <1>7, <2>1 DEF EofEvent
  <2> QED BY <1>2, <2>2
<1> QED BY <1>5, <1>6, <1>7

LEMMA WithDirectIs ==
  ASSUME NEW k \in Socket, NEW r, r = WithDirect(k)
  PROVE  /\ r \in Socket /\ SameId(k, r) /\ r.type = k.type /\ r.sending = k.sending
         /\ r.closing = k.closing /\ r.writing = k.writing /\ r.low = k.low /\ ~r.dw
         /\ r.high > 0 => Full(k)
<1>1. k.high \in Nat /\ k.low \in Nat /\ k.dw \in BOOLEAN
  BY SocketIs
<1>2. PICK h \in Nat : h = IF k.dw THEN k.high + 1 ELSE k.high
  BY <1>1
<1>3. r = [k EXCEPT !.high = h, !.dw = FALSE]
  BY <1>2 DEF WithDirect
<1>4. r.high > 0 => Full(k)
  BY <1>1, <1>2, <1>3 DEF Full, Socket
<1> QED BY <1>3, <1>4 DEF Socket, SameId

LEMMA SendEventMoves ==
  ASSUME Types, aborted = "no", force = None, NEW e \in Events, NEW rest, SendEvent(e, rest)
  PROVE  Move
<1> DEFINE s == e.slot
<1>1. s \in Slot /\ slot[s] \in Socket /\ slot[s].type # "invalid" /\ lock[s] = None
      /\ UNCHANGED <<alloc_id, lock, pipe, told, client, force>> /\ slot[s].low = 0
  BY SocketIs DEF SendEvent, Writes, AtSocket, Events, Types, ListUncomplete
<1>2. PICK k : k = WithDirect(slot[s])
  OBVIOUS
<1>3. /\ k \in Socket /\ SameId(slot[s], k) /\ k.type = slot[s].type /\ k.sending = slot[s].sending
      /\ k.closing = slot[s].closing /\ k.writing = slot[s].writing /\ k.low = 0 /\ ~k.dw
      /\ k.high > 0 => Full(slot[s])
  BY <1>1, <1>2, WithDirectIs
<1>4. k.high \in Nat
  BY <1>3, SocketIs
<1>5. SendBuffer(s, k) \/ CloseWrite(s, k)
  BY <1>2 DEF SendEvent
<1>6. taken \subseteq taken' /\ taken' \subseteq Slot
  BY <1>1, <1>5 DEF SendBuffer, CloseWrite, Overtakes, Types
<1>7. aborted' # "sending"
  BY <1>5 DEF SendBuffer, CloseWrite, Asserted
<1>8. ASSUME slot' = [slot EXCEPT ![s] = Closed(k)],
             aborted' = "no" => slot[s].type # "reserve"
      PROVE  Move
  <2>1. PICK r : r = Closed(k)
    OBVIOUS
  <2>2. slot' = [slot EXCEPT ![s] = r]
    BY <1>8, <2>1
  <2>3. r \in Socket /\ SameId(slot[s], r) /\ r.sending = slot[s].sending /\ r.type = "invalid"
    BY <1>3, <2>1 DEF Closed, Socket, SameId, Type
  <2>4. Cares(s, r)
    BY <1>1, <2>3 DEF Cares, Busy, Needs, Registered
  <2>5. Shuts(s, r) \/ Quiet(s, r)
    BY <1>1, <1>8, <2>3 DEF Shuts, Quiet, Registered
  <2>6. r.id # 0 => HASH_ID(r.id) = s
    BY <1>1, <2>3 DEF Types, SameId
  <2>7. Moves(s, r)
    BY <1>1, <1>6, <1>7, <2>2, <2>4, <2>5, <2>6 DEF Moves, Kinds
  <2> QED BY <1>1, <2>3, <2>7 DEF Move
<1>9. ASSUME NEW r \in Socket, slot' = [slot EXCEPT ![s] = r],
             SameId(slot[s], r), r.sending = slot[s].sending,
             \/ r.type = slot[s].type
             \/ Registered(slot[s]) /\ Registered(r)
             \/ s \in taken',
             Needs(r) => Needs(slot[s]) /\ r.writing = slot[s].writing
      PROVE  Move
  BY <1>1, <1>6, <1>7, <1>9, QuietEvent
<1>10. CASE SendBuffer(s, k)
  <2>1. CASE k.closing /\ slot' = [slot EXCEPT ![s] = Closed(k)]
             /\ aborted' = Asserted(k.closing => k.type # "reserve", "reserved")
    BY <1>3, <1>8, <2>1 DEF Asserted
  <2>2. CASE ~k.closing /\ slot' = [slot EXCEPT ![s] = [k EXCEPT !.high = 0, !.writing = FALSE]]
    <3>1. PICK r : r = [k EXCEPT !.high = 0, !.writing = FALSE]
      OBVIOUS
    <3>2. /\ r \in Socket /\ SameId(slot[s], r) /\ r.sending = slot[s].sending
          /\ r.type = slot[s].type /\ r.high = 0 /\ r.low = 0 /\ ~r.dw
      BY <1>3, <3>1 DEF Socket, SameId
    <3>3. ~Needs(r)
      BY <3>2 DEF Needs, Full
    <3>4. slot' = [slot EXCEPT ![s] = r]
      BY <2>2, <3>1
    <3> QED BY <1>9, <3>2, <3>3, <3>4
  <2>3. ASSUME NEW n \in Sent(k), slot' = [slot EXCEPT ![s].high = k.high - n, ![s].dw = FALSE]
        PROVE  Move
    <3>1. PICK h \in Nat : h = k.high - n /\ k.high > 0
      BY <1>4 DEF Sent
    <3>2. PICK r : r = [slot[s] EXCEPT !.high = h, !.dw = FALSE]
      OBVIOUS
    <3>3. /\ r \in Socket /\ SameId(slot[s], r) /\ r.sending = slot[s].sending
          /\ r.type = slot[s].type /\ r.writing = slot[s].writing
      BY <1>1, <3>2 DEF Socket, SameId
    <3>4. slot' = [slot EXCEPT ![s] = r]
      BY <1>1, <2>3, <3>1, <3>2 DEF Types
    <3>5. Needs(r) => Needs(slot[s])
      BY <1>3, <3>1, <3>3 DEF Needs, Registered
    <3> QED BY <1>9, <3>3, <3>4, <3>5
  <2>4. k.closing \in BOOLEAN
    BY <1>3, SocketIs
  <2> QED BY <1>10, <2>1, <2>2, <2>3, <2>4 DEF SendBuffer
<1>11. CASE CloseWrite(s, k)
  <2>1. PICK n \in Sent(k) :
          /\ slot' = [slot EXCEPT ![s] =
                        IF k.closing \/ HalfcloseRead(k) THEN Closed(k)
                        ELSE IF k.type = "halfwrite" THEN [k EXCEPT !.high = @ - n]
                        ELSE [[k EXCEPT !.high = @ - n] EXCEPT !.type = "halfwrite", !.writing = FALSE]]
          /\ Overtakes(s, k)
          /\ aborted' = Asserted(k.closing => k.type # "reserve", "reserved")
    BY <1>11 DEF CloseWrite
  <2>2. CASE k.closing \/ HalfcloseRead(k)
    <3>1. slot' = [slot EXCEPT ![s] = Closed(k)]
      BY <2>1, <2>2
    <3>2. aborted' = "no" => slot[s].type # "reserve"
      BY <1>3, <2>1, <2>2 DEF Asserted, HalfcloseRead
    <3> QED BY <1>8, <3>1, <3>2
  <2>3. PICK h \in Nat : h = k.high - n
    BY <1>4 DEF Sent
  <2>4. PICK l : l = [k EXCEPT !.high = h]
    OBVIOUS
  <2>5. /\ l \in Socket /\ SameId(slot[s], l) /\ l.sending = slot[s].sending
        /\ l.type = slot[s].type /\ l = [k EXCEPT !.high = @ - n]
    BY <1>3, <2>3, <2>4 DEF Socket, SameId
  <2>6. CASE ~(k.closing \/ HalfcloseRead(k)) /\ k.type = "halfwrite"
    <3>1. slot' = [slot EXCEPT ![s] = l]
      BY <2>1, <2>5, <2>6
    <3>2. ~Needs(l)
      BY <1>3, <2>5, <2>6 DEF Needs
    <3> QED BY <1>9, <2>5, <3>1, <3>2
  <2>7. CASE ~(k.closing \/ HalfcloseRead(k)) /\ k.type # "halfwrite"
    <3>1. PICK r : r = [l EXCEPT !.type = "halfwrite", !.writing = FALSE]
      OBVIOUS
    <3>2. r \in Socket /\ SameId(slot[s], r) /\ r.sending = slot[s].sending /\ r.type = "halfwrite"
      BY <2>5, <3>1 DEF Socket, SameId, Type
    <3>3. slot' = [slot EXCEPT ![s] = r]
      BY <2>1, <2>5, <2>7, <3>1
    <3>4. ~Needs(r) /\ Registered(r)
      BY <3>2 DEF Needs, Registered
    <3>5. Registered(slot[s]) \/ s \in taken'
      BY <1>1, <1>3, <2>1 DEF Overtakes, Registered
    <3> QED BY <1>9, <3>2, <3>3, <3>4, <3>5
  <2> QED BY <2>2, <2>6, <2>7
<1> QED BY <1>5, <1>10, <1>11

LEMMA HandleMoves ==
  ASSUME Types, aborted = "no", force = None, NEW e \in Events, NEW rest, Handle(e, rest)
  PROVE  Move
<1>1. CASE NoSocket(e, rest) \/ ReadData(e, rest) \/ SendBlocked(e, rest) \/ ErrorEvent(e, rest)
  BY <1>1, StillMoves DEF NoSocket, ReadData, SendBlocked, ErrorEvent, socket
<1>2. CASE SendUncomplete(e, rest)
  BY <1>2, StillMoves DEF SendUncomplete, socket
<1> QED BY <1>1, <1>2, ConnectMoves, AcceptMoves, ReadMoves, SendEventMoves DEF Handle


-------------------------------------------------------------------------------
(***************************************************************************)
(* The events of a batch.                                                  *)
(***************************************************************************)
LEMMA BatchIs ==
  ASSUME NEW b \in Batch
  PROVE  b \in Seq(Events)
<1> DEFINE ready == UNION {Event(s) : s \in {t \in Slot : Registered(slot[t]) /\ ~Opening(t)}}
<1>1. ready \subseteq Events
  BY DEF Event, Events
<1>2. PICK n \in 0 .. MaxBatch : b \in [1 .. n -> ready]
  BY DEF Batch
<1>3. n \in Nat
  BY <1>2, SocketAssumption
<1> HIDE DEF ready
<1>4. b \in [1 .. n -> Events]
  BY <1>1, <1>2
<1> QED BY <1>3, <1>4

LEMMA HeadTail ==
  ASSUME NEW S, NEW q \in Seq(S), q # <<>>
  PROVE  /\ Len(q) \in Nat /\ Len(q) > 0 /\ Head(q) \in S /\ Head(q) = q[1]
         /\ Tail(q) \in Seq(S) /\ Len(Tail(q)) = Len(q) - 1
         /\ \A i \in 1 .. Len(q) - 1 : Tail(q)[i] = q[i + 1]
         /\ \A i \in 1 .. Len(q) : i = 1 \/ (i - 1 \in 1 .. Len(q) - 1 /\ Tail(q)[i - 1] = q[i])
<1>1. Len(q) \in Nat /\ Len(q) > 0
  BY EmptySeq, LenProperties
<1>2. /\ Head(q) \in S /\ Head(q) = q[1]
      /\ Tail(q) \in Seq(S) /\ Len(Tail(q)) = Len(q) - 1
      /\ \A i \in 1 .. Len(q) - 1 : Tail(q)[i] = q[i + 1]
  BY <1>1, HeadTailProperties
<1> QED BY <1>1, <1>2

(***************************************************************************)
(* What is left of the batch after an event: its rest, and before it       *)
(* possibly the event again.                                               *)
(***************************************************************************)
Again(e) == {<<>>, <<e>>, <<[e EXCEPT !.kind = "write"]>>}
ClosesTyped == closes' \in [Id -> Nat]
ForceTyped == force' = None \/ force' \in Forces
AbortTyped == aborted' \in {"no", "reserved", "newfd", "sending", "uncomplete"}

LEMMA RaiseTyped ==
  ASSUME Types, NEW id, RaiseClose(id)
  PROVE  ClosesTyped
<1>1. CASE id \in Id
  <2>1. PICK n \in Nat : n = closes[id] + 1
    BY <1>1 DEF Types
  <2>2. closes' = [closes EXCEPT ![id] = n]
    BY <2>1 DEF RaiseClose
  <2> QED BY <2>2 DEF Types, ClosesTyped
<1>2. CASE id \notin Id
  <2>1. closes' = closes
    BY <1>2 DEF Types, RaiseClose
  <2> QED BY <2>1 DEF Types, ClosesTyped
<1> QED BY <1>1, <1>2

LEMMA ForceCloseTyped ==
  ASSUME Types, NEW s \in Slot, NEW clear \in BOOLEAN, NEW raise \in BOOLEAN, ForceClose(s, clear, raise)
  PROVE  ForceTyped /\ AbortTyped
<1>1. slot[s] \in Socket
  BY DEF Types
<1>2. slot[s].id \in 0 .. MaxId
  BY <1>1, SlotIdBound
<1> QED BY <1>2 DEF ForceClose, Asserted, ForceTyped, AbortTyped, Forces

LEMMA FailedTyped ==
  ASSUME NEW id \in Id, Failed(id)
  PROVE  ForceTyped
<1>1. HASH_ID(id) \in Slot /\ id \in 0 .. MaxId
  BY IdIsNat, HashInSlot DEF Id
<1> QED BY <1>1 DEF Failed, ForceTyped, Forces

LEMMA ReturnedTyped ==
  ASSUME Types, Returned
  PROVE  ForceTyped /\ ClosesTyped /\ force' = None
<1>1. UNCHANGED closes => ClosesTyped
  BY DEF Types, ClosesTyped
<1> QED BY <1>1, RaiseTyped DEF Returned, ForceTyped

LEMMA HandleRest ==
  ASSUME Types, aborted = "no", force = None, NEW e \in Events, NEW rest \in Seq(Events),
         Handle(e, rest)
  PROVE  /\ ClosesTyped /\ ForceTyped /\ AbortTyped
         /\ \E a \in Again(e) : events' = a \o rest
<1>1. /\ UNCHANGED closes => ClosesTyped
      /\ UNCHANGED force => ForceTyped
      /\ UNCHANGED aborted => AbortTyped
  BY DEF Types, ClosesTyped, ForceTyped, AbortTyped
<1>2. ASSUME e.slot # None
      PROVE  e.slot \in Slot
  BY <1>2 DEF Events
<1>3. /\ events' = rest => \E a \in Again(e) : events' = a \o rest
      /\ AfterRead(e, rest) => \E a \in Again(e) : events' = a \o rest
      /\ events' = <<e>> \o rest => \E a \in Again(e) : events' = a \o rest
  <2>1. <<>> \o rest = rest
    BY ConcatEmptySeq
  <2> QED BY <2>1 DEF Again, AfterRead
<1>4. CASE NoSocket(e, rest) \/ ReadData(e, rest) \/ SendBlocked(e, rest) \/ ErrorEvent(e, rest)
  BY <1>1, <1>3, <1>4 DEF NoSocket, ReadData, SendBlocked, ErrorEvent
<1>5. CASE SendUncomplete(e, rest)
  BY <1>1, <1>3, <1>5 DEF SendUncomplete, AbortTyped
<1>6. CASE ReportConnect(e, rest)
  BY <1>1, <1>2, <1>3, <1>6, ForceCloseTyped DEF ReportConnect
<1>7. CASE ReportAccept(e, rest)
  <2>1. AbortTyped
    BY <1>1, <1>7 DEF ReportAccept, Asserted, AbortTyped
  <2> QED BY <1>1, <1>3, <1>7, <2>1 DEF ReportAccept
<1>8. CASE ReadEnd(e, rest)
  <2>1. e.slot \in Slot
    BY <1>2, <1>8 DEF ReadEnd, Reads, AtSocket
  <2> QED BY <1>1, <1>3, <1>8, <2>1, ForceCloseTyped, RaiseTyped DEF ReadEnd
<1>9. CASE ReadReserved(e, rest)
  BY <1>1, <1>2, <1>3, <1>9, ForceCloseTyped DEF ReadReserved, AtSocket
<1>10. CASE SendEvent(e, rest)
  <2>1. AbortTyped
    BY <1>1, <1>10 DEF SendEvent, SendBuffer, CloseWrite, Asserted, AbortTyped
  <2> QED BY <1>1, <1>3, <1>10, <2>1 DEF SendEvent
<1>11. CASE EofEvent(e, rest)
  <2>1. PICK b \in BOOLEAN : b = ~HalfcloseRead(slot[e.slot])
    OBVIOUS
  <2>2. ForceClose(e.slot, FALSE, b) /\ e.slot \in Slot
    BY <1>2, <1>11, <2>1 DEF EofEvent, AtSocket
  <2>3. ForceTyped /\ AbortTyped
    BY <2>2, ForceCloseTyped
  <2> QED BY <1>1, <1>3, <1>11, <2>3 DEF EofEvent
<1> QED BY <1>4, <1>5, <1>6, <1>7, <1>8, <1>9, <1>10, <1>11 DEF Handle


LEMMA AgainTyped ==
  ASSUME NEW e \in Events, NEW a \in Again(e), NEW rest \in Seq(Events)
  PROVE  a \o rest \in Seq(Events)
<1>1. [e EXCEPT !.kind = "write"] \in Events
  BY DEF Events, Kind
<1>2. PICK w \in Events : w = [e EXCEPT !.kind = "write"]
  BY <1>1
<1>3. a = <<>> \/ a = <<e>> \/ a = <<w>>
  BY <1>2 DEF Again
<1>4. <<>> \in Seq(Events) /\ <<e>> \in Seq(Events) /\ <<w>> \in Seq(Events)
  OBVIOUS
<1>5. a \in Seq(Events)
  BY <1>3, <1>4
<1> QED BY <1>5

\* The events that are handled are those of the batch or of a new one.
LEMMA EventStep ==
  ASSUME Types, NextEvent \/ EpollWait
  PROVE  /\ aborted = "no" /\ force = None /\ checkctrl' \in BOOLEAN
         /\ \/ /\ events' \in Batch
               /\ UNCHANGED <<alloc_id, socket, pipe, force, told, taken, closes, client, aborted>>
            \/ \E q \in Seq(Events) : /\ q # <<>>
                                      /\ Handle(Head(q), Tail(q))
<1>1. aborted = "no" /\ force = None /\ checkctrl' \in BOOLEAN
  BY DEF NextEvent, EpollWait, AtEvents
<1>2. CASE NextEvent
  BY <1>1, <1>2 DEF NextEvent, Types
<1>3. CASE EpollWait
  <2>1. PICK batch \in Batch :
          \/ /\ batch # <<>>
             /\ Handle(Head(batch), Tail(batch))
          \/ /\ pipe # <<>>
             /\ events' = batch
             /\ UNCHANGED <<alloc_id, socket, pipe, force, told, taken, closes, client, aborted>>
    BY <1>3 DEF EpollWait
  <2>2. batch \in Seq(Events)
    BY BatchIs
  <2> QED BY <1>1, <2>1, <2>2
<1> QED BY <1>2, <1>3

LEMMA EventMoves ==
  ASSUME Types, NextEvent \/ EpollWait
  PROVE  Move
<1>1. aborted = "no" /\ force = None
  BY EventStep
<1>2. CASE /\ events' \in Batch
           /\ UNCHANGED <<alloc_id, socket, pipe, force, told, taken, closes, client, aborted>>
  BY <1>1, <1>2, StillMoves DEF socket
<1>3. ASSUME NEW q \in Seq(Events), q # <<>>, Handle(Head(q), Tail(q))
      PROVE  Move
  <2>1. Head(q) \in Events
    BY <1>3, HeadTail
  <2> QED BY <1>1, <1>3, <2>1, HandleMoves
<1> QED BY <1>2, <1>3, EventStep

ThreadStep == CtrlCmd \/ FinishClose \/ ClearClosedEvent \/ NextEvent \/ EpollWait

LEMMA ThreadMoves ==
  ASSUME Types, Closing, ThreadStep
  PROVE  Move /\ aborted = "no"
<1>1. aborted = "no"
  BY EventStep DEF ThreadStep, CtrlCmd, FinishClose, ClearClosedEvent
<1> QED BY <1>1, CtrlMoves, FinishMoves, ClearMoves, EventMoves DEF ThreadStep

-------------------------------------------------------------------------------
(***************************************************************************)
(* Types.                                                                  *)
(***************************************************************************)
LEMMA ClearTyped ==
  ASSUME Types, ClearClosedEvent
  PROVE  events' \in Seq(Events)
<1>1. DOMAIN events = 1 .. Len(events) /\ Len(events) \in Nat
      /\ \A i \in 1 .. Len(events) : events[i] \in Events
  BY DEF Types
<1>2. \A i \in 1 .. Len(events) : [events[i] EXCEPT !.slot = None] \in Events
  BY <1>1 DEF Events
<1>3. events' \in [1 .. Len(events) -> Events]
  BY <1>1, <1>2 DEF ClearClosedEvent
<1> QED BY <1>1, <1>3

LEMMA CtrlRest ==
  ASSUME Types, CtrlCmd
  PROVE  /\ ClosesTyped /\ ForceTyped /\ AbortTyped /\ events' = events /\ checkctrl' = checkctrl
<1>1. /\ UNCHANGED closes => ClosesTyped
      /\ UNCHANGED force => ForceTyped
      /\ UNCHANGED aborted => AbortTyped
  BY DEF Types, ClosesTyped, ForceTyped, AbortTyped
<1>2. CASE OpenSocket \/ ListenSocket
  <2>1. AbortTyped
    BY <1>1, <1>2 DEF OpenSocket, ListenSocket, NewFdAsserts, Asserted, AbortTyped
  <2>2. Req \in Id
    BY <1>2, RequestIs DEF OpenSocket, ListenSocket, Take, Req
  <2>3. ForceTyped
    BY <1>1, <1>2, <2>2, FailedTyped DEF OpenSocket, ListenSocket
  <2> QED BY <1>1, <1>2, <2>1, <2>3 DEF OpenSocket, ListenSocket
<1>3. CASE ResumeSocket \/ PauseSocket \/ TriggerWrite
  <2>1. ResumeSocket => Req \in Id
    BY RequestIs DEF ResumeSocket, Take, Req
  <2>2. ForceTyped
    BY <1>1, <1>3, <2>1, FailedTyped DEF ResumeSocket, PauseSocket, TriggerWrite, poll
  <2> QED BY <1>1, <1>3, <2>2 DEF ResumeSocket, PauseSocket, TriggerWrite, poll
<1>4. ASSUME NEW op, SendSocket(op)
      PROVE  ClosesTyped /\ ForceTyped /\ AbortTyped /\ events' = events /\ checkctrl' = checkctrl
  BY <1>1, <1>4 DEF SendSocket, poll, Asserted, AbortTyped
<1>5. ASSUME NEW op, CloseNow(op)
      PROVE  ClosesTyped /\ ForceTyped /\ AbortTyped /\ events' = events /\ checkctrl' = checkctrl
  <2>1. PICK b \in BOOLEAN : b = ~HalfcloseRead(Target)
    OBVIOUS
  <2>2. HASH_ID(Req) \in Slot /\ ForceClose(HASH_ID(Req), b, b)
    BY <1>5, <2>1, RequestIs DEF CloseNow, Take, Req
  <2>3. ForceTyped /\ AbortTyped
    BY <2>2, ForceCloseTyped
  <2> QED BY <1>1, <1>5, <2>3 DEF CloseNow
<1>6. ASSUME NEW op, CloseLater(op) \/ CloseIgnored(op)
      PROVE  ClosesTyped /\ ForceTyped /\ AbortTyped /\ events' = events /\ checkctrl' = checkctrl
  BY <1>1, <1>6, RaiseTyped DEF CloseLater, CloseIgnored, poll
<1> QED BY <1>2, <1>3, <1>4, <1>5, <1>6 DEF CtrlCmd

LEMMA ThreadTypes ==
  ASSUME Types, Closing, ThreadStep
  PROVE  Types'
<1>1. PICK s \in Slot, r \in Socket : Moves(s, r)
  BY ThreadMoves DEF Move
<1>2. /\ slot' \in [Slot -> Socket]
      /\ \A t \in Slot : slot'[t].id # 0 => HASH_ID(slot'[t].id) = t
      /\ UNCHANGED <<lock, pc, arg, pinned, stray>> /\ taken' \subseteq Slot
  BY <1>1 DEF Moves, Types, client
<1>3. alloc_id' \in 0 .. MaxId /\ told' \in [Id -> {"no", "id", "open"}]
  <2>1. /\ alloc_id' = alloc_id \/ alloc_id' \in Id
        /\ \/ told' = told
           \/ told' = [told EXCEPT ![slot[s].id] = "open"]
           \/ told' = [told EXCEPT ![Head(pipe).id] = "open"]
           \/ told' = [told EXCEPT ![alloc_id'] = "id"]
    <3>1. CASE Quiet(s, r)
      BY <3>1 DEF Quiet
    <3>2. CASE Shuts(s, r) \/ Fails(s, r) \/ Discounts(s, r)
      BY <3>2 DEF Shuts, Fails, Discounts
    <3>3. CASE Succeeds(s, r)
      BY <3>3 DEF Succeeds
    <3>4. CASE Accepts(s, r)
      BY <3>4 DEF Accepts
    <3> QED BY <1>1, <3>1, <3>2, <3>3, <3>4 DEF Moves, Kinds
  <2>2. alloc_id' \in 0 .. MaxId
    BY <2>1 DEF Types, Id
  <2>3. ASSUME NEW i, NEW v \in {"id", "open"}, told' = [told EXCEPT ![i] = v]
        PROVE  told' \in [Id -> {"no", "id", "open"}]
    BY <2>3 DEF Types
  <2>4. told' = told => told' \in [Id -> {"no", "id", "open"}]
    BY DEF Types
  <2> QED BY <2>1, <2>2, <2>3, <2>4
<1>4. pipe' \in Seq(Requests) /\ Len(pipe') <= MaxPipe
  <2>1. pipe' = pipe \/ (pipe # <<>> /\ pipe' = Tail(pipe))
    BY <1>1 DEF Moves, Cares
  <2>2. CASE pipe # <<>> /\ pipe' = Tail(pipe)
    <3>1. Tail(pipe) \in Seq(Requests) /\ Len(Tail(pipe)) = Len(pipe) - 1 /\ Len(pipe) \in Nat
      BY <2>2, RequestIs DEF Types
    <3>2. Len(pipe) <= MaxPipe /\ MaxPipe \in Nat
      BY SocketAssumption DEF Types
    <3> QED BY <2>2, <3>1, <3>2
  <2> QED BY <2>1, <2>2 DEF Types
<1>5. /\ ClosesTyped /\ ForceTyped /\ AbortTyped /\ events' \in Seq(Events) /\ checkctrl' \in BOOLEAN
  <2>1. CASE CtrlCmd
    BY <2>1, CtrlRest DEF Types
  <2>2. CASE FinishClose
    <3>1. force \in Forces /\ UNCHANGED <<aborted, checkctrl, events>>
      BY <2>2 DEF FinishClose, Types
    <3>2. CASE force' = [force EXCEPT !.closed = TRUE] /\ UNCHANGED closes
      BY <3>1, <3>2 DEF ForceTyped, AbortTyped, ClosesTyped, Types, Forces
    <3>3. CASE Returned
      BY <3>1, <3>3, ReturnedTyped DEF AbortTyped, Types
    <3> QED BY <2>2, <3>2, <3>3 DEF FinishClose
  <2>4. CASE ClearClosedEvent
    <3>1. UNCHANGED <<aborted, checkctrl>> /\ Returned
      BY <2>4 DEF ClearClosedEvent
    <3> QED BY <2>4, <3>1, ClearTyped, ReturnedTyped DEF AbortTyped, Types
  <2>3. CASE NextEvent \/ EpollWait
    <3>1. aborted = "no" /\ force = None /\ checkctrl' \in BOOLEAN
      BY <2>3, EventStep
    <3>2. CASE /\ events' \in Batch
               /\ UNCHANGED <<alloc_id, socket, pipe, force, told, taken, closes, client, aborted>>
      <4>1. events' \in Seq(Events)
        BY <3>2, BatchIs
      <4> QED BY <3>1, <3>2, <4>1 DEF Types, ClosesTyped, ForceTyped, AbortTyped
    <3>3. ASSUME NEW q \in Seq(Events), q # <<>>, Handle(Head(q), Tail(q))
          PROVE  ClosesTyped /\ ForceTyped /\ AbortTyped /\ events' \in Seq(Events)
      <4>1. Head(q) \in Events /\ Tail(q) \in Seq(Events)
        BY <3>3, HeadTail
      <4>2. /\ ClosesTyped /\ ForceTyped /\ AbortTyped
            /\ \E a \in Again(Head(q)) : events' = a \o Tail(q)
        BY <3>1, <3>3, <4>1, HandleRest
      <4> QED BY <4>1, <4>2, AgainTyped
    <3> QED BY <2>3, <3>1, <3>2, <3>3, EventStep
  <2> QED BY <2>1, <2>2, <2>3, <2>4 DEF ThreadStep
<1> QED BY <1>2, <1>3, <1>4, <1>5 DEF Types, ClosesTyped, ForceTyped, AbortTyped


(***************************************************************************)
(* The clients.                                                            *)
(***************************************************************************)
Args == [op : Op \union {"none"}, id : Id \union {0}, counted : BOOLEAN]

LEMMA RequestTyped ==
  /\ NoRequest \in Args
  /\ \A id \in Id, op \in Op : Request(op, id) \in Args /\ Request(op, id) \in Requests
BY DEF NoRequest, Request, Args, Requests

LEMMA SendRequestTyped ==
  ASSUME Types, NEW r \in Requests, SendRequest(r)
  PROVE  /\ pipe' \in Seq(Requests) /\ Len(pipe') = Len(pipe) + 1 /\ Len(pipe') <= MaxPipe
         /\ pipe'[Len(pipe) + 1] = r /\ \A i \in 1 .. Len(pipe) : pipe'[i] = pipe[i]
         /\ Len(pipe) \in Nat
<1>1. pipe' = Append(pipe, r) /\ Len(pipe) < MaxPipe
  BY DEF SendRequest
<1>2. pipe \in Seq(Requests) /\ MaxPipe \in Nat
  BY SocketAssumption DEF Types
<1> QED BY <1>1, <1>2

\* Where a client's call is: its label and its request, of the types that go together.
Call(l, a) == /\ l \in Label /\ a \in Args
              /\ l = "idle" => a = NoRequest
              /\ l \in {"assign", "ask"} => a.op \in OpenOp /\ a.id # 0 /\ ~a.counted
              /\ l \in Sending => a.op \in SendOp /\ a.id # 0
              /\ a.counted => l = "queue"

LEMMA CallingIs ==
  ASSUME Types, Calling, NEW c \in Client
  PROVE  /\ Call(pc[c], arg[c]) /\ arg[c].id \in Nat /\ HASH_ID(arg[c].id) \in Slot
         /\ Sock(c) \in Socket /\ arg[c] = [op |-> arg[c].op, id |-> arg[c].id, counted |-> arg[c].counted]
         /\ pc[c] # "idle" => arg[c] \in Requests /\ arg[c].id \in Id
<1>1. pc[c] \in Label /\ arg[c] \in Args
  BY DEF Types, Args
<1>2. arg[c].id \in Id \union {0} /\ arg[c].id \in Nat
      /\ arg[c] = [op |-> arg[c].op, id |-> arg[c].id, counted |-> arg[c].counted]
  BY <1>1, IdIsNat DEF Args
<1>3. Call(pc[c], arg[c])
  BY <1>1 DEF Calling, Call
<1>4. HASH_ID(arg[c].id) \in Slot
  BY <1>2, HashInSlot
<1>5. Sock(c) \in Socket
  BY <1>4 DEF Types, Sock
<1>6. ASSUME pc[c] # "idle"
      PROVE  arg[c] \in Requests /\ arg[c].id \in Id
  <2>1. arg[c].op \in Op /\ arg[c].id \in Id
    BY <1>1, <1>2, <1>3, <1>6 DEF Call, Sending, Holding, Label, Look, OpenOp, SendOp, Op
  <2> QED BY <1>1, <2>1 DEF Args, Requests
<1> QED BY <1>2, <1>3, <1>4, <1>5, <1>6

\* A client moves from one label to the next.
Goes(c, l, a) == /\ pc' = [pc EXCEPT ![c] = l]
                 /\ arg' = [arg EXCEPT ![c] = a]
                 /\ Call(l, a)

LEMMA GoesOn ==
  ASSUME Types, Calling, NEW c \in Client, NEW l, NEW a, Goes(c, l, a)
  PROVE  /\ pc' \in [Client -> Label] /\ arg' \in [Client -> Args] /\ Calling'
         /\ pc'[c] = l /\ arg'[c] = a
         /\ \A d \in Client \ {c} : pc'[d] = pc[d] /\ arg'[d] = arg[d]
<1>1. /\ pc' \in [Client -> Label] /\ arg' \in [Client -> Args]
      /\ pc'[c] = l /\ arg'[c] = a
      /\ \A d \in Client \ {c} : pc'[d] = pc[d] /\ arg'[d] = arg[d]
  BY DEF Goes, Call, Types, Args
<1>2. Calling'
  BY <1>1 DEF Calling, Call, Goes
<1> QED BY <1>1, <1>2

LEMMA LocksSame ==
  ASSUME Types, Calling, Locks, NEW c \in Client, NEW l, NEW a, Goes(c, l, a),
         UNCHANGED <<lock, pinned>>, pc[c] \in Holding <=> l \in Holding,
         a = arg[c] \/ l \notin Holding
  PROVE  Locks'
<1>1. /\ pc'[c] = l /\ arg'[c] = a
      /\ \A d \in Client \ {c} : pc'[d] = pc[d] /\ arg'[d] = arg[d]
  BY GoesOn
<1>2. ASSUME NEW d \in Client, NEW s \in Slot
      PROVE  lock'[s] = d <=> pc'[d] \in Holding /\ HASH_ID(arg'[d].id) = s
  <2>1. lock[s] = d <=> pc[d] \in Holding /\ HASH_ID(arg[d].id) = s
    BY DEF Locks
  <2>2. lock'[s] = lock[s]
    OBVIOUS
  <2>3. CASE d = c
    BY <1>1, <2>1, <2>2, <2>3
  <2>4. CASE d # c
    BY <1>1, <2>1, <2>2, <2>4
  <2> QED BY <2>3, <2>4
<1>3. ASSUME NEW d \in pinned'
      PROVE  pc'[d] \in Holding
  <2>1. d \in Client /\ pc[d] \in Holding
    BY <1>3 DEF Locks, Types
  <2> QED BY <1>1, <2>1
<1> QED BY <1>2, <1>3 DEF Locks

(***************************************************************************)
(* The steps of a client, with what they do to its call.  Those that look  *)
(* at a slot again go on with the lock or give it up.                      *)
(***************************************************************************)
ReadStep(c) == ReadId(c) \/ ReadLists(c) \/ ReadSending(c) \/ ReadHalf(c) \/ ReadType(c)
ReadsOn(c, l) ==
  \/ /\ l \in Holding /\ UNCHANGED <<lock, pinned>>
     /\ l = "write" => Sock(c).type = "connected"
  \/ l = "inc" /\ SocketUnlock(c)

LEMMA ReadFrame ==
  ASSUME NEW c \in Client, ReadStep(c)
  PROVE  /\ pc[c] \in Holding
         /\ UNCHANGED <<alloc_id, slot, pipe, checkctrl, events, force, told, taken, closes, arg, stray,
                        aborted>>
BY DEF ReadStep, ReadId, ReadLists, ReadSending, ReadHalf, ReadType, Reading, poll, Holding

LEMMA ReadGoto ==
  ASSUME NEW c \in Client, ReadStep(c)
  PROVE  \E l \in Holding \union {"inc"} : Goto(c, l) /\ ReadsOn(c, l)
<1>1. CASE ReadId(c)
  BY <1>1 DEF ReadId, OnTo, GiveUp, ReadsOn, Holding
<1>2. CASE ReadLists(c)
  BY <1>2 DEF ReadLists, OnTo, GiveUp, ReadsOn, Holding
<1>3. CASE ReadSending(c)
  BY <1>3 DEF ReadSending, OnTo, GiveUp, ReadsOn, Holding
<1>4. CASE ReadHalf(c)
  BY <1>4 DEF ReadHalf, OnTo, GiveUp, ReadsOn, Holding
<1>5. CASE ReadType(c)
  BY <1>5 DEF ReadType, OnTo, GiveUp, ReadsOn, Holding
<1> QED BY <1>1, <1>2, <1>3, <1>4, <1>5 DEF ReadStep

LEMMA ClientGoes ==
  ASSUME Types, Calling, NEW c \in Client
  PROVE  /\ \A op \in {"O", "L"}, id \in Id : Reserve(c, op, id) => Goes(c, "assign", Request(op, id))
         /\ Assign(c) => Goes(c, "ask", arg[c])
         /\ AskOpen(c) => Goes(c, "idle", NoRequest)
         /\ \A id \in Id : Send(c, id) => Goes(c, "check", Request("D", id))
         /\ \A id \in Id : SendLowpriority(c, id) => Goes(c, "inc", Request("P", id))
         /\ Check(c) => \E l \in {"trylock", "inc"} : Goes(c, l, arg[c])
         /\ Trylock(c) => \E l \in {"readid", "inc"} : Goes(c, l, arg[c])
         /\ ReadStep(c) => \E l \in Holding \union {"inc"} : Goes(c, l, arg[c]) /\ ReadsOn(c, l)
         /\ DirectWrite(c) => Goes(c, "idle", NoRequest) \/ Goes(c, "trigger", arg[c])
         /\ Trigger(c) => Goes(c, "idle", NoRequest)
         /\ IncSendingRef(c) =>
              Goes(c, "queue", [arg[c] EXCEPT !.counted = Counts(Sock(c), arg[c].id)])
         /\ Queue(c) => Goes(c, "idle", NoRequest)
<1>1. Call(pc[c], arg[c]) /\ arg[c] \in Args
  BY CallingIs DEF Call
<1>2. /\ \A op \in Op, id \in Id : /\ Request(op, id) \in Args
                                   /\ Request(op, id).op = op /\ Request(op, id).id = id
                                   /\ Request(op, id).counted = FALSE
      /\ NoRequest \in Args /\ NoRequest.counted = FALSE
  BY RequestTyped DEF Request, NoRequest
<1>3. arg' = arg => arg' = [arg EXCEPT ![c] = arg[c]]
  BY DEF Types
<1>4. Call("idle", NoRequest)
  BY <1>2 DEF Call, Label, Look, Sending, Holding
<1>5. \A op \in OpenOp, id \in Id : Call("assign", Request(op, id))
  BY <1>2, IdIsNat DEF Call, Label, Look, Sending, Holding, OpenOp, Op
<1>6. \A op \in SendOp, id \in Id : Call("check", Request(op, id)) /\ Call("inc", Request(op, id))
  BY <1>2, IdIsNat DEF Call, Label, Look, Sending, Holding, SendOp, Op
<1>7. pc[c] = "assign" => Call("ask", arg[c])
  BY <1>1 DEF Call, Label, Look, Sending, Holding
<1>8. pc[c] \in Sending \ {"queue"} =>
        \A l \in Sending : Call(l, arg[c])
  BY <1>1 DEF Call, Label, Look, Sending, Holding
<1>9. pc[c] = "inc" => \A b \in BOOLEAN : Call("queue", [arg[c] EXCEPT !.counted = b])
  BY <1>1 DEF Call, Label, Look, Sending, Holding, Args
<1>10. \A op \in {"O", "L"}, id \in Id : Reserve(c, op, id) => Goes(c, "assign", Request(op, id))
  BY <1>5 DEF Reserve, Goes, OpenOp
<1>11. Assign(c) => Goes(c, "ask", arg[c])
  BY <1>3, <1>7 DEF Assign, Goes
<1>12. AskOpen(c) \/ Trigger(c) \/ Queue(c) => Goes(c, "idle", NoRequest)
  BY <1>4 DEF AskOpen, Trigger, Queue, Return, Goto, Goes
<1>13. \A id \in Id : /\ Send(c, id) => Goes(c, "check", Request("D", id))
                      /\ SendLowpriority(c, id) => Goes(c, "inc", Request("P", id))
  BY <1>6 DEF Send, SendLowpriority, Goto, Goes, SendOp
<1>14. Check(c) => \E l \in {"trylock", "inc"} : Goes(c, l, arg[c])
  BY <1>3, <1>8 DEF Check, Goto, Goes, Sending, Holding
<1>15. Trylock(c) => \E l \in {"readid", "inc"} : Goes(c, l, arg[c])
  BY <1>3, <1>8 DEF Trylock, Goto, Goes, Sending, Holding
<1>18. ReadStep(c) => \E l \in Holding \union {"inc"} : Goes(c, l, arg[c]) /\ ReadsOn(c, l)
  <2> HAVE ReadStep(c)
  <2>1. pc[c] \in Holding /\ arg' = arg
    BY ReadFrame
  <2>2. PICK l \in Holding \union {"inc"} : Goto(c, l) /\ ReadsOn(c, l)
    BY ReadGoto
  <2>3. Call(l, arg[c])
    BY <1>8, <2>1, <2>2 DEF Sending, Holding
  <2> QED BY <1>3, <2>1, <2>2, <2>3 DEF Goto, Goes
<1>16. DirectWrite(c) => Goes(c, "idle", NoRequest) \/ Goes(c, "trigger", arg[c])
  BY <1>3, <1>4, <1>8 DEF DirectWrite, Return, Goto, Goes, Sending, Holding
<1>17. IncSendingRef(c) =>
         Goes(c, "queue", [arg[c] EXCEPT !.counted = Counts(Sock(c), arg[c].id)])
  <2>1. PICK b \in BOOLEAN : b = Counts(Sock(c), arg[c].id)
    BY CallingIs, SocketIs DEF Counts
  <2> HAVE IncSendingRef(c)
  <2>2. arg' = [arg EXCEPT ![c] = [arg[c] EXCEPT !.counted = b]]
    BY <2>1 DEF IncSendingRef, Types, Sock
  <2> QED BY <1>9, <2>1, <2>2 DEF IncSendingRef, Goto, Goes
<1> QED BY <1>10, <1>11, <1>12, <1>13, <1>14, <1>15, <1>16, <1>17, <1>18


\* What the steps of a client do to a slot.
Puts(s, r) == s \in Slot /\ r \in Socket /\ slot' = [slot EXCEPT ![s] = r]

LEMMA ReservePuts ==
  ASSUME Types, NEW c \in Client, NEW op, NEW id \in Id, Reserve(c, op, id)
  PROVE  \E r : /\ Puts(HASH_ID(id), r) /\ SameId(slot[HASH_ID(id)], r)
                /\ r.sending = slot[HASH_ID(id)].sending /\ r.type = "reserve"
                /\ slot[HASH_ID(id)].type = "invalid" /\ id > alloc_id
<1> DEFINE s == HASH_ID(id)
<1>1. s \in Slot /\ slot[s] \in Socket
  BY IdIsNat, HashInSlot DEF Types
<1>2. PICK r : r = [slot[s] EXCEPT !.type = "reserve"]
  OBVIOUS
<1>3. r \in Socket /\ SameId(slot[s], r) /\ r.sending = slot[s].sending /\ r.type = "reserve"
  BY <1>1, <1>2 DEF Socket, SameId, Type
<1>4. slot' = [slot EXCEPT ![s] = r]
  BY <1>1, <1>2 DEF Reserve, Types
<1>5. slot[s].type = "invalid" /\ id > alloc_id
  BY IdIsNat DEF Reserve, Candidate, Types
<1> QED BY <1>1, <1>3, <1>4, <1>5 DEF Puts

LEMMA AssignPuts ==
  ASSUME Types, Calling, NEW c \in Client, Assign(c)
  PROVE  \E r : /\ Puts(HASH_ID(arg[c].id), r) /\ r.id = arg[c].id /\ ~r.tcp
                /\ r.type = Sock(c).type
<1> DEFINE s == HASH_ID(arg[c].id)
<1>1. s \in Slot /\ slot[s] \in Socket /\ arg[c].id \in Id
  BY CallingIs DEF Assign, Sock
<1>2. PICK r : r = [slot[s] EXCEPT !.id = arg[c].id, !.tcp = FALSE]
  OBVIOUS
<1>3. r \in Socket /\ r.id = arg[c].id /\ ~r.tcp /\ r.type = slot[s].type
  BY <1>1, <1>2 DEF Socket
<1>4. slot' = [slot EXCEPT ![s] = r]
  BY <1>1, <1>2 DEF Assign, Types
<1> QED BY <1>1, <1>3, <1>4 DEF Puts, Sock

LEMMA WritePuts ==
  ASSUME Types, Calling, NEW c \in Client, DirectWrite(c)
  PROVE  \E r : /\ Puts(HASH_ID(arg[c].id), r) /\ SameId(Sock(c), r)
                /\ r.sending = Sock(c).sending /\ r.type = Sock(c).type
                /\ r.writing = Sock(c).writing
                /\ \/ r = Sock(c)
                   \/ /\ Goes(c, "trigger", arg[c])
                      /\ Sock(c).id = arg[c].id \/ HASH_ID(arg[c].id) \in stray'
<1> DEFINE s == HASH_ID(arg[c].id)
<1>1. s \in Slot /\ slot[s] \in Socket /\ arg[c].id \in Id
  BY CallingIs DEF DirectWrite, Sock
<1>2. CASE slot' = slot
  <2>1. slot' = [slot EXCEPT ![s] = slot[s]]
    BY <1>1, <1>2 DEF Types
  <2> QED BY <1>1, <2>1 DEF Puts, SameId, Sock
<1>3. CASE /\ slot' = [slot EXCEPT ![s].dw = TRUE] /\ Goto(c, "trigger") /\ UNCHANGED arg
           /\ slot[s].id = arg[c].id \/ s \in stray'
  <2>1. PICK r : r = [slot[s] EXCEPT !.dw = TRUE]
    OBVIOUS
  <2>2. /\ r \in Socket /\ SameId(slot[s], r) /\ r.sending = slot[s].sending
        /\ r.type = slot[s].type /\ r.writing = slot[s].writing
    BY <1>1, <2>1 DEF Socket, SameId
  <2>3. slot' = [slot EXCEPT ![s] = r]
    BY <1>1, <1>3, <2>1 DEF Types
  <2>4. Goes(c, "trigger", arg[c])
    <3>1. Call("trigger", arg[c])
      BY CallingIs DEF Call, DirectWrite, Label, Look, Sending, Holding
    <3> QED BY <1>3, <3>1 DEF Goto, Goes, Types
  <2> QED BY <1>1, <1>3, <2>2, <2>3, <2>4 DEF Puts, Sock
<1> QED BY <1>2, <1>3 DEF DirectWrite

LEMMA IncPuts ==
  ASSUME Types, Calling, NEW c \in Client, IncSendingRef(c)
  PROVE  \E r : /\ Puts(HASH_ID(arg[c].id), r) /\ SameId(Sock(c), r) /\ r.type = Sock(c).type
                /\ r.writing = Sock(c).writing /\ Full(r) = Full(Sock(c))
                /\ r.sending = IF Counts(Sock(c), arg[c].id) THEN Sock(c).sending + 1
                                                             ELSE Sock(c).sending
<1> DEFINE s == HASH_ID(arg[c].id)
<1>1. s \in Slot /\ slot[s] \in Socket /\ arg[c].id \in Id
  BY CallingIs DEF IncSendingRef, Sock
<1>2. PICK n \in Nat : n = IF Counts(slot[s], arg[c].id) THEN slot[s].sending + 1 ELSE slot[s].sending
  BY <1>1, SocketIs
<1>3. PICK r : r = [slot[s] EXCEPT !.sending = n]
  OBVIOUS
<1>4. /\ r \in Socket /\ SameId(slot[s], r) /\ r.type = slot[s].type
      /\ r.writing = slot[s].writing /\ Full(r) = Full(slot[s]) /\ r.sending = n
  BY <1>1, <1>3 DEF Socket, SameId, Full
<1>5. slot' = [slot EXCEPT ![s] = r]
  BY <1>1, <1>2, <1>3 DEF IncSendingRef, Types
<1> QED BY <1>1, <1>2, <1>4, <1>5 DEF Puts, Sock

\* What no step of a client changes.
LEMMA ClientFrame ==
  ASSUME NEW c \in Client, ClientStep(c)
  PROVE  /\ aborted = "no" /\ UNCHANGED <<checkctrl, events, force, taken, closes, aborted>>
         /\ stray \subseteq stray'
<1>1. ReadStep(c) => UNCHANGED <<checkctrl, events, force, taken, closes, aborted, stray>>
  BY ReadFrame
<1> QED BY <1>1 DEF ClientStep, AskStep, SendStep, Ask, Reserve, Assign, AskOpen, Send, SendLowpriority,
               Check, Trylock, ReadStep, DirectWrite, Trigger, IncSendingRef, Queue, poll, client

\* The steps that put a request into the pipe.
LEMMA ClientSends ==
  ASSUME Types, Calling, NEW c \in Client
  PROVE  /\ \A op \in {"K", "shutdown", "R", "S"}, id \in Id :
              Ask(c, op, id) => Request(op, id) \in Requests /\ SendRequest(Request(op, id))
         /\ AskOpen(c) => arg[c] \in Requests /\ SendRequest(arg[c])
         /\ Trigger(c) => /\ arg[c].id \in Id /\ Request("W", arg[c].id) \in Requests
                          /\ SendRequest(Request("W", arg[c].id))
         /\ Queue(c) => arg[c] \in Requests /\ SendRequest(arg[c])
<1>1. \A op \in {"K", "shutdown", "R", "S"}, id \in Id :
        Ask(c, op, id) => Request(op, id) \in Requests /\ SendRequest(Request(op, id))
  BY RequestTyped DEF Ask, Op
<1>2. AskOpen(c) => arg[c] \in Requests /\ SendRequest(arg[c])
  BY CallingIs DEF AskOpen
<1>3. Queue(c) => arg[c] \in Requests /\ SendRequest(arg[c])
  BY CallingIs DEF Queue
<1>4. Trigger(c) => arg[c].id \in Id
  BY CallingIs DEF Trigger
<1>5. "W" \in Op
  BY DEF Op
<1>6. Trigger(c) => /\ arg[c].id \in Id /\ Request("W", arg[c].id) \in Requests
                    /\ SendRequest(Request("W", arg[c].id))
  BY <1>4, <1>5, RequestTyped DEF Trigger
<1> QED BY <1>1, <1>2, <1>3, <1>6


LEMMA ClientTypes ==
  ASSUME Types, Calling, Locks, Closing, NEW c \in Client, ClientStep(c)
  PROVE  Types' /\ Calling' /\ Locks' /\ Closing'
<1>1. aborted = "no" /\ UNCHANGED <<checkctrl, events, force, taken, closes, aborted>>
  BY ClientFrame
<1> DEFINE Rest == /\ alloc_id' \in 0 .. MaxId /\ lock' \in [Slot -> Client \union {None}]
                   /\ pipe' \in Seq(Requests) /\ Len(pipe') <= MaxPipe
                   /\ told' \in [Id -> {"no", "id", "open"}]
                   /\ pinned' \subseteq Client /\ stray' \subseteq Slot
           Slots == /\ slot' \in [Slot -> Socket]
                    /\ \A s \in Slot : slot'[s].id # 0 => HASH_ID(slot'[s].id) = s
                    /\ \A s \in Slot : Registered(slot[s]) => Registered(slot'[s])
<1>2. ASSUME UNCHANGED slot
      PROVE  Slots
  BY <1>2 DEF Types
<1>3. ASSUME NEW s, NEW r, Puts(s, r), r.id # 0 => HASH_ID(r.id) = s,
             Registered(slot[s]) => Registered(r)
      PROVE  Slots
  BY <1>3 DEF Types, Puts
<1>4. /\ UNCHANGED alloc_id => alloc_id' \in 0 .. MaxId
      /\ UNCHANGED lock => lock' \in [Slot -> Client \union {None}]
      /\ UNCHANGED pipe => pipe' \in Seq(Requests) /\ Len(pipe') <= MaxPipe
      /\ UNCHANGED told => told' \in [Id -> {"no", "id", "open"}]
      /\ UNCHANGED pinned => pinned' \subseteq Client
      /\ UNCHANGED stray => stray' \subseteq Slot
  BY DEF Types
<1>5. ASSUME NEW l, NEW a, Goes(c, l, a), Slots, Rest, Locks'
      PROVE  Types' /\ Calling' /\ Locks' /\ Closing'
  <2>1. pc' \in [Client -> Label] /\ arg' \in [Client -> Args] /\ Calling'
    BY <1>5, GoesOn
  <2>2. Types'
    BY <1>1, <1>5, <2>1 DEF Types, Args
  <2>3. Closing'
    BY <1>1, <1>5 DEF Closing
  <2> QED BY <1>5, <2>1, <2>2, <2>3
<1>6. \A s \in Slot : slot[s] \in Socket /\ (slot[s].id # 0 => HASH_ID(slot[s].id) = s)
  BY DEF Types
<1>7. CASE \E id \in Id, op \in {"K", "shutdown", "R", "S"} : Ask(c, op, id)
  <2>1. PICK id \in Id, op \in {"K", "shutdown", "R", "S"} : Ask(c, op, id)
    BY <1>7
  <2>2. UNCHANGED <<alloc_id, slot, lock, told, pc, arg, pinned, stray>>
    BY <2>1 DEF Ask, socket, client
  <2>3. pipe' \in Seq(Requests) /\ Len(pipe') <= MaxPipe
    BY <2>1, ClientSends, SendRequestTyped
  <2>4. Slots /\ Rest
    BY <1>2, <1>4, <2>2, <2>3
  <2>5. Types'
    BY <1>1, <2>2, <2>4 DEF Types
  <2> QED BY <1>1, <2>2, <2>5 DEF Calling, Locks, Closing
<1>8. CASE \E id \in Id, op \in {"O", "L"} : Reserve(c, op, id)
  <2>1. PICK id \in Id, op \in {"O", "L"} : Reserve(c, op, id)
    BY <1>8
  <2>2. /\ UNCHANGED <<lock, pipe, told, pinned, stray>> /\ alloc_id' = id
        /\ pc[c] \notin Holding /\ "assign" \notin Holding
    BY <2>1 DEF Reserve, Holding
  <2>3. Goes(c, "assign", Request(op, id))
    BY <2>1, ClientGoes
  <2>4. PICK r : /\ Puts(HASH_ID(id), r) /\ SameId(slot[HASH_ID(id)], r)
                 /\ r.type = "reserve" /\ slot[HASH_ID(id)].type = "invalid"
    BY <2>1, ReservePuts
  <2>5. (r.id # 0 => HASH_ID(r.id) = HASH_ID(id)) /\ ~Registered(slot[HASH_ID(id)])
    BY <1>6, <2>4 DEF SameId, Puts, Registered
  <2>6. Slots
    BY <1>3, <2>4, <2>5
  <2>7. Rest
    BY <1>4, <2>2 DEF Id
  <2>8. Locks'
    BY <2>2, <2>3, LocksSame
  <2> QED BY <1>5, <2>3, <2>6, <2>7, <2>8
<1>9. CASE Assign(c)
  <2>1. /\ UNCHANGED <<alloc_id, lock, pipe, told, pinned, stray>>
        /\ pc[c] \notin Holding /\ "ask" \notin Holding
    BY <1>9 DEF Assign, Holding
  <2>2. Goes(c, "ask", arg[c])
    BY <1>9, ClientGoes
  <2>3. PICK r : /\ Puts(HASH_ID(arg[c].id), r) /\ r.id = arg[c].id /\ ~r.tcp
                 /\ r.type = Sock(c).type
    BY <1>9, AssignPuts
  <2>4. Registered(slot[HASH_ID(arg[c].id)]) => Registered(r)
    BY <2>3 DEF Registered, Sock
  <2>5. Slots
    BY <1>3, <2>3, <2>4
  <2>6. Locks'
    BY <2>1, <2>2, LocksSame
  <2> QED BY <1>4, <1>5, <2>1, <2>2, <2>5, <2>6
<1>10. CASE AskOpen(c) \/ Trigger(c) \/ Queue(c)
  <2>1. /\ UNCHANGED <<alloc_id, slot, lock, pinned, stray>>
        /\ pc[c] \notin Holding /\ "idle" \notin Holding
    BY <1>10 DEF AskOpen, Trigger, Queue, socket, Holding
  <2>2. Goes(c, "idle", NoRequest)
    BY <1>10, ClientGoes
  <2>3. pipe' \in Seq(Requests) /\ Len(pipe') <= MaxPipe
    BY <1>10, ClientSends, SendRequestTyped
  <2>4. told' \in [Id -> {"no", "id", "open"}]
    BY <1>10 DEF AskOpen, Trigger, Queue, Types
  <2>5. Locks'
    BY <2>1, <2>2, LocksSame
  <2>6. Slots /\ Rest
    BY <1>2, <1>4, <2>1, <2>3, <2>4
  <2> QED BY <1>5, <2>2, <2>5, <2>6
<1>11. CASE (\E id \in Id : Send(c, id) \/ SendLowpriority(c, id)) \/ Check(c)
  <2>1. UNCHANGED <<alloc_id, slot, lock, pipe, told, pinned, stray>> /\ pc[c] \notin Holding
    BY <1>11 DEF Send, SendLowpriority, Check, socket, Holding
  <2>2. PICK l \in {"check", "inc", "trylock"} : \E a : Goes(c, l, a)
    BY <1>11, ClientGoes
  <2>5. l \notin Holding
    BY DEF Holding
  <2>3. Slots /\ Rest
    BY <1>2, <1>4, <2>1
  <2>4. Locks'
    BY <2>1, <2>2, <2>5, LocksSame
  <2> QED BY <1>5, <2>2, <2>3, <2>4
<1>12. CASE Trylock(c)
  <2> DEFINE s == HASH_ID(arg[c].id)
  <2>1. /\ UNCHANGED <<alloc_id, slot, pipe, told, stray>> /\ pc[c] \notin Holding /\ s \in Slot
        /\ "inc" \notin Holding /\ "readid" \in Holding
    BY <1>12, CallingIs DEF Trylock, Holding
  <2>2. PICK l \in {"readid", "inc"} : Goes(c, l, arg[c])
    BY <1>12, ClientGoes
  <2>3. /\ \A d \in Client \ {c} : pc'[d] = pc[d] /\ arg'[d] = arg[d]
        /\ pc'[c] = l /\ arg'[c] = arg[c]
    BY <2>2, GoesOn
  <2>4. IF l = "readid" THEN /\ lock[s] = None /\ lock' = [lock EXCEPT ![s] = c]
                             /\ pinned' \subseteq pinned \union {c}
                        ELSE UNCHANGED <<lock, pinned>>
    BY <1>12, <2>1, <2>3 DEF Trylock, Goto, Types
  <2>5. lock' \in [Slot -> Client \union {None}] /\ pinned' \subseteq Client
    BY <2>1, <2>4 DEF Types
  <2>6. Locks'
    <3>1. CASE l = "inc"
      BY <2>1, <2>2, <2>4, <3>1, LocksSame
    <3>2. CASE l = "readid"
      <4>1. \A t \in Slot : lock'[t] = IF t = s THEN c ELSE lock[t]
        BY <2>1, <2>4, <3>2 DEF Types
      <4>2. \A t \in Slot, d \in Client : lock'[t] = d <=> pc'[d] \in Holding /\ HASH_ID(arg'[d].id) = t
        BY <2>1, <2>3, <2>4, <3>2, <4>1, NoneIsNot DEF Locks
      <4>3. \A d \in pinned' : pc'[d] \in Holding
        BY <2>1, <2>3, <2>4, <2>5, <3>2 DEF Locks
      <4> QED BY <4>2, <4>3 DEF Locks
    <3> QED BY <2>2, <3>1, <3>2
  <2> QED BY <1>2, <1>4, <1>5, <2>1, <2>2, <2>5, <2>6
<1>15. ASSUME NEW l, NEW a, Goes(c, l, a), SocketUnlock(c), pc[c] \in Holding, l \notin Holding
       PROVE  Locks' /\ lock' \in [Slot -> Client \union {None}] /\ pinned' \subseteq Client
  <2> DEFINE s == HASH_ID(arg[c].id)
  <2>1. s \in Slot /\ lock' = [lock EXCEPT ![s] = None] /\ pinned' = pinned \ {c}
    BY <1>15, CallingIs DEF SocketUnlock
  <2>2. /\ \A d \in Client \ {c} : pc'[d] = pc[d] /\ arg'[d] = arg[d]
        /\ pc'[c] = l /\ arg'[c] = a
    BY <1>15, GoesOn
  <2>3. lock' \in [Slot -> Client \union {None}] /\ pinned' \subseteq Client
        /\ \A t \in Slot : lock'[t] = IF t = s THEN None ELSE lock[t]
    BY <2>1 DEF Types
  <2>4. lock[s] = c /\ \A t \in Slot \ {s} : lock[t] # c
    BY <1>15, <2>1 DEF Locks
  <2>5. \A t \in Slot, d \in Client : lock'[t] = d <=> pc'[d] \in Holding /\ HASH_ID(arg'[d].id) = t
    <3> SUFFICES ASSUME NEW t \in Slot, NEW d \in Client
                 PROVE  lock'[t] = d <=> pc'[d] \in Holding /\ HASH_ID(arg'[d].id) = t
      OBVIOUS
    <3>1. lock[t] = d <=> pc[d] \in Holding /\ HASH_ID(arg[d].id) = t
      BY DEF Locks
    <3>2. CASE d = c
      BY <1>15, <2>2, <2>3, <2>4, <3>2, NoneIsNot
    <3>3. CASE d # c /\ t = s
      BY <2>2, <2>3, <2>4, <3>1, <3>3, NoneIsNot
    <3>4. CASE d # c /\ t # s
      BY <2>2, <2>3, <3>1, <3>4
    <3> QED BY <3>2, <3>3, <3>4
  <2>6. \A d \in pinned' : pc'[d] \in Holding
    BY <2>1, <2>2, <2>3 DEF Locks
  <2> QED BY <2>3, <2>5, <2>6 DEF Locks
<1>16. CASE ReadStep(c)
  <2>1. UNCHANGED <<alloc_id, slot, pipe, told, stray>> /\ pc[c] \in Holding
    BY <1>16, ReadFrame
  <2>2. PICK l \in Holding \union {"inc"} : Goes(c, l, arg[c]) /\ ReadsOn(c, l)
    BY <1>16, ClientGoes
  <2>3. Locks' /\ lock' \in [Slot -> Client \union {None}] /\ pinned' \subseteq Client
    <3>1. CASE l \in Holding /\ UNCHANGED <<lock, pinned>>
      BY <1>4, <2>1, <2>2, <3>1, LocksSame
    <3>2. CASE l = "inc" /\ SocketUnlock(c)
      <4>1. l \notin Holding
        BY <3>2 DEF Holding
      <4> QED BY <1>15, <2>1, <2>2, <3>2, <4>1
    <3> QED BY <2>2, <3>1, <3>2 DEF ReadsOn
  <2> QED BY <1>2, <1>4, <1>5, <2>1, <2>2, <2>3
<1>13. CASE DirectWrite(c)
  <2> DEFINE s == HASH_ID(arg[c].id)
  <2>1. /\ UNCHANGED <<alloc_id, pipe, told>> /\ pc[c] \in Holding /\ s \in Slot
        /\ SocketUnlock(c) /\ "idle" \notin Holding /\ "trigger" \notin Holding
    BY <1>13, CallingIs DEF DirectWrite, Holding
  <2>2. PICK l \in {"idle", "trigger"}, a \in {NoRequest, arg[c]} : Goes(c, l, a)
    BY <1>13, ClientGoes
  <2>3. stray' \subseteq Slot
    BY <1>13, <2>1 DEF DirectWrite, Types
  <2>4. Locks' /\ lock' \in [Slot -> Client \union {None}] /\ pinned' \subseteq Client
    BY <1>15, <2>1, <2>2
  <2>6. PICK r : /\ Puts(s, r) /\ SameId(Sock(c), r) /\ r.type = Sock(c).type
    BY <1>13, WritePuts
  <2>7. (r.id # 0 => HASH_ID(r.id) = s) /\ (Registered(slot[s]) => Registered(r))
    BY <1>6, <2>1, <2>6 DEF SameId, Registered, Sock
  <2>8. Slots
    BY <1>3, <2>6, <2>7
  <2> QED BY <1>4, <1>5, <2>1, <2>2, <2>3, <2>4, <2>8
<1>14. CASE IncSendingRef(c)
  <2> DEFINE s == HASH_ID(arg[c].id)
  <2>1. /\ UNCHANGED <<alloc_id, lock, pipe, told, pinned, stray>> /\ s \in Slot
        /\ pc[c] \notin Holding /\ "queue" \notin Holding
    BY <1>14, CallingIs DEF IncSendingRef, Holding
  <2>2. \E a : Goes(c, "queue", a)
    BY <1>14, ClientGoes
  <2>3. Locks'
    BY <2>1, <2>2, LocksSame
  <2>4. PICK r : /\ Puts(s, r) /\ SameId(Sock(c), r) /\ r.type = Sock(c).type
    BY <1>14, IncPuts
  <2>5. (r.id # 0 => HASH_ID(r.id) = s) /\ (Registered(slot[s]) => Registered(r))
    BY <1>6, <2>1, <2>4 DEF SameId, Registered, Sock
  <2>6. Slots
    BY <1>3, <2>4, <2>5
  <2> QED BY <1>4, <1>5, <2>1, <2>2, <2>3, <2>6
<1> QED BY <1>7, <1>8, <1>9, <1>10, <1>11, <1>12, <1>13, <1>14, <1>16
    DEF ClientStep, AskStep, SendStep, ReadStep


-------------------------------------------------------------------------------
(***************************************************************************)
(* The socket thread keeps the calls of the clients and their locks, and   *)
(* closes only slots that have a descriptor.                               *)
(***************************************************************************)
LEMMA ForceClosing ==
  ASSUME Types, NEW s \in Slot, NEW clear, NEW raise, ForceClose(s, clear, raise),
         slot[s].type # "invalid"
  PROVE  Closing'
<1>1. force'.slot = s /\ slot[s] \in Socket
  BY DEF ForceClose, Types
<1>2. slot'[s].type = slot[s].type
  BY <1>1 DEF ForceClose, Types, Socket
<1>3. aborted' = "no" => slot[s].type # "reserve"
  BY DEF ForceClose, Asserted
<1> QED BY <1>1, <1>2, <1>3 DEF Closing, Busy, Registered

LEMMA ThreadClosing ==
  ASSUME Types, Closing, ThreadStep
  PROVE  Closing'
<1>1. force' = None \/ force'.closed => Closing'
  BY DEF Closing, Busy
<1>2. CASE CtrlCmd
  <2>2. ASSUME NEW id, Failed(id)
        PROVE  Closing'
    BY <1>1, <2>2 DEF Failed
  <2>1. ASSUME NEW op \in {"K", "shutdown"}, CloseNow(op)
        PROVE  Closing'
    <3>1. HASH_ID(Req) \in Slot
      BY <2>1, RequestIs DEF CloseNow, Take, Req
    <3>2. slot[HASH_ID(Req)].type # "invalid"
      BY <2>1 DEF CloseNow, SocketInvalid, Target
    <3> QED BY <2>1, <3>1, <3>2, ForceClosing DEF CloseNow
  <2> QED BY <1>1, <1>2, <2>1, <2>2
      DEF CtrlCmd, OpenSocket, ListenSocket, ResumeSocket, PauseSocket, TriggerWrite, SendSocket,
          CloseLater, CloseIgnored, Take, poll
<1>3. CASE FinishClose \/ ClearClosedEvent
  <2>1. force \in Forces
    BY <1>3 DEF FinishClose, ClearClosedEvent, Types
  <2> QED BY <1>1, <1>3, <2>1 DEF FinishClose, ClearClosedEvent, Returned, Forces
<1>4. CASE NextEvent \/ EpollWait
  <2>1. aborted = "no" /\ force = None
    BY <1>4, EventStep
  <2>2. ASSUME NEW e \in Events, NEW rest, Handle(e, rest)
        PROVE  Closing'
    <3>1. ASSUME NEW clear, NEW raise, ForceClose(e.slot, clear, raise), e.slot # None,
                 slot[e.slot].type # "invalid"
          PROVE  Closing'
      <4>1. e.slot \in Slot
        BY <3>1 DEF Events
      <4> QED BY <3>1, <4>1, ForceClosing
    <3>2. CASE ReportConnect(e, rest)
      BY <1>1, <2>1, <3>1, <3>2 DEF ReportConnect
    <3>3. CASE ReadEnd(e, rest)
      BY <1>1, <2>1, <3>1, <3>3 DEF ReadEnd, Reads, AtSocket
    <3>4. CASE ReadReserved(e, rest)
      BY <1>1, <2>1, <3>1, <3>4 DEF ReadReserved, AtSocket
    <3>5. CASE EofEvent(e, rest)
      BY <1>1, <2>1, <3>1, <3>5 DEF EofEvent, AtSocket
    <3> QED BY <1>1, <2>1, <2>2, <3>2, <3>3, <3>4, <3>5
        DEF Handle, NoSocket, ReportAccept, ReadData, SendBlocked, SendUncomplete, SendEvent, ErrorEvent
  <2>3. \/ UNCHANGED <<alloc_id, socket, pipe, force, told, taken, closes, client, aborted>>
        \/ \E q \in Seq(Events) : q # <<>> /\ Handle(Head(q), Tail(q))
    BY <1>4, EventStep
  <2>4. ASSUME NEW q \in Seq(Events), q # <<>>, Handle(Head(q), Tail(q))
        PROVE  Closing'
    <3>1. Head(q) \in Events
      BY <2>4, HeadTail
    <3> QED BY <2>2, <2>4, <3>1
  <2> QED BY <1>1, <2>1, <2>3, <2>4
<1> QED BY <1>2, <1>3, <1>4 DEF ThreadStep

LEMMA ThreadClients ==
  ASSUME Types, Calling, Locks, Closing, ThreadStep
  PROVE  Calling' /\ Locks' /\ UNCHANGED <<lock, pc, arg, pinned, stray>> /\ taken \subseteq taken'
<1>1. UNCHANGED <<lock, pc, arg, pinned, stray>> /\ taken \subseteq taken'
  BY ThreadMoves DEF Move, Moves, client
<1> QED BY <1>1 DEF Calling, Locks

LEMMA TailDiffers ==
  ASSUME Types, pipe # <<>>
  PROVE  Tail(pipe) # pipe
<1>1. PICK n \in Nat : n = Len(pipe) /\ Len(Tail(pipe)) = n - 1
  BY RequestIs DEF Types
<1>2. n # n - 1
  OBVIOUS
<1> QED BY <1>1, <1>2

LEMMA AskedIsUnopened ==
  ASSUME Types, pipe # <<>>, Head(pipe).op \in OpenOp
  PROVE  Unopened(Head(pipe).id)
BY RequestIs DEF Unopened, Awaits

-------------------------------------------------------------------------------
(***************************************************************************)
(* The ids that are not opened yet.                                        *)
(***************************************************************************)
LEMMA SameUnopened ==
  ASSUME OpenedOnce, UNCHANGED <<pipe, pc, arg>>
  PROVE  OpenedOnce' /\ \A id \in Id : Unopened(id)' <=> Unopened(id)
BY DEF OpenedOnce, Unopened, Opens, Awaits

LEMMA TailUnopened ==
  ASSUME Types, OpenedOnce, UNCHANGED <<pc, arg>>, pipe # <<>>, pipe' = Tail(pipe)
  PROVE  /\ OpenedOnce'
         /\ \A id \in Id : Unopened(id)' <=>
                             Unopened(id) /\ ~(Head(pipe).op \in OpenOp /\ Head(pipe).id = id)
<1>1. pipe \in Seq(Requests)
  BY DEF Types
<1>2. PICK n \in Nat : n = Len(pipe) /\ n > 0 /\ Len(pipe') = n - 1
  BY <1>1, HeadTail
<1>3. /\ \A i \in 1 .. n - 1 : i + 1 \in 1 .. n /\ pipe'[i] = pipe[i + 1]
      /\ \A i \in 1 .. n : i = 1 \/ (i - 1 \in 1 .. n - 1 /\ pipe'[i - 1] = pipe[i])
      /\ Head(pipe) = pipe[1] /\ 1 \in 1 .. n
  BY <1>1, <1>2, HeadTail
<1>4. ASSUME NEW id \in Id
      PROVE  /\ \A c \in Client : Opens(c, id)' <=> Opens(c, id)
             /\ \A i \in 1 .. n - 1 : i + 1 \in 1 .. n /\ (Awaits(i, id)' <=> Awaits(i + 1, id))
             /\ \A i \in 1 .. n : i = 1 \/ (i - 1 \in 1 .. n - 1 /\ (Awaits(i, id) <=> Awaits(i - 1, id)'))
             /\ Awaits(1, id) <=> Head(pipe).op \in OpenOp /\ Head(pipe).id = id
  BY <1>3 DEF Opens, Awaits
<1>5. OpenedOnce'
  <2>1. ASSUME NEW id \in Id, NEW i \in 1 .. n - 1, NEW j \in 1 .. n - 1,
               Awaits(i, id)', Awaits(j, id)'
        PROVE  i = j
    <3>1. i + 1 \in 1 .. n /\ j + 1 \in 1 .. n /\ Awaits(i + 1, id) /\ Awaits(j + 1, id)
      BY <1>4, <2>1
    <3>2. i + 1 = j + 1
      BY <1>2, <3>1 DEF OpenedOnce
    <3> QED BY <3>2
  <2>2. ASSUME NEW id \in Id, NEW c \in Client, NEW i \in 1 .. n - 1, Opens(c, id)', Awaits(i, id)'
        PROVE  FALSE
    <3>1. i + 1 \in 1 .. n /\ Awaits(i + 1, id) /\ Opens(c, id)
      BY <1>4, <2>2
    <3> QED BY <1>2, <3>1 DEF OpenedOnce
  <2>3. ASSUME NEW id \in Id, NEW c \in Client, NEW d \in Client, Opens(c, id)', Opens(d, id)'
        PROVE  c = d
    BY <1>4, <2>3 DEF OpenedOnce
  <2> QED BY <1>2, <2>1, <2>2, <2>3 DEF OpenedOnce
<1>6. ASSUME NEW id \in Id
      PROVE  Unopened(id)' <=> Unopened(id) /\ ~(Head(pipe).op \in OpenOp /\ Head(pipe).id = id)
  <2>1. ASSUME Unopened(id)'
        PROVE  Unopened(id) /\ ~Awaits(1, id)
    <3>1. CASE \E c \in Client : Opens(c, id)'
      <4>1. PICK c \in Client : Opens(c, id)
        BY <1>4, <3>1
      <4> QED BY <1>2, <1>3, <4>1 DEF Unopened, OpenedOnce
    <3>2. CASE \E i \in 1 .. n - 1 : Awaits(i, id)'
      <4>1. PICK i \in 1 .. n - 1 : Awaits(i, id)'
        BY <3>2
      <4>2. i + 1 \in 1 .. n /\ Awaits(i + 1, id) /\ i + 1 # 1
        BY <1>4, <4>1
      <4> QED BY <1>2, <1>3, <4>2 DEF Unopened, OpenedOnce
    <3> QED BY <1>2, <2>1, <3>1, <3>2 DEF Unopened
  <2>2. ASSUME Unopened(id), ~Awaits(1, id)
        PROVE  Unopened(id)'
    <3>1. CASE \E c \in Client : Opens(c, id)
      BY <1>4, <3>1 DEF Unopened
    <3>2. CASE \E i \in 1 .. n : Awaits(i, id)
      <4>1. PICK i \in 1 .. n : Awaits(i, id)
        BY <3>2
      <4>2. i - 1 \in 1 .. n - 1 /\ Awaits(i - 1, id)'
        BY <1>4, <2>2, <4>1
      <4> QED BY <1>2, <4>2 DEF Unopened
    <3> QED BY <1>2, <2>2, <3>1, <3>2 DEF Unopened
  <2> QED BY <1>4, <2>1, <2>2
<1> QED BY <1>5, <1>6

\* A client sends a request that opens nothing, and its label stays, or opens nothing.
LEMMA AppendUnopened ==
  ASSUME Types, OpenedOnce, NEW r \in Requests, SendRequest(r), r.op \notin OpenOp,
         \A c \in Client, id \in Id : Opens(c, id)' <=> Opens(c, id)
  PROVE  OpenedOnce' /\ \A id \in Id : Unopened(id)' <=> Unopened(id)
<1>1. PICK n \in Nat : /\ n = Len(pipe) /\ Len(pipe') = n + 1 /\ pipe'[n + 1] = r
                       /\ \A i \in 1 .. n : pipe'[i] = pipe[i]
  BY SendRequestTyped
<1>2. \A id \in Id : /\ \A i \in 1 .. n : i \in 1 .. n + 1 /\ (Awaits(i, id)' <=> Awaits(i, id))
                     /\ \A i \in 1 .. n + 1 : Awaits(i, id)' => i \in 1 .. n
  <2>1. \A i \in 1 .. n + 1 : i \in 1 .. n \/ i = n + 1
    OBVIOUS
  <2>2. \A i \in 1 .. n : i \in 1 .. n + 1
    OBVIOUS
  <2> QED BY <1>1, <2>1, <2>2 DEF Awaits
<1>3. OpenedOnce'
  BY <1>1, <1>2 DEF OpenedOnce
<1>4. \A id \in Id : Unopened(id)' <=> Unopened(id)
  BY <1>1, <1>2 DEF Unopened
<1> QED BY <1>3, <1>4

\* The request to open the id goes from the client to the pipe.
LEMMA AskOpenUnopened ==
  ASSUME Types, Calling, OpenedOnce, NEW c \in Client, AskOpen(c)
  PROVE  OpenedOnce' /\ \A id \in Id : Unopened(id)' <=> Unopened(id)
<1>1. arg[c] \in Requests /\ SendRequest(arg[c]) /\ Goes(c, "idle", NoRequest)
  BY ClientSends, ClientGoes
<1>2. arg[c].op \in OpenOp /\ pc[c] = "ask"
  BY DEF AskOpen, Calling
<1>3. PICK n \in Nat : /\ n = Len(pipe) /\ Len(pipe') = n + 1 /\ pipe'[n + 1] = arg[c]
                       /\ \A i \in 1 .. n : pipe'[i] = pipe[i]
  BY <1>1, SendRequestTyped
<1>4. \A d \in Client, id \in Id : Opens(d, id)' <=> d # c /\ Opens(d, id)
  BY <1>1, GoesOn DEF Opens
<1>5. \A id \in Id : /\ Awaits(n + 1, id)' <=> Opens(c, id)
                     /\ n + 1 \in 1 .. n + 1
                     /\ \A i \in 1 .. n : i \in 1 .. n + 1 /\ (Awaits(i, id)' <=> Awaits(i, id))
                     /\ \A i \in 1 .. n + 1 : i \in 1 .. n \/ i = n + 1
  <2>1. \A i \in 1 .. n + 1 : i \in 1 .. n \/ i = n + 1
    OBVIOUS
  <2>2. \A i \in 1 .. n : i \in 1 .. n + 1
    OBVIOUS
  <2> QED BY <1>2, <1>3, <2>1, <2>2 DEF Awaits, Opens
<1>6. OpenedOnce'
  <2>1. ASSUME NEW id \in Id, NEW i \in 1 .. n + 1, NEW j \in 1 .. n + 1,
               Awaits(i, id)', Awaits(j, id)'
        PROVE  i = j
    BY <1>3, <1>5, <2>1 DEF OpenedOnce
  <2>2. ASSUME NEW id \in Id, NEW d \in Client, NEW i \in 1 .. n + 1, Opens(d, id)', Awaits(i, id)'
        PROVE  FALSE
    BY <1>3, <1>4, <1>5, <2>2 DEF OpenedOnce
  <2>3. ASSUME NEW id \in Id, NEW d \in Client, NEW b \in Client, Opens(d, id)', Opens(b, id)'
        PROVE  d = b
    BY <1>4, <2>3 DEF OpenedOnce
  <2> QED BY <1>3, <2>1, <2>2, <2>3 DEF OpenedOnce
<1>7. \A id \in Id : Unopened(id)' <=> Unopened(id)
  BY <1>3, <1>4, <1>5 DEF Unopened
<1> QED BY <1>6, <1>7

LEMMA ReserveUnopened ==
  ASSUME Types, Calling, OpenedOnce, Ids, NEW c \in Client, NEW op \in {"O", "L"}, NEW id \in Id,
         Reserve(c, op, id)
  PROVE  OpenedOnce' /\ \A j \in Id : Unopened(j)' <=> Unopened(j) \/ j = id
<1>1. Goes(c, "assign", Request(op, id)) /\ pipe' = pipe /\ pc[c] = "idle" /\ id > alloc_id
  <2>1. id > alloc_id
    BY ReservePuts
  <2> QED BY <2>1, ClientGoes DEF Reserve
<1>2. ~Unopened(id)
  BY <1>1, IdIsNat DEF Ids, Types
<1>3. \A d \in Client, j \in Id : Opens(d, j)' <=> IF d = c THEN j = id ELSE Opens(d, j)
  BY <1>1, GoesOn DEF Opens, Request
<1>4. \A d \in Client : ~Opens(d, id)
  BY <1>2 DEF Unopened
<1>5. \A j \in Id : ~Opens(c, j)
  BY <1>1 DEF Opens
<1>6. \A j \in Id, i \in 1 .. Len(pipe) : Awaits(i, j)' <=> Awaits(i, j)
  BY <1>1 DEF Awaits
<1>7. \A i \in 1 .. Len(pipe) : ~Awaits(i, id)
  BY <1>2 DEF Unopened
<1>8. OpenedOnce'
  BY <1>1, <1>3, <1>4, <1>5, <1>6, <1>7 DEF OpenedOnce
<1>9. \A j \in Id : Unopened(j)' <=> Unopened(j) \/ j = id
  BY <1>1, <1>3, <1>5, <1>6 DEF Unopened
<1> QED BY <1>8, <1>9

\* All other steps of a client.
LEMMA ClientUnopened ==
  ASSUME Types, Calling, OpenedOnce, NEW c \in Client, ClientStep(c),
         ~\E id \in Id, op \in {"O", "L"} : Reserve(c, op, id)
  PROVE  OpenedOnce' /\ \A id \in Id : Unopened(id)' <=> Unopened(id)
<1>1. ASSUME NEW l, NEW a, Goes(c, l, a), pc[c] \notin {"assign", "ask"}, l \notin {"assign", "ask"}
      PROVE  \A d \in Client, id \in Id : Opens(d, id)' <=> Opens(d, id)
  BY <1>1, GoesOn DEF Opens
<1>2. ASSUME \A d \in Client, id \in Id : Opens(d, id)' <=> Opens(d, id), pipe' = pipe
      PROVE  OpenedOnce' /\ \A id \in Id : Unopened(id)' <=> Unopened(id)
  BY <1>2 DEF OpenedOnce, Unopened, Awaits
<1>3. CASE \E id \in Id, op \in {"K", "shutdown", "R", "S"} : Ask(c, op, id)
  <2>1. PICK id \in Id, op \in {"K", "shutdown", "R", "S"} : Ask(c, op, id)
    BY <1>3
  <2>2. PICK r \in Requests : r = Request(op, id) /\ SendRequest(r)
    BY <2>1, ClientSends
  <2>3. r.op \notin OpenOp
    BY <2>2 DEF Request, OpenOp
  <2>4. \A d \in Client, i \in Id : Opens(d, i)' <=> Opens(d, i)
    BY <2>1 DEF Ask, client, Opens
  <2> QED BY <2>2, <2>3, <2>4, AppendUnopened
<1>4. CASE Assign(c)
  <2>1. Goes(c, "ask", arg[c]) /\ pc[c] = "assign" /\ pipe' = pipe
    BY <1>4, ClientGoes DEF Assign
  <2>2. \A d \in Client, id \in Id : Opens(d, id)' <=> Opens(d, id)
    BY <2>1, GoesOn DEF Opens
  <2> QED BY <1>2, <2>1, <2>2
<1>5. CASE AskOpen(c)
  BY <1>5, AskOpenUnopened
<1>6. CASE \E id \in Id : Send(c, id) \/ SendLowpriority(c, id)
  <2>1. pc[c] = "idle" /\ pipe' = pipe
    BY <1>6 DEF Send, SendLowpriority
  <2>2. \E l \in {"check", "inc"} : \E a : Goes(c, l, a)
    BY <1>6, ClientGoes
  <2> QED BY <1>1, <1>2, <2>1, <2>2
<1>7. CASE Check(c) \/ Trylock(c) \/ DirectWrite(c) \/ IncSendingRef(c)
  <2>1. pc[c] \notin {"assign", "ask"} /\ pipe' = pipe
    BY <1>7 DEF Check, Trylock, DirectWrite, IncSendingRef
  <2>2. \E l \in {"trylock", "inc", "readid", "idle", "trigger", "queue"} : \E a : Goes(c, l, a)
    BY <1>7, ClientGoes
  <2> QED BY <1>1, <1>2, <2>1, <2>2
<1>9. CASE ReadStep(c)
  <2>1. pc[c] \notin {"assign", "ask"} /\ pipe' = pipe
    BY <1>9, ReadFrame DEF Holding
  <2>2. PICK l \in Holding \union {"inc"} : Goes(c, l, arg[c])
    BY <1>9, ClientGoes
  <2> QED BY <1>1, <1>2, <2>1, <2>2 DEF Holding
<1>8. CASE Trigger(c) \/ Queue(c)
  <2>1. pc[c] \in {"trigger", "queue"} /\ Goes(c, "idle", NoRequest)
    BY <1>8, ClientGoes DEF Trigger, Queue
  <2>2. \A d \in Client, id \in Id : Opens(d, id)' <=> Opens(d, id)
    BY <1>1, <2>1
  <2>3. PICK r \in Requests : SendRequest(r) /\ (r = arg[c] \/ r = Request("W", arg[c].id))
    BY <1>8, ClientSends
  <2>4. r.op \notin OpenOp
    BY <2>1, <2>3 DEF Calling, Request, OpenOp, SendOp, Sending
  <2> QED BY <2>2, <2>3, <2>4, AppendUnopened
<1> QED BY <1>3, <1>4, <1>5, <1>6, <1>7, <1>8, <1>9 DEF ClientStep, AskStep, SendStep, ReadStep


-------------------------------------------------------------------------------
(***************************************************************************)
(* The socket thread keeps the invariants of ids and slots.                *)
(***************************************************************************)
LEMMA MovesPipe ==
  ASSUME Types, NEW s \in Slot, NEW r \in Socket, Moves(s, r)
  PROVE  /\ pipe' = pipe \/ (pipe # <<>> /\ pipe' = Tail(pipe))
         /\ Len(pipe') \in Nat
         /\ \A i \in 1 .. Len(pipe') : \E j \in 1 .. Len(pipe) : pipe'[i] = pipe[j]
<1>1. pipe' = pipe \/ (pipe # <<>> /\ pipe' = Tail(pipe))
  BY DEF Moves, Cares
<1>2. CASE pipe # <<>> /\ pipe' = Tail(pipe)
  <2>1. pipe \in Seq(Requests)
    BY DEF Types
  <2>2. PICK n \in Nat : /\ n = Len(pipe) /\ Len(pipe') = n - 1 /\ n > 0
                         /\ \A i \in 1 .. n - 1 : pipe'[i] = pipe[i + 1]
    BY <1>2, <2>1, HeadTail
  <2>3. \A i \in 1 .. n - 1 : i + 1 \in 1 .. n
    OBVIOUS
  <2> QED BY <1>1, <2>2, <2>3
<1> QED BY <1>1, <1>2 DEF Types

LEMMA MovesUnopened ==
  ASSUME Types, OpenedOnce, NEW s \in Slot, NEW r \in Socket, Moves(s, r)
  PROVE  /\ OpenedOnce' /\ \A id \in Id : Unopened(id)' => Unopened(id)
         /\ \A id \in Id : Takes(OpenOp) /\ id = Head(pipe).id => ~Unopened(id)'
<1>1. UNCHANGED <<pc, arg>>
  BY DEF Moves, client
<1>2. pipe' = pipe \/ (pipe # <<>> /\ pipe' = Tail(pipe))
  BY MovesPipe
<1>3. CASE pipe' = pipe
  <2>1. ~Takes(OpenOp)
    BY <1>3, TailDiffers DEF Takes
  <2> QED BY <1>1, <1>3, <2>1, SameUnopened
<1>4. CASE pipe # <<>> /\ pipe' = Tail(pipe)
  <2>1. /\ OpenedOnce'
        /\ \A id \in Id : Unopened(id)' <=>
                            Unopened(id) /\ ~(Head(pipe).op \in OpenOp /\ Head(pipe).id = id)
    BY <1>1, <1>4, TailUnopened
  <2>2. \A id \in Id : Takes(OpenOp) /\ id = Head(pipe).id => ~Unopened(id)'
    BY <2>1 DEF Takes
  <2> QED BY <2>1, <2>2
<1> QED BY <1>2, <1>3, <1>4


LEMMA ThreadIds ==
  ASSUME Types, OpenedOnce, Ids, Counteds, NEW s \in Slot, NEW r \in Socket, Moves(s, r)
  PROVE  Ids' /\ Counteds' /\ alloc_id <= alloc_id' /\ alloc_id \in Nat /\ alloc_id' \in Nat
<1>1. /\ \A id \in Id : Unopened(id)' => Unopened(id)
      /\ \A id \in Id : Takes(OpenOp) /\ id = Head(pipe).id => ~Unopened(id)'
  BY MovesUnopened
<1>2. PICK n \in Nat, m \in Nat : n = alloc_id /\ m = alloc_id' /\ n <= m
  <2>1. alloc_id \in Nat
    BY DEF Types
  <2>2. alloc_id' = alloc_id \/ (alloc_id' \in Id /\ alloc_id' > alloc_id)
    BY DEF Moves, Kinds, Quiet, Shuts, Fails, Succeeds, Accepts, Discounts
  <2>3. CASE alloc_id' = alloc_id
    BY <2>1, <2>3
  <2>4. CASE alloc_id' \in Id /\ alloc_id' > alloc_id
    <3>1. PICK m \in Nat : m = alloc_id'
      BY <2>4 DEF Id
    <3> QED BY <2>1, <2>4, <3>1
  <2> QED BY <2>2, <2>3, <2>4
<1>3. \A i \in Id : Unopened(i)' => i <= m
  <2>1. \A i \in Id : i \in Nat /\ (Unopened(i) => i <= n)
    BY <1>2, IdIsNat DEF Ids
  <2> QED BY <1>1, <1>2, <2>1
<1>4. \A t \in Slot : /\ slot[t] \in Socket /\ slot'[t] = IF t = s THEN r ELSE slot[t]
                      /\ slot[t].id \in Nat /\ slot[t].id <= n
  BY <1>2, SocketIs DEF Moves, Types, Ids
<1>5. /\ r.id <= m
      /\ r.tcp => r.id # 0 /\ r.tag = ID_TAG16(r.id)
      /\ \A i \in Id : r.tcp /\ r.id = i => ~Unopened(i)'
  <2>1. CASE SameId(slot[s], r)
    <3>1. slot[s].id <= m
      BY <1>2, <1>4
    <3>2. slot[s].tcp => slot[s].id # 0 /\ slot[s].tag = ID_TAG16(slot[s].id)
      BY DEF Ids
    <3>3. \A i \in Id : slot[s].tcp /\ slot[s].id = i => ~Unopened(i)
      BY DEF Ids
    <3> QED BY <1>1, <2>1, <3>1, <3>2, <3>3 DEF SameId
  <2>2. CASE Succeeds(s, r)
    <3>1. /\ pipe # <<>> /\ NewSocket(r, Head(pipe).id) /\ Head(pipe).id \in Id
          /\ Head(pipe) = pipe[1] /\ Len(pipe) > 0
      BY <2>2, RequestIs DEF Succeeds, Takes
    <3>2. 1 \in 1 .. Len(pipe)
      BY <3>1 DEF Types
    <3>3. PICK i \in Nat : i = Head(pipe).id /\ i <= n /\ i # 0
      BY <1>2, <3>1, <3>2, IdIsNat DEF Ids
    <3>4. \A j \in Id : r.tcp /\ r.id = j => ~Unopened(j)'
      BY <1>1, <2>2, <3>1 DEF Succeeds, NewSocket
    <3>5. i <= m
      BY <1>2, <3>3
    <3> QED BY <3>1, <3>3, <3>4, <3>5 DEF NewSocket
  <2>3. CASE Accepts(s, r)
    <3>1. m \in Id /\ m > n /\ r.id = m /\ m # 0
      BY <1>2, <2>3, IdIsNat DEF Accepts, NewSocket
    <3>2. ~Unopened(m)
      BY <1>2, <3>1 DEF Ids
    <3>3. r.tcp => r.tag = ID_TAG16(r.id)
      BY <1>2, <2>3, <3>1 DEF Accepts, NewSocket
    <3> QED BY <1>1, <1>2, <3>1, <3>2, <3>3
  <2> QED BY <2>1, <2>2, <2>3 DEF Moves, Kinds, Quiet, Shuts, Fails, Discounts
<1>6. \A t \in Slot : slot'[t].id <= m
  BY <1>2, <1>4, <1>5
<1>7. \A t \in Slot : slot'[t].tcp => slot'[t].id # 0 /\ slot'[t].tag = ID_TAG16(slot'[t].id)
  BY <1>4, <1>5 DEF Ids
<1>8. \A t \in Slot, i \in Id : slot'[t].tcp /\ slot'[t].id = i => ~Unopened(i)'
  BY <1>1, <1>4, <1>5 DEF Ids
<1>9. \A i \in Id : told'[i] # "no" => i <= m
  <2>1. \A i \in Id : i \in Nat /\ (told[i] # "no" => i <= n)
    BY <1>2, IdIsNat DEF Ids
  <2>2. told' = told \/ \E j, v : told' = [told EXCEPT ![j] = v] /\ j <= m
    <3>1. CASE Quiet(s, r)
      <4>1. slot[s].id <= m
        BY <1>2, <1>4
      <4> QED BY <3>1, <4>1 DEF Quiet
    <3>2. CASE Succeeds(s, r)
      <4>1. NewSocket(r, Head(pipe).id)
        BY <3>2 DEF Succeeds
      <4>2. Head(pipe).id <= m
        BY <1>5, <4>1 DEF NewSocket
      <4> QED BY <3>2, <4>2 DEF Succeeds
    <3>3. CASE Accepts(s, r)
      <4>1. told' = told \/ told' = [told EXCEPT ![m] = "id"]
        BY <1>2, <3>3 DEF Accepts
      <4> QED BY <1>2, <4>1
    <3> QED BY <3>1, <3>2, <3>3 DEF Moves, Kinds, Shuts, Fails, Discounts
  <2>3. \A i \in Id : told'[i] # "no" => told[i] # "no" \/ i <= m
    BY <2>2 DEF Types
  <2> QED BY <1>2, <2>1, <2>3
<1>10. /\ pipe' = pipe \/ (pipe # <<>> /\ pipe' = Tail(pipe))
       /\ \A i \in 1 .. Len(pipe') : \E j \in 1 .. Len(pipe) : pipe'[i] = pipe[j]
  BY MovesPipe
<1>11. \A i \in 1 .. Len(pipe') : pipe'[i].id <= m
  <2>1. \A j \in 1 .. Len(pipe) : pipe[j] \in Requests
    BY DEF Types
  <2>2. \A j \in 1 .. Len(pipe) : pipe[j].id \in Nat /\ pipe[j].id <= n
    BY <1>2, <2>1, IdIsNat DEF Ids, Requests
  <2> QED BY <1>2, <1>10, <2>2
<1>12. UNCHANGED <<pc, arg>>
  BY DEF Moves, client
<1>13. \A c \in Client : arg'[c].id <= m
  <2>1. \A c \in Client : arg[c].id \in Nat /\ arg[c].id <= n
    BY <1>2, IdIsNat DEF Ids, Types
  <2> QED BY <1>2, <1>12, <2>1
<1>14. Ids'
  BY <1>2, <1>3, <1>6, <1>7, <1>8, <1>9, <1>11, <1>13 DEF Ids
<1>15. Counteds'
  BY <1>1, <1>10, <1>12 DEF Counteds
<1> QED BY <1>2, <1>14, <1>15


LEMMA ThreadSlots ==
  ASSUME Types, aborted = "no", OpenedOnce, ReservedForOne, Locked, Connected,
         NEW s \in Slot, NEW r \in Socket, Moves(s, r)
  PROVE  ReservedForOne' /\ Locked' /\ Connected'
<1>1. /\ \A id \in Id : Unopened(id)' => Unopened(id)
      /\ \A id \in Id : Takes(OpenOp) /\ id = Head(pipe).id => ~Unopened(id)'
  BY MovesUnopened
<1>2. \A t \in Slot : slot'[t] = IF t = s THEN r ELSE slot[t]
  BY DEF Moves, Types
<1>3. taken \subseteq taken' /\ UNCHANGED <<lock, pc, arg, pinned>>
  BY DEF Moves, client
<1>4. \A id \in Id : HASH_ID(id) \in Slot
  BY IdIsNat, HashInSlot
<1>5. ASSUME Takes(OpenOp), s = HASH_ID(Head(pipe).id)
      PROVE  \E i \in Id : /\ i = Head(pipe).id /\ s = HASH_ID(i) /\ Unopened(i) /\ ~Unopened(i)'
                           /\ s \notin taken => slot[s].type = "reserve"
  <2>1. Head(pipe).id \in Id /\ Unopened(Head(pipe).id)
    BY <1>5, RequestIs, AskedIsUnopened DEF Takes
  <2>2. PICK i \in Id : i = Head(pipe).id /\ Unopened(i)
    BY <2>1
  <2> QED BY <1>1, <1>5, <2>2 DEF ReservedForOne
<1>6. ASSUME NEW i \in Id, NEW j \in Id, aborted' = "no", HASH_ID(i) \notin taken',
             HASH_ID(i) = HASH_ID(j), Unopened(i)', Unopened(j)'
      PROVE  i = j /\ slot'[HASH_ID(i)].type = "reserve"
  <2>1. i = j /\ slot[HASH_ID(i)].type = "reserve"
    BY <1>1, <1>3, <1>6 DEF ReservedForOne
  <2>2. CASE HASH_ID(i) # s
    BY <1>2, <1>4, <2>1, <2>2
  <2>3. CASE HASH_ID(i) = s
    <3>1. ~(Fails(s, r) \/ Succeeds(s, r))
      <4>1. ASSUME Fails(s, r) \/ Succeeds(s, r)
            PROVE  FALSE
        <5>1. PICK k \in Id : s = HASH_ID(k) /\ Unopened(k) /\ ~Unopened(k)'
          BY <1>5, <4>1 DEF Fails, Succeeds
        <5>2. i = k
          BY <1>1, <1>3, <1>6, <2>3, <5>1 DEF ReservedForOne
        <5> QED BY <1>6, <5>1, <5>2
      <4> QED BY <4>1
    <3>2. r.type = "reserve"
      BY <1>6, <2>1, <2>3, <3>1 DEF Moves, Kinds, Quiet, Shuts, Accepts, Discounts, Registered
    <3> QED BY <1>2, <2>1, <2>3, <3>2
  <2> QED BY <2>2, <2>3
<1>7. ReservedForOne'
  BY <1>6 DEF ReservedForOne
<1>8. ASSUME aborted' = "no", s \notin taken', Registered(slot[s]), ~Shuts(s, r)
      PROVE  Registered(r) /\ SameId(slot[s], r)
  <2>1. ~(Fails(s, r) \/ Succeeds(s, r))
    BY <1>3, <1>5, <1>8 DEF Fails, Succeeds, Registered
  <2> QED BY <1>8, <2>1 DEF Moves, Kinds, Quiet, Accepts, Discounts, Registered
<1>9. Locked'
  <2>1. ASSUME NEW t \in Slot \ taken', aborted' = "no", lock[t] # None, Registered(slot[t])
        PROVE  Registered(slot'[t]) /\ slot'[t].id = slot[t].id
    <3>1. CASE t = s
      <4>1. ~Shuts(s, r)
        BY <2>1, <3>1 DEF Shuts
      <4> QED BY <1>2, <1>8, <2>1, <3>1, <4>1 DEF SameId
    <3> QED BY <1>2, <2>1, <3>1
  <2>2. ASSUME NEW t \in Slot \ taken', aborted' = "no", lock[t] # None
        PROVE  /\ pc[lock[t]] = "write" \/ lock[t] \in pinned => Registered(slot'[t])
               /\ lock[t] \in pinned => slot'[t].id = arg[lock[t]].id
    <3>1. /\ pc[lock[t]] = "write" \/ lock[t] \in pinned => Registered(slot[t])
          /\ lock[t] \in pinned => slot[t].id = arg[lock[t]].id
      BY <1>3, <2>2 DEF Locked
    <3> QED BY <2>1, <2>2, <3>1
  <2> QED BY <1>3, <2>2 DEF Locked
<1>10. Connected'
  <2>1. ASSUME NEW t \in Slot \ taken', aborted' = "no", Registered(slot'[t])
        PROVE  slot'[t].tcp
    <3>1. CASE t # s
      BY <1>2, <1>3, <2>1, <3>1 DEF Connected
    <3>2. CASE t = s
      <4>1. Registered(slot[s]) => slot[s].tcp
        BY <1>3, <2>1, <3>2 DEF Connected
      <4>2. Registered(r)
        BY <1>2, <2>1, <3>2
      <4>3. r.tcp
        BY <2>1, <3>2, <4>1, <4>2
        DEF Moves, Kinds, Quiet, Shuts, Fails, Succeeds, Accepts, Discounts, Registered, SameId, NewSocket
      <4> QED BY <1>2, <3>2, <4>3
    <3> QED BY <3>1, <3>2
  <2> QED BY <2>1 DEF Connected
<1> QED BY <1>7, <1>9, <1>10


-------------------------------------------------------------------------------
(***************************************************************************)
(* The clients keep them too.  Each step changes the call of one client,   *)
(* adds at most one request and changes at most one slot.                  *)
(***************************************************************************)
LEMMA CountedIsItsSocket ==
  ASSUME Types, Calling, Ids, NEW c \in Client, pc[c] # "idle", Counts(Sock(c), arg[c].id)
  PROVE  Sock(c).id = arg[c].id /\ Sock(c).tcp /\ arg[c].id \in Id /\ ~Unopened(arg[c].id)
<1> DEFINE s == HASH_ID(arg[c].id)
<1>1. s \in Slot /\ slot[s] \in Socket /\ arg[c].id \in Id /\ arg[c].id \in Nat
  BY CallingIs DEF Sock
<1>2. slot[s].tcp /\ slot[s].tag = ID_TAG16(arg[c].id)
  BY DEF Counts, Sock
<1>3. slot[s].id # 0 /\ slot[s].tag = ID_TAG16(slot[s].id) /\ slot[s].id \in Nat
  BY <1>1, <1>2, SocketIs DEF Ids
<1>4. HASH_ID(slot[s].id) = s
  BY <1>1, <1>3 DEF Types
<1>5. slot[s].id = arg[c].id
  BY <1>1, <1>2, <1>3, <1>4, HashAndTag
<1>6. ~Unopened(arg[c].id)
  BY <1>1, <1>2, <1>5 DEF Ids
<1> QED BY <1>1, <1>2, <1>5, <1>6 DEF Sock

\* What a step of client c adds to the pipe, and what its call becomes.
New(q) == /\ q.id <= alloc_id
          /\ q.counted => q.op \in SendOp /\ \A i \in Id : q.id = i => ~Unopened(i)
Adds == \A i \in 1 .. Len(pipe') : \/ i \in 1 .. Len(pipe) /\ pipe'[i] = pipe[i]
                                   \/ New(pipe'[i])
Becomes(c) == \A d \in Client : \/ arg'[d] = arg[d]
                                \/ d = c /\ New(arg'[d])

LEMMA AppendAdds ==
  ASSUME Types, NEW q \in Requests, SendRequest(q), New(q)
  PROVE  Adds
<1>1. PICK n \in Nat : /\ n = Len(pipe) /\ Len(pipe') = n + 1 /\ pipe'[n + 1] = q
                       /\ \A i \in 1 .. n : pipe'[i] = pipe[i]
  BY SendRequestTyped
<1>2. \A i \in 1 .. n + 1 : i \in 1 .. n \/ i = n + 1
  OBVIOUS
<1> QED BY <1>1, <1>2 DEF Adds

LEMMA ArgsNew ==
  ASSUME Types, Calling, Ids, Counteds, NEW c \in Client
  PROVE  New(arg[c]) /\ New(NoRequest) /\ New(Request("W", arg[c].id))
<1>1. alloc_id \in Nat
  BY DEF Types
<1>2. arg[c].counted => arg[c].op \in SendOp
  BY DEF Calling, Sending
<1>3. New(arg[c])
  BY <1>2 DEF New, Ids, Counteds
<1>4. New(NoRequest) /\ New(Request("W", arg[c].id))
  BY <1>1, <1>3 DEF New, NoRequest, Request
<1> QED BY <1>3, <1>4

LEMMA GoesBecomes ==
  ASSUME Types, Calling, NEW c \in Client, NEW l, NEW a, Goes(c, l, a), New(a)
  PROVE  Becomes(c)
BY GoesOn DEF Becomes

LEMMA ClientAdds ==
  ASSUME Types, Calling, Ids, Counteds, NEW c \in Client, ClientStep(c),
         ~\E id \in Id, op \in {"O", "L"} : Reserve(c, op, id)
  PROVE  /\ Adds /\ Becomes(c) /\ alloc_id' = alloc_id
         /\ \A i \in Id : told'[i] # "no" => i <= alloc_id
<1>1. New(arg[c]) /\ New(NoRequest) /\ New(Request("W", arg[c].id))
  BY ArgsNew
<1>2. UNCHANGED pipe => Adds
  BY DEF Adds
<1>3. UNCHANGED told => \A i \in Id : told'[i] # "no" => i <= alloc_id
  BY DEF Ids
<1>4. ASSUME NEW op \in Op, NEW id \in Id, told[id] # "no"
      PROVE  New(Request(op, id))
  BY <1>4 DEF New, Request, Ids
<1>5. CASE \E id \in Id, op \in {"K", "shutdown", "R", "S"} : Ask(c, op, id)
  <2>1. PICK id \in Id, op \in {"K", "shutdown", "R", "S"} : Ask(c, op, id)
    BY <1>5
  <2>2. PICK q \in Requests : q = Request(op, id) /\ SendRequest(q)
    BY <2>1, ClientSends
  <2>3. New(q)
    BY <1>4, <2>1, <2>2 DEF Ask, Op
  <2>4. Adds
    BY <2>2, <2>3, AppendAdds
  <2> QED BY <1>3, <2>1, <2>4 DEF Ask, client, Becomes
<1>6. CASE Assign(c)
  <2>1. Goes(c, "ask", arg[c])
    BY <1>6, ClientGoes
  <2> QED BY <1>1, <1>2, <1>3, <1>6, <2>1, GoesBecomes DEF Assign
<1>7. CASE AskOpen(c)
  <2>1. arg[c] \in Requests /\ SendRequest(arg[c]) /\ Goes(c, "idle", NoRequest)
    BY <1>7, ClientSends, ClientGoes
  <2>2. Adds /\ Becomes(c)
    BY <1>1, <2>1, AppendAdds, GoesBecomes
  <2>3. \A i \in Id : told'[i] # "no" => told[i] # "no" \/ i = arg[c].id
    BY <1>7 DEF AskOpen, Types
  <2>4. \A i \in Id : told'[i] # "no" => i <= alloc_id
    BY <1>1, <2>3 DEF Ids, New
  <2> QED BY <1>7, <2>2, <2>4 DEF AskOpen
<1>8. CASE \E id \in Id : Send(c, id) \/ SendLowpriority(c, id)
  <2>1. PICK id \in Id : Send(c, id) \/ SendLowpriority(c, id)
    BY <1>8
  <2>2. told[id] # "no" /\ UNCHANGED <<alloc_id, pipe, told>>
    BY <2>1 DEF Send, SendLowpriority, MaySend
  <2>3. PICK l \in {"check", "inc"}, op \in {"D", "P"} : Goes(c, l, Request(op, id))
    BY <2>1, ClientGoes
  <2>4. New(Request(op, id))
    BY <1>4, <2>2 DEF Op
  <2>5. Becomes(c)
    BY <2>3, <2>4, GoesBecomes
  <2> QED BY <1>2, <1>3, <2>2, <2>5
<1>9. CASE Check(c) \/ Trylock(c) \/ ReadStep(c) \/ DirectWrite(c)
  <2>1. UNCHANGED <<alloc_id, pipe, told>>
    BY <1>9, ReadFrame DEF Check, Trylock, DirectWrite
  <2>2. \E l : Goes(c, l, arg[c]) \/ Goes(c, l, NoRequest)
    BY <1>9, ClientGoes
  <2>3. Becomes(c)
    BY <1>1, <2>2, GoesBecomes
  <2> QED BY <1>2, <1>3, <2>1, <2>3
<1>10. CASE Trigger(c) \/ Queue(c)
  <2>1. UNCHANGED <<alloc_id, told>> /\ Goes(c, "idle", NoRequest)
    BY <1>10, ClientGoes DEF Trigger, Queue
  <2>2. PICK q \in Requests : SendRequest(q) /\ (q = arg[c] \/ q = Request("W", arg[c].id))
    BY <1>10, ClientSends
  <2>3. Adds
    BY <1>1, <2>2, AppendAdds
  <2>4. Becomes(c)
    BY <1>1, <2>1, GoesBecomes
  <2> QED BY <1>3, <2>1, <2>3, <2>4
<1>11. CASE IncSendingRef(c)
  <2>1. UNCHANGED <<alloc_id, pipe, told>> /\ pc[c] = "inc"
    BY <1>11 DEF IncSendingRef
  <2>2. PICK b \in BOOLEAN : b = Counts(Sock(c), arg[c].id)
    BY CallingIs, SocketIs DEF Counts
  <2>3. PICK a : a = [arg[c] EXCEPT !.counted = b]
    OBVIOUS
  <2>4. Goes(c, "queue", a)
    BY <1>11, <2>2, <2>3, ClientGoes
  <2>5. a.id = arg[c].id /\ a.op = arg[c].op /\ a.counted = b
    BY <2>3, CallingIs
  <2>6. arg[c].op \in SendOp
    BY <2>1 DEF Calling, Sending
  <2>7. b => ~Unopened(arg[c].id)
    BY <2>1, <2>2, CountedIsItsSocket
  <2>8. New(a)
    BY <1>1, <2>5, <2>6, <2>7 DEF New
  <2>9. Becomes(c)
    BY <2>4, <2>8, GoesBecomes
  <2> QED BY <1>2, <1>3, <2>1, <2>9
<1> QED BY <1>5, <1>6, <1>7, <1>8, <1>9, <1>10, <1>11 DEF ClientStep, AskStep, SendStep, ReadStep


\* What a step of client c does to the ids of the slots.
Alike(t) == SameId(slot[t], slot'[t]) /\ slot'[t].type = slot[t].type
Assigns(c, t) == /\ pc[c] = "assign" /\ t = HASH_ID(arg[c].id)
                 /\ slot'[t].id = arg[c].id /\ ~slot'[t].tcp /\ slot'[t].type = slot[t].type

LEMMA ClientSlotIs ==
  ASSUME Types, Calling, NEW c \in Client, ClientStep(c),
         ~\E id \in Id, op \in {"O", "L"} : Reserve(c, op, id), NEW t \in Slot
  PROVE  Alike(t) \/ (Assign(c) /\ Assigns(c, t))
<1>1. UNCHANGED slot => Alike(t)
  BY DEF Alike, SameId
<1>2. ASSUME NEW s, NEW r, Puts(s, r), SameId(slot[s], r), r.type = slot[s].type
      PROVE  Alike(t)
  <2>1. slot'[t] = IF t = s THEN r ELSE slot[t]
    BY <1>2 DEF Puts, Types
  <2> QED BY <1>2, <2>1 DEF Alike, SameId
<1>3. CASE Assign(c)
  <2>1. PICK r : /\ Puts(HASH_ID(arg[c].id), r) /\ r.id = arg[c].id /\ ~r.tcp
                 /\ r.type = Sock(c).type
    BY <1>3, AssignPuts
  <2>2. slot'[t] = IF t = HASH_ID(arg[c].id) THEN r ELSE slot[t]
    BY <2>1 DEF Puts, Types
  <2>3. CASE t = HASH_ID(arg[c].id)
    BY <1>3, <2>1, <2>2, <2>3 DEF Assigns, Assign, Sock
  <2>4. CASE t # HASH_ID(arg[c].id)
    BY <2>2, <2>4 DEF Alike, SameId
  <2> QED BY <1>3, <2>3, <2>4
<1>4. CASE DirectWrite(c)
  <2>1. PICK r : /\ Puts(HASH_ID(arg[c].id), r) /\ SameId(Sock(c), r) /\ r.type = Sock(c).type
    BY <1>4, WritePuts
  <2> QED BY <1>2, <2>1 DEF Sock
<1>5. CASE IncSendingRef(c)
  <2>1. PICK r : /\ Puts(HASH_ID(arg[c].id), r) /\ SameId(Sock(c), r) /\ r.type = Sock(c).type
    BY <1>5, IncPuts
  <2> QED BY <1>2, <2>1 DEF Sock
<1>6. CASE ReadStep(c)
  BY <1>1, <1>6, ReadFrame
<1> QED BY <1>1, <1>3, <1>4, <1>5, <1>6
    DEF ClientStep, AskStep, SendStep, Ask, AskOpen, Send, SendLowpriority, Check, Trylock, ReadStep,
        Trigger, Queue, socket

LEMMA ClientIds ==
  ASSUME Types, Calling, OpenedOnce, Ids, Counteds, NEW c \in Client, ClientStep(c),
         ~\E id \in Id, op \in {"O", "L"} : Reserve(c, op, id)
  PROVE  Ids' /\ Counteds'
<1>1. \A id \in Id : Unopened(id)' <=> Unopened(id)
  BY ClientUnopened
<1>2. /\ Adds /\ Becomes(c) /\ alloc_id' = alloc_id
      /\ \A i \in Id : told'[i] # "no" => i <= alloc_id
  BY ClientAdds
<1>3. \A t \in Slot : Alike(t) \/ (Assign(c) /\ Assigns(c, t))
  BY ClientSlotIs
<1>4. \A t \in Slot : slot'[t].id <= alloc_id'
  BY <1>2, <1>3 DEF Ids, Alike, SameId, Assigns
<1>5. \A t \in Slot : slot'[t].tcp => slot'[t].id # 0 /\ slot'[t].tag = ID_TAG16(slot'[t].id)
  BY <1>3 DEF Ids, Alike, SameId, Assigns
<1>6. \A t \in Slot, i \in Id : slot'[t].tcp /\ slot'[t].id = i => ~Unopened(i)'
  BY <1>1, <1>3 DEF Ids, Alike, SameId, Assigns
<1>7. \A i \in 1 .. Len(pipe') : pipe'[i].id <= alloc_id'
  BY <1>2 DEF Ids, Adds, New
<1>8. \A d \in Client : arg'[d].id <= alloc_id'
  BY <1>2 DEF Ids, Becomes, New
<1>9. Ids'
  BY <1>1, <1>2, <1>4, <1>5, <1>6, <1>7, <1>8 DEF Ids
<1>10. \A i \in 1 .. Len(pipe') : pipe'[i].counted => pipe'[i].op \in SendOp
  BY <1>2 DEF Counteds, Adds, New
<1>11. \A i \in 1 .. Len(pipe'), j \in Id : pipe'[i].counted /\ pipe'[i].id = j => ~Unopened(j)'
  BY <1>1, <1>2 DEF Counteds, Adds, New
<1>12. \A d \in Client, j \in Id : arg'[d].counted /\ arg'[d].id = j => ~Unopened(j)'
  BY <1>1, <1>2 DEF Counteds, Becomes, New
<1>13. Counteds'
  BY <1>10, <1>11, <1>12 DEF Counteds
<1> QED BY <1>9, <1>13

LEMMA ReserveIds ==
  ASSUME Types, Calling, OpenedOnce, Ids, Counteds, NEW c \in Client,
         NEW op \in {"O", "L"}, NEW id \in Id, Reserve(c, op, id)
  PROVE  Ids' /\ Counteds'
<1>1. \A j \in Id : Unopened(j)' <=> Unopened(j) \/ j = id
  BY ReserveUnopened
<1>2. PICK r : /\ Puts(HASH_ID(id), r) /\ SameId(slot[HASH_ID(id)], r) /\ id > alloc_id
  BY ReservePuts
<1>3. PICK n \in Nat, m \in Nat : n = alloc_id /\ m = id /\ m > n /\ alloc_id' = m
  BY <1>2, IdIsNat DEF Types, Reserve
<1>4. \A t \in Slot : /\ SameId(slot[t], slot'[t]) /\ slot[t].id \in Nat /\ slot[t].id <= n
  <2>1. \A t \in Slot : slot'[t] = IF t = HASH_ID(id) THEN r ELSE slot[t]
    BY <1>2 DEF Puts, Types
  <2>2. \A t \in Slot : slot[t].id \in Nat /\ slot[t].id <= n
    BY <1>3, SocketIs DEF Types, Ids
  <2> QED BY <1>2, <2>1, <2>2 DEF SameId
<1>5. UNCHANGED <<pipe, told>> /\ Goes(c, "assign", Request(op, id))
  BY ClientGoes DEF Reserve
<1>6. \A d \in Client : arg'[d] = IF d = c THEN Request(op, id) ELSE arg[d]
  BY <1>5, GoesOn
<1>7. /\ \A j \in Id : j \in Nat /\ (Unopened(j) => j <= n) /\ (told[j] # "no" => j <= n)
      /\ \A i \in 1 .. Len(pipe) : pipe[i].id \in Nat /\ pipe[i].id <= n
      /\ \A d \in Client : arg[d].id \in Nat /\ arg[d].id <= n
  <2>1. \A j \in Id : j \in Nat /\ (Unopened(j) => j <= n) /\ (told[j] # "no" => j <= n)
    BY <1>3, IdIsNat DEF Ids
  <2>2. \A i \in 1 .. Len(pipe) : pipe[i].id \in Nat /\ pipe[i].id <= n
    <3>1. \A i \in 1 .. Len(pipe) : pipe[i] \in Requests
      BY DEF Types
    <3> QED BY <1>3, <3>1, IdIsNat DEF Ids, Requests
  <2>3. \A d \in Client : arg[d].id \in Nat /\ arg[d].id <= n
    BY <1>3, IdIsNat DEF Ids, Types
  <2> QED BY <2>1, <2>2, <2>3
<1>8. Ids'
  <2>1. \A j \in Id : Unopened(j)' => j <= m
    BY <1>1, <1>3, <1>7
  <2>2. \A t \in Slot : slot'[t].id <= m
    BY <1>3, <1>4 DEF SameId
  <2>3. \A t \in Slot : slot'[t].tcp => slot'[t].id # 0 /\ slot'[t].tag = ID_TAG16(slot'[t].id)
    BY <1>4 DEF SameId, Ids
  <2>4. \A t \in Slot, i \in Id : slot'[t].tcp /\ slot'[t].id = i => ~Unopened(i)'
    BY <1>1, <1>3, <1>4 DEF SameId, Ids
  <2>5. /\ \A j \in Id : told'[j] # "no" => j <= m
        /\ \A i \in 1 .. Len(pipe') : pipe'[i].id <= m
    BY <1>3, <1>5, <1>7
  <2>6. \A d \in Client : arg'[d].id <= m
    BY <1>3, <1>6, <1>7 DEF Request
  <2> QED BY <1>3, <2>1, <2>2, <2>3, <2>4, <2>5, <2>6 DEF Ids
<1>9. Counteds'
  <2>1. \A i \in 1 .. Len(pipe), j \in Id : pipe[i].counted /\ pipe[i].id = j => ~Unopened(j)'
    BY <1>1, <1>3, <1>7 DEF Counteds
  <2>2. \A d \in Client, j \in Id : arg'[d].counted /\ arg'[d].id = j => ~Unopened(j)'
    BY <1>1, <1>3, <1>6, <1>7 DEF Counteds, Request
  <2> QED BY <1>5, <2>1, <2>2 DEF Counteds
<1> QED BY <1>8, <1>9

\* Only the steps that try the lock and look again leave it with the client.
LEMMA ClientLocks ==
  ASSUME Types, Calling, NEW c \in Client, ClientStep(c)
  PROVE  /\ \A t \in Slot : lock'[t] = lock[t] \/ lock'[t] = None \/ lock'[t] = c
         /\ \A d \in Client \ {c} : pc'[d] = pc[d] /\ arg'[d] = arg[d] /\ (d \in pinned' <=> d \in pinned)
         /\ Trylock(c) \/ ReadStep(c) \/ pc'[c] \notin Holding
<1> DEFINE Keeps == /\ \A t \in Slot : lock'[t] = lock[t] \/ lock'[t] = None \/ lock'[t] = c
                    /\ \A d \in Client \ {c} : d \in pinned' <=> d \in pinned
<1>1. HASH_ID(arg[c].id) \in Slot
  BY CallingIs
<1>2. UNCHANGED <<lock, pinned>> => Keeps
  OBVIOUS
<1>3. SocketUnlock(c) => Keeps
  BY <1>1 DEF SocketUnlock, Types
<1>4. ASSUME NEW l, NEW a, Goes(c, l, a)
      PROVE  pc'[c] = l /\ \A d \in Client \ {c} : pc'[d] = pc[d] /\ arg'[d] = arg[d]
  BY <1>4, GoesOn
<1>5. CASE \E id \in Id, op \in {"K", "shutdown", "R", "S"} : Ask(c, op, id)
  <2>1. UNCHANGED <<lock, pinned, pc, arg>> /\ pc[c] = "idle"
    BY <1>5 DEF Ask, client, socket
  <2> QED BY <1>2, <2>1 DEF Holding
<1>6. CASE \/ \E id \in Id, op \in {"O", "L"} : Reserve(c, op, id)
           \/ Assign(c) \/ AskOpen(c)
           \/ \E id \in Id : Send(c, id) \/ SendLowpriority(c, id)
           \/ Check(c) \/ Trigger(c) \/ IncSendingRef(c) \/ Queue(c)
  <2>1. UNCHANGED <<lock, pinned>>
    BY <1>6 DEF Reserve, Assign, AskOpen, Send, SendLowpriority, Check, Trigger, IncSendingRef, Queue, socket
  <2>2. PICK l \in {"assign", "ask", "idle", "check", "inc", "trylock", "queue"} : \E a : Goes(c, l, a)
    BY <1>6, ClientGoes
  <2>3. l \notin Holding
    BY DEF Holding
  <2> QED BY <1>2, <1>4, <2>1, <2>2, <2>3
<1>7. CASE Trylock(c)
  <2>1. Keeps
    BY <1>1, <1>7 DEF Trylock, Types
  <2>2. \E l \in {"readid", "inc"} : Goes(c, l, arg[c])
    BY <1>7, ClientGoes
  <2> QED BY <1>4, <1>7, <2>1, <2>2
<1>8. CASE ReadStep(c)
  <2>1. \E l \in Holding \union {"inc"} : Goes(c, l, arg[c]) /\ ReadsOn(c, l)
    BY <1>8, ClientGoes
  <2>2. Keeps
    BY <1>2, <1>3, <2>1 DEF ReadsOn
  <2> QED BY <1>4, <1>8, <2>1, <2>2
<1>9. CASE DirectWrite(c)
  <2>1. Keeps
    BY <1>3, <1>9 DEF DirectWrite
  <2>2. PICK l \in {"idle", "trigger"} : \E a : Goes(c, l, a)
    BY <1>9, ClientGoes
  <2>3. l \notin Holding
    BY DEF Holding
  <2> QED BY <1>4, <2>1, <2>2, <2>3
<1> QED BY <1>5, <1>6, <1>7, <1>8, <1>9 DEF ClientStep, AskStep, SendStep, ReadStep

LEMMA ReserveSlots ==
  ASSUME Types, Calling, Locks, OpenedOnce, Ids, ReservedForOne, Locked, Connected, aborted = "no",
         NEW c \in Client, NEW op \in {"O", "L"}, NEW id \in Id, Reserve(c, op, id)
  PROVE  ReservedForOne' /\ Locked' /\ Connected'
<1> DEFINE s == HASH_ID(id)
<1>1. \A j \in Id : Unopened(j)' <=> Unopened(j) \/ j = id
  BY ReserveUnopened
<1>2. PICK r : /\ Puts(s, r) /\ SameId(slot[s], r) /\ r.type = "reserve" /\ slot[s].type = "invalid"
  BY ReservePuts
<1>3. s \in Slot /\ \A t \in Slot : slot'[t] = IF t = s THEN r ELSE slot[t]
  BY <1>2 DEF Puts, Types
<1>4. UNCHANGED <<lock, taken, aborted, pinned>> /\ Goes(c, "assign", Request(op, id)) /\ pc[c] = "idle"
  BY ClientGoes DEF Reserve
<1>5. ~Registered(slot[s]) /\ ~Registered(r)
  BY <1>2 DEF Registered
<1>6. ReservedForOne'
  <2>1. ASSUME NEW i \in Id, NEW j \in Id, HASH_ID(i) \notin taken, HASH_ID(i) = HASH_ID(j),
               Unopened(i)', Unopened(j)'
        PROVE  i = j /\ slot'[HASH_ID(i)].type = "reserve"
    <3>1. CASE HASH_ID(i) = s
      <4>1. ~Unopened(i) /\ ~Unopened(j)
        BY <1>2, <2>1, <3>1 DEF ReservedForOne
      <4> QED BY <1>1, <1>2, <1>3, <2>1, <3>1, <4>1
    <3>2. CASE HASH_ID(i) # s
      <4>1. Unopened(i) /\ Unopened(j)
        BY <1>1, <2>1, <3>2
      <4>2. i = j /\ slot[HASH_ID(i)].type = "reserve"
        BY <2>1, <4>1 DEF ReservedForOne
      <4> QED BY <1>3, <3>2, <4>2, IdIsNat, HashInSlot
    <3> QED BY <3>1, <3>2
  <2> QED BY <1>4, <2>1 DEF ReservedForOne
<1>7. Locked'
  <2>1. ASSUME NEW t \in Slot \ taken, lock[t] # None
        PROVE  /\ pc'[lock[t]] = "write" \/ lock[t] \in pinned => Registered(slot'[t])
               /\ lock[t] \in pinned => slot'[t].id = arg'[lock[t]].id
    <3>1. /\ pc[lock[t]] = "write" \/ lock[t] \in pinned => Registered(slot[t])
          /\ lock[t] \in pinned => slot[t].id = arg[lock[t]].id
      BY <2>1 DEF Locked
    <3>2. lock[t] \in Client /\ pc[lock[t]] \in Holding
      BY <2>1 DEF Locks, Types
    <3>3. lock[t] # c
      BY <1>4, <3>2 DEF Holding
    <3>4. arg'[lock[t]] = arg[lock[t]] /\ pc'[lock[t]] = pc[lock[t]]
      BY <1>4, <3>2, <3>3, GoesOn
    <3> QED BY <1>3, <1>5, <3>1, <3>4
  <2> QED BY <1>4, <2>1 DEF Locked
<1>8. Connected'
  BY <1>3, <1>4, <1>5 DEF Connected
<1> QED BY <1>6, <1>7, <1>8

LEMMA ClientSlots ==
  ASSUME Types, Calling, Locks, Closing, OpenedOnce, Ids, ReservedForOne, Locked, Connected,
         NEW c \in Client, ClientStep(c), ~\E id \in Id, op \in {"O", "L"} : Reserve(c, op, id)
  PROVE  ReservedForOne' /\ Locked' /\ Connected'
<1>1. \A id \in Id : Unopened(id)' <=> Unopened(id)
  BY ClientUnopened
<1>2. aborted = "no" /\ UNCHANGED <<taken, aborted>>
  BY ClientFrame
<1>3. \A t \in Slot : Alike(t) \/ (Assign(c) /\ Assigns(c, t))
  BY ClientSlotIs
<1>4. \A t \in Slot : slot'[t].type = slot[t].type
  BY <1>3 DEF Alike, Assigns
<1>5. \A t \in Slot \ taken : Assigns(c, t) => ~Registered(slot[t])
  <2>1. ASSUME NEW t \in Slot \ taken, Assigns(c, t)
        PROVE  ~Registered(slot[t])
    <3>1. pc[c] = "assign" /\ t = HASH_ID(arg[c].id) /\ arg[c].id \in Id
      BY <2>1, CallingIs DEF Assigns
    <3>2. PICK i \in Id : i = arg[c].id /\ t = HASH_ID(i) /\ Opens(c, i)
      BY <3>1 DEF Opens
    <3>3. Unopened(i)
      BY <3>2 DEF Unopened
    <3> QED BY <1>2, <3>2, <3>3 DEF ReservedForOne, Registered
  <2> QED BY <2>1
<1>6. \A t \in Slot \ taken : /\ Registered(slot'[t]) <=> Registered(slot[t])
                              /\ Registered(slot[t]) => SameId(slot[t], slot'[t])
  BY <1>3, <1>4, <1>5 DEF Registered, Alike
<1>7. ReservedForOne'
  <2>1. ASSUME NEW i \in Id, NEW j \in Id, HASH_ID(i) \notin taken, HASH_ID(i) = HASH_ID(j),
               Unopened(i)', Unopened(j)'
        PROVE  i = j /\ slot'[HASH_ID(i)].type = "reserve"
    <3>1. i = j /\ slot[HASH_ID(i)].type = "reserve"
      BY <1>1, <1>2, <2>1 DEF ReservedForOne
    <3> QED BY <1>4, <3>1, IdIsNat, HashInSlot
  <2> QED BY <1>2, <2>1 DEF ReservedForOne
<1>8. Connected'
  BY <1>2, <1>6 DEF Connected, SameId
<1>9. /\ \A t \in Slot : lock'[t] = lock[t] \/ lock'[t] = None \/ lock'[t] = c
      /\ \A d \in Client \ {c} : pc'[d] = pc[d] /\ arg'[d] = arg[d] /\ (d \in pinned' <=> d \in pinned)
      /\ Trylock(c) \/ ReadStep(c) \/ pc'[c] \notin Holding
  BY ClientLocks
<1>10. Types' /\ Locks'
  BY ClientTypes
<1>11. ASSUME NEW t \in Slot \ taken, lock'[t] # None
       PROVE  /\ pc'[lock'[t]] = "write" \/ lock'[t] \in pinned' => Registered(slot'[t])
              /\ lock'[t] \in pinned' => slot'[t].id = arg'[lock'[t]].id
  <2>1. PICK d \in Client : d = lock'[t]
    BY <1>10, <1>11 DEF Types
  <2>2. pc'[d] \in Holding /\ HASH_ID(arg'[d].id) = t
    BY <1>10, <2>1 DEF Locks
  <2>3. ASSUME lock[t] = d
        PROVE  /\ pc[d] = "write" \/ d \in pinned => Registered(slot[t])
               /\ d \in pinned => slot[t].id = arg[d].id
    BY <1>2, <2>3, NoneIsNot DEF Locked
  <2>4. CASE d # c
    <3>1. lock[t] = d
      BY <1>9, <1>11, <2>1, <2>4
    <3>2. pc'[d] = pc[d] /\ arg'[d] = arg[d] /\ (d \in pinned' <=> d \in pinned)
      BY <1>9, <2>4
    <3> QED BY <1>6, <2>1, <2>3, <3>1, <3>2 DEF SameId
  <2>5. CASE d = c /\ Trylock(c)
    <3>1. /\ pc'[c] \in {"readid", "inc"} /\ arg'[c] = arg[c]
      <4>1. PICK l \in {"readid", "inc"} : Goes(c, l, arg[c])
        BY <2>5, ClientGoes
      <4> QED BY <4>1, GoesOn
    <3>2. c \notin pinned /\ slot' = slot
      BY <2>5 DEF Trylock, Locks, Holding
    <3>3. c \in pinned' => Registered(slot[t]) /\ slot[t].id = arg[c].id
      BY <2>2, <2>5, <3>1, <3>2 DEF Trylock
    <3> QED BY <2>1, <2>5, <3>1, <3>2, <3>3
  <2>6. CASE d = c /\ ReadStep(c)
    <3>1. pc[c] \in Holding /\ slot' = slot /\ arg' = arg
      BY <2>6, ReadFrame
    <3>2. PICK l \in Holding \union {"inc"} : Goes(c, l, arg[c]) /\ ReadsOn(c, l)
      BY <2>6, ClientGoes
    <3>3. pc'[c] = l /\ l \in Holding
      BY <2>2, <2>6, <3>2, GoesOn
    <3>4. UNCHANGED <<lock, pinned>> /\ (l = "write" => Sock(c).type = "connected")
      BY <3>2, <3>3 DEF ReadsOn, Holding
    <3>5. Sock(c) = slot[t] /\ lock[t] = c
      BY <2>1, <2>2, <2>6, <3>1, <3>4 DEF Sock
    <3>6. pc'[c] = "write" => Registered(slot[t])
      BY <3>3, <3>4, <3>5 DEF Registered
    <3> QED BY <2>1, <2>3, <2>6, <3>1, <3>4, <3>5, <3>6
  <2> QED BY <1>9, <2>2, <2>4, <2>5, <2>6
<1>12. Locked'
  BY <1>2, <1>11 DEF Locked
<1> QED BY <1>7, <1>8, <1>12

-------------------------------------------------------------------------------
(***************************************************************************)
(* The inductive invariant.                                                *)
(***************************************************************************)
SocketInv == /\ Types /\ Calling /\ Locks /\ Closing /\ OpenedOnce /\ Ids /\ Counteds
             /\ ReservedForOne /\ Locked /\ Connected

LEMMA SocketInit ==
  ASSUME Init
  PROVE  SocketInv
<1>1. /\ alloc_id = 0 /\ pipe = <<>> /\ Len(pipe) = 0 /\ events = <<>> /\ Len(events) = 0
      /\ force = None /\ aborted = "no" /\ taken = {} /\ pinned = {} /\ stray = {}
      /\ \A s \in Slot : slot[s] = Free /\ lock[s] = None
      /\ \A c \in Client : pc[c] = "idle" /\ arg[c] = NoRequest
      /\ \A i \in Id : told[i] = "no"
  BY DEF Init
<1>2. Free \in Socket /\ Free.id = 0 /\ ~Free.tcp /\ Free.type = "invalid" /\ ~Registered(Free)
  BY DEF Free, Socket, Type, Registered
<1>3. MaxId \in Nat /\ MaxPipe \in Nat
  BY SocketAssumption
<1>4. NoRequest \in Args /\ ~NoRequest.counted /\ NoRequest.id = 0
  BY RequestTyped DEF NoRequest, Request
<1>5. Types
  <2>1. slot \in [Slot -> Socket] /\ \A s \in Slot : slot[s].id # 0 => HASH_ID(slot[s].id) = s
    BY <1>2 DEF Init
  <2>2. pc \in [Client -> Label] /\ arg \in [Client -> Args]
    BY <1>4 DEF Init, Label
  <2>3. /\ lock \in [Slot -> Client \union {None}] /\ told \in [Id -> {"no", "id", "open"}]
        /\ closes \in [Id -> Nat] /\ checkctrl \in BOOLEAN
    BY DEF Init
  <2> QED BY <1>1, <1>3, <2>1, <2>2, <2>3 DEF Types, Args
<1>6. Calling /\ Locks
  BY <1>1, <1>4, NoneIsNot DEF Calling, Locks, Sending, Holding
<1>7. \A id \in Id : ~Unopened(id)
  BY <1>1 DEF Unopened, Opens
<1>8. OpenedOnce
  BY <1>1 DEF OpenedOnce, Opens
<1>9. Ids /\ Counteds
  BY <1>1, <1>2, <1>4, <1>7 DEF Ids, Counteds
<1>10. ReservedForOne /\ Locked /\ Connected /\ Closing
  BY <1>1, <1>2, <1>7 DEF ReservedForOne, Locked, Connected, Closing, Busy
<1> QED BY <1>5, <1>6, <1>8, <1>9, <1>10 DEF SocketInv

LEMMA SocketStep ==
  ASSUME SocketInv, [Next]_vars
  PROVE  SocketInv'
<1> USE DEF SocketInv
<1>1. CASE ThreadStep
  <2>1. PICK s \in Slot, r \in Socket : Moves(s, r) /\ aborted = "no"
    BY <1>1, ThreadMoves DEF Move
  <2>2. Types' /\ Closing'
    BY <1>1, ThreadTypes, ThreadClosing
  <2>3. Calling' /\ Locks'
    BY <1>1, ThreadClients
  <2>4. OpenedOnce'
    BY <2>1, MovesUnopened
  <2>5. Ids' /\ Counteds'
    BY <2>1, ThreadIds
  <2>6. ReservedForOne' /\ Locked' /\ Connected'
    BY <2>1, ThreadSlots
  <2> QED BY <2>2, <2>3, <2>4, <2>5, <2>6
<1>2. ASSUME NEW c \in Client, ClientStep(c)
      PROVE  SocketInv'
  <2>1. aborted = "no"
    BY <1>2, ClientFrame
  <2>2. Types' /\ Calling' /\ Locks' /\ Closing'
    BY <1>2, ClientTypes
  <2>3. OpenedOnce' /\ Ids' /\ Counteds' /\ ReservedForOne' /\ Locked' /\ Connected'
    <3>1. CASE \E id \in Id, op \in {"O", "L"} : Reserve(c, op, id)
      BY <2>1, <3>1, ReserveUnopened, ReserveIds, ReserveSlots
    <3>2. CASE ~\E id \in Id, op \in {"O", "L"} : Reserve(c, op, id)
      BY <1>2, <3>2, ClientUnopened, ClientIds, ClientSlots
    <3> QED BY <3>1, <3>2
  <2> QED BY <2>2, <2>3
<1>3. CASE UNCHANGED vars
  <2>1. UNCHANGED <<alloc_id, slot, lock, pipe, checkctrl, events, force, told, closes, taken, pc, arg,
                  pinned, stray, aborted>>
    BY <1>3 DEF vars, socket, poll, client
  <2>2. Types' /\ Calling' /\ Locks' /\ Closing'
    BY <2>1 DEF Types, Calling, Locks, Closing
  <2>3. OpenedOnce' /\ \A id \in Id : Unopened(id)' <=> Unopened(id)
    BY <2>1, SameUnopened
  <2>4. Ids' /\ Counteds'
    BY <2>1, <2>3 DEF Ids, Counteds
  <2>5. ReservedForOne' /\ Locked' /\ Connected'
    BY <2>1, <2>3 DEF ReservedForOne, Locked, Connected
  <2> QED BY <2>2, <2>3, <2>4, <2>5
<1> QED BY <1>1, <1>2, <1>3 DEF Next, ThreadStep

LEMMA SocketInvariant == Spec => []SocketInv
<1>1. Init => SocketInv
  BY SocketInit
<1>2. SocketInv /\ [Next]_vars => SocketInv'
  BY SocketStep
<1> QED BY <1>1, <1>2, PTL DEF Spec

(***************************************************************************)
(* Type correctness: slots, pipe, events and calls have their types, and   *)
(* a socket's id is one of its slot.                                       *)
(***************************************************************************)
THEOREM SocketTypeCorrect == Spec => []TypeOK
<1>1. SocketInv => TypeOK
  <2> SUFFICES ASSUME Types
               PROVE  TypeOK
    BY DEF SocketInv
  <2>1. \A s \in Slot : slot[s] \in Socket /\ (slot[s].id # 0 => HASH_ID(slot[s].id) = s)
    BY DEF Types
  <2>2. \A r \in 1 .. Len(pipe) : pipe[r] \in Requests
    BY DEF Types
  <2>3. \A e \in 1 .. Len(events) : events[e] \in Events
    BY DEF Types
  <2> QED BY <2>1, <2>2, <2>3 DEF Types, TypeOK, Socket, Requests, Events, Forces
<1> QED BY <1>1, SocketInvariant, PTL

(***************************************************************************)
(* A client that writes directly (Send with the slot's lock) has the lock  *)
(* of an open slot until it has written, and writes to its own socket if   *)
(* that was open when it got the lock, however the thread closes slots and *)
(* others reserve them meanwhile.                                          *)
(***************************************************************************)
THEOREM WritesToTheRightSocket == Spec => []WritesToItsSocket
<1>1. SocketInv => WritesToItsSocket
  <2> SUFFICES ASSUME SocketInv, NEW c \in Client, pc[c] = "write", HASH_ID(arg[c].id) \notin taken,
                      aborted = "no"
               PROVE  /\ lock[HASH_ID(arg[c].id)] = c
                      /\ Registered(Sock(c))
                      /\ c \in pinned => Sock(c).id = arg[c].id
    BY DEF WritesToItsSocket
  <2> USE DEF SocketInv
  <2>1. HASH_ID(arg[c].id) \in Slot
    BY CallingIs
  <2>2. lock[HASH_ID(arg[c].id)] = c
    BY <2>1 DEF Locks, Holding
  <2>3. Registered(Sock(c)) /\ (c \in pinned => Sock(c).id = arg[c].id)
    BY <2>1, <2>2, NoneIsNot DEF Locked, Sock
  <2> QED BY <2>2, <2>3
<1> QED BY <1>1, SocketInvariant, PTL

(***************************************************************************)
(* ReserveId gives a slot to one caller at a time: until the thread has    *)
(* taken the request to open it, Connect, Listen and accepted connections  *)
(* get other slots.                                                        *)
(***************************************************************************)
THEOREM SlotsAreReservedOnce == Spec => []ReservedForOne
<1>1. SocketInv => ReservedForOne
  BY DEF SocketInv
<1> QED BY <1>1, SocketInvariant, PTL


-------------------------------------------------------------------------------
(***************************************************************************)
(* What waits to be written.                                               *)
(***************************************************************************)
Excused == taken \union stray

LEMMA LostWriteIs ==
  NoLostWrite <=> \A s \in Slot \ Excused :
                    aborted = "no" /\ Needs(slot[s]) /\ ~Busy(force, s) =>
                      slot[s].writing \/ Woken(slot[s].id)
BY DEF NoLostWrite, Needs, Full, Busy, Excused

\* The thread takes a request to write only when it does what it asks.
LEMMA MovesWoken ==
  ASSUME Types, NEW s \in Slot, NEW r \in Socket, Moves(s, r), NEW id \in Id \union {0}, Woken(id)
  PROVE  \/ Woken(id)'
         \/ pipe # <<>> /\ Head(pipe).op = "W" /\ Head(pipe).id = id /\ id # 0
<1>1. UNCHANGED <<pc, arg>> /\ (pipe' = pipe \/ (pipe # <<>> /\ pipe' = Tail(pipe)))
  BY MovesPipe DEF Moves, client
<1>2. CASE pipe' = pipe \/ \E c \in Client : pc[c] = "trigger" /\ arg[c].id = id
  BY <1>1, <1>2 DEF Woken
<1>3. CASE /\ pipe # <<>> /\ pipe' = Tail(pipe)
           /\ \E i \in 1 .. Len(pipe) : pipe[i].op = "W" /\ pipe[i].id = id
  <2>1. PICK i \in 1 .. Len(pipe) : pipe[i].op = "W" /\ pipe[i].id = id
    BY <1>3
  <2>2. PICK n \in Nat : /\ n = Len(pipe) /\ Len(pipe') = n - 1 /\ n > 0
                         /\ \A j \in 1 .. n - 1 : pipe'[j] = pipe[j + 1]
    <3>1. pipe \in Seq(Requests)
      BY DEF Types
    <3> QED BY <1>3, <3>1, HeadTail
  <2>3. CASE i = 1
    <3>1. Head(pipe) = pipe[1] /\ Head(pipe).id \in Id
      BY <1>3, RequestIs
    <3> QED BY <1>3, <2>1, <2>3, <3>1, IdIsNat
  <2>4. CASE i # 1
    <3>1. i - 1 \in 1 .. n - 1 /\ (i - 1) + 1 = i
      BY <2>2, <2>4
    <3>2. pipe'[i - 1] = pipe[i]
      BY <2>2, <3>1
    <3> QED BY <2>1, <2>2, <3>1, <3>2 DEF Woken
  <2> QED BY <2>3, <2>4
<1> QED BY <1>1, <1>2, <1>3 DEF Woken

LEMMA ThreadWrites ==
  ASSUME Types, aborted = "no", NoLostWrite, NEW s \in Slot, NEW r \in Socket, Moves(s, r)
  PROVE  NoLostWrite'
<1>1. \A t \in Slot : slot'[t] = IF t = s THEN r ELSE slot[t]
  BY DEF Moves, Types
<1>2. taken \subseteq taken' /\ stray' = stray /\ Cares(s, r)
  BY DEF Moves, client
<1>3. ASSUME NEW t \in Slot \ Excused', aborted' = "no", Needs(slot'[t]), ~Busy(force', t)
      PROVE  slot'[t].writing \/ (Woken(slot[t].id)' /\ slot'[t].id = slot[t].id)
  <2>1. slot[t].id \in Id \union {0} /\ (slot[t].id # 0 => HASH_ID(slot[t].id) = t) /\ t \notin Excused
        /\ t \notin taken'
    BY <1>2, SocketIs DEF Types, Excused
  <2>2. PICK id \in Id \union {0} : id = slot[t].id
    BY <2>1
  <2>3. CASE t = s
    <3>1. \/ r.writing
          \/ /\ Needs(slot[s]) /\ r.id = slot[s].id /\ (slot[s].writing => r.writing)
             /\ ~Busy(force, s)
      BY <1>1, <1>2, <1>3, <2>1, <2>3 DEF Cares
    <3>2. ASSUME ~r.writing
          PROVE  Woken(id)' /\ r.id = id
      <4>1. Woken(id) /\ r.id = id
        BY <2>1, <2>2, <2>3, <3>1, <3>2, LostWriteIs
      <4>2. ~(pipe # <<>> /\ Head(pipe).op = "W" /\ Head(pipe).id = id)  \/ pipe' = pipe
        BY <1>1, <1>2, <1>3, <2>3, <3>2, <4>1 DEF Cares
      <4>3. CASE pipe' = pipe
        BY <4>1, <4>3 DEF Woken, Moves, client
      <4> QED BY <4>1, <4>2, <4>3, MovesWoken
    <3>3. slot'[t] = r
      BY <1>1, <2>3
    <3>4. CASE r.writing
      BY <3>3, <3>4
    <3>5. CASE ~r.writing
      <4>1. Woken(id)' /\ slot'[t].id = id
        BY <3>2, <3>3, <3>5
      <4>2. Woken(slot[t].id)'
        BY <4>1 DEF Woken
      <4> QED BY <2>2, <4>1, <4>2
    <3> QED BY <3>4, <3>5
  <2>4. CASE t # s
    <3>1. slot'[t] = slot[t] /\ ~Busy(force, t)
      BY <1>1, <1>2, <2>4 DEF Cares
    <3>2. slot[t].writing \/ Woken(id)
      BY <1>3, <2>1, <2>2, <3>1, LostWriteIs
    <3>3. ASSUME Woken(id)
          PROVE  Woken(id)'
      <4>1. ~(pipe # <<>> /\ Head(pipe).op = "W" /\ Head(pipe).id = id /\ id # 0) \/ pipe' = pipe
        BY <1>2, <2>1, <2>2, <2>4 DEF Cares
      <4>2. CASE pipe' = pipe
        BY <3>3, <4>2 DEF Woken, Moves, client
      <4> QED BY <3>3, <4>1, <4>2, MovesWoken
    <3> QED BY <2>2, <3>1, <3>2, <3>3
  <2> QED BY <2>3, <2>4
<1>4. ASSUME NEW t \in Slot \ Excused', aborted' = "no", Needs(slot'[t]), ~Busy(force', t)
      PROVE  slot'[t].writing \/ Woken(slot[t].id)'
  BY <1>3, <1>4 DEF Woken
<1> QED BY <1>3, <1>4 DEF NoLostWrite, Needs, Full, Busy, Excused, Woken

\* A client that has asked the thread, or is about to, stays so.
LEMMA ClientWoken ==
  ASSUME Types, Calling, NEW c \in Client, ClientStep(c), NEW id \in Id \union {0}, Woken(id)
  PROVE  Woken(id)'
<1>1. ASSUME NEW q \in Requests, SendRequest(q)
      PROVE  /\ \A i \in 1 .. Len(pipe) : i \in 1 .. Len(pipe') /\ pipe'[i] = pipe[i]
             /\ \E i \in 1 .. Len(pipe') : pipe'[i] = q
  <2>1. PICK n \in Nat : /\ n = Len(pipe) /\ Len(pipe') = n + 1 /\ pipe'[n + 1] = q
                         /\ \A i \in 1 .. n : pipe'[i] = pipe[i]
    BY <1>1, SendRequestTyped
  <2>2. n + 1 \in 1 .. n + 1 /\ \A i \in 1 .. n : i \in 1 .. n + 1
    OBVIOUS
  <2> QED BY <2>1, <2>2
<1>2. \A i \in 1 .. Len(pipe) : i \in 1 .. Len(pipe') /\ pipe'[i] = pipe[i]
  <2>1. CASE UNCHANGED pipe
    BY <2>1
  <2>2. CASE \E q \in Requests : SendRequest(q)
    BY <1>1, <2>2
  <2>3. CASE ReadStep(c)
    BY <2>1, <2>3, ReadFrame
  <2> QED BY <2>1, <2>2, <2>3, ClientSends
      DEF ClientStep, AskStep, SendStep, Reserve, Assign, Send, SendLowpriority, Check, Trylock,
          ReadStep, DirectWrite, IncSendingRef
<1>3. CASE \E i \in 1 .. Len(pipe) : pipe[i].op = "W" /\ pipe[i].id = id
  BY <1>2, <1>3 DEF Woken
<1>4. ASSUME NEW d \in Client, pc[d] = "trigger", arg[d].id = id
      PROVE  Woken(id)'
  <2>1. CASE d = c
    <3>0. ~ReadStep(c)
      BY <1>4, <2>1, ReadFrame DEF Holding
    <3>1. Trigger(c)
      BY <1>4, <2>1, <3>0 DEF ClientStep, AskStep, SendStep, Ask, Reserve, Assign, AskOpen, Send,
                        SendLowpriority, Check, Trylock, ReadStep, DirectWrite, IncSendingRef, Queue
    <3>2. PICK q \in Requests : q = Request("W", id) /\ SendRequest(q)
      BY <1>4, <2>1, <3>1, ClientSends
    <3>3. \E i \in 1 .. Len(pipe') : pipe'[i].op = "W" /\ pipe'[i].id = id
      BY <1>1, <3>2 DEF Request
    <3> QED BY <3>3 DEF Woken
  <2>2. CASE d # c
    <3>1. pc'[d] = pc[d] /\ arg'[d] = arg[d]
      BY <2>2, ClientLocks
    <3> QED BY <1>4, <3>1 DEF Woken
  <2> QED BY <2>1, <2>2
<1> QED BY <1>3, <1>4 DEF Woken

LEMMA ClientWrites ==
  ASSUME SocketInv, NoLostWrite, NEW c \in Client, ClientStep(c)
  PROVE  NoLostWrite'
<1> USE DEF SocketInv
<1>1. aborted = "no" /\ UNCHANGED <<force, taken, aborted>> /\ stray \subseteq stray'
  BY ClientFrame
<1>2. ASSUME NEW t \in Slot \ Excused', Needs(slot'[t])
      PROVE  /\ slot'[t].id = slot[t].id /\ slot'[t].writing = slot[t].writing
             /\ Needs(slot[t]) \/ (pc'[c] = "trigger" /\ arg'[c].id = slot[t].id)
  <2>0. t \notin taken /\ t \notin stray'
    BY <1>1, <1>2 DEF Excused
  <2>1. CASE UNCHANGED slot
    BY <1>2, <2>1
  <2>6. CASE ReadStep(c)
    BY <2>1, <2>6, ReadFrame
  <2>2. CASE \E id \in Id, op \in {"O", "L"} : Reserve(c, op, id)
    <3>1. PICK id \in Id, op \in {"O", "L"} : Reserve(c, op, id)
      BY <2>2
    <3>2. PICK r : Puts(HASH_ID(id), r) /\ r.type = "reserve"
      BY <3>1, ReservePuts
    <3>3. slot'[t] = IF t = HASH_ID(id) THEN r ELSE slot[t]
      BY <3>2 DEF Puts, Types
    <3> QED BY <1>2, <3>2, <3>3 DEF Needs, Registered
  <2>3. CASE Assign(c)
    <3>1. PICK r : Puts(HASH_ID(arg[c].id), r) /\ r.type = Sock(c).type
      BY <2>3, AssignPuts
    <3>2. slot'[t] = IF t = HASH_ID(arg[c].id) THEN r ELSE slot[t]
      BY <3>1 DEF Puts, Types
    <3>3. CASE t = HASH_ID(arg[c].id)
      <4>1. arg[c].id \in Id /\ pc[c] = "assign"
        BY <2>3, CallingIs DEF Assign
      <4>2. PICK i \in Id : i = arg[c].id /\ t = HASH_ID(i) /\ Opens(c, i)
        BY <3>3, <4>1 DEF Opens
      <4>3. Unopened(i)
        BY <4>2 DEF Unopened
      <4>4. slot[t].type = "reserve"
        BY <1>1, <2>0, <4>2, <4>3 DEF ReservedForOne
      <4> QED BY <1>2, <3>1, <3>2, <3>3, <4>4 DEF Needs, Registered, Sock
    <3> QED BY <1>2, <3>2, <3>3
  <2>4. CASE DirectWrite(c)
    <3>1. PICK r : /\ Puts(HASH_ID(arg[c].id), r) /\ SameId(Sock(c), r)
                   /\ r.writing = Sock(c).writing
                   /\ \/ r = Sock(c)
                      \/ /\ Goes(c, "trigger", arg[c])
                         /\ Sock(c).id = arg[c].id \/ HASH_ID(arg[c].id) \in stray'
      BY <2>4, WritePuts
    <3>2. slot'[t] = IF t = HASH_ID(arg[c].id) THEN r ELSE slot[t]
      BY <3>1 DEF Puts, Types
    <3>3. CASE t = HASH_ID(arg[c].id)
      <4>3. CASE r = Sock(c)
        BY <1>2, <3>2, <3>3, <4>3 DEF Sock
      <4>4. CASE Goes(c, "trigger", arg[c]) /\ (Sock(c).id = arg[c].id \/ HASH_ID(arg[c].id) \in stray')
        <5>2. slot[t].id = arg[c].id
          BY <2>0, <3>3, <4>4 DEF Sock
        <5>1. pc'[c] = "trigger" /\ arg'[c] = arg[c]
          BY <4>4, GoesOn
        <5> QED BY <3>1, <3>2, <3>3, <5>1, <5>2 DEF SameId, Sock
      <4> QED BY <3>1, <4>3, <4>4
    <3> QED BY <1>2, <3>2, <3>3
  <2>5. CASE IncSendingRef(c)
    <3>1. PICK r : /\ Puts(HASH_ID(arg[c].id), r) /\ SameId(Sock(c), r) /\ r.type = Sock(c).type
                   /\ r.writing = Sock(c).writing /\ Full(r) = Full(Sock(c))
      BY <2>5, IncPuts
    <3>2. slot'[t] = IF t = HASH_ID(arg[c].id) THEN r ELSE slot[t]
      BY <3>1 DEF Puts, Types
    <3> QED BY <1>2, <3>1, <3>2 DEF Needs, Registered, SameId, Sock
  <2> QED BY <2>1, <2>2, <2>3, <2>4, <2>5, <2>6
      DEF ClientStep, AskStep, SendStep, Ask, AskOpen, Send, SendLowpriority, Check, Trylock, ReadStep,
          Trigger, Queue, socket
<1>3. ASSUME NEW t \in Slot \ Excused', Needs(slot'[t]), ~Busy(force, t)
      PROVE  slot'[t].id = slot[t].id /\ (slot'[t].writing \/ Woken(slot[t].id)')
  <2>1. /\ slot'[t].id = slot[t].id /\ slot'[t].writing = slot[t].writing
        /\ Needs(slot[t]) \/ (pc'[c] = "trigger" /\ arg'[c].id = slot[t].id)
    BY <1>2, <1>3
  <2>2. PICK id \in Id \union {0} : id = slot[t].id
    BY SocketIs DEF Types
  <2>3. CASE Needs(slot[t])
    <3>1. slot[t].writing \/ Woken(id)
      BY <1>1, <1>3, <2>2, <2>3, LostWriteIs DEF Excused
    <3>2. Woken(id) => Woken(id)'
      BY ClientWoken
    <3>3. slot'[t].writing \/ (Woken(id)' /\ slot'[t].id = id)
      BY <2>1, <2>2, <3>1, <3>2
    <3> QED BY <2>1, <2>2, <3>3 DEF Woken
  <2>4. CASE pc'[c] = "trigger" /\ arg'[c].id = slot[t].id
    BY <2>1, <2>4 DEF Woken
  <2> QED BY <2>1, <2>3, <2>4
<1> QED BY <1>1, <1>3 DEF NoLostWrite, Needs, Full, Busy, Excused, Woken

(***************************************************************************)
(* Nothing that waits to be written is forgotten: SendSocket, the direct   *)
(* write with its trigger and the handlers of events leave the event of    *)
(* writing on, or a request for it, wherever they leave something behind.  *)
(***************************************************************************)
THEOREM NoWriteIsLost == Spec => []NoLostWrite
<1>1. Init => NoLostWrite
  BY DEF Init, NoLostWrite, Free, Registered
<1>2. SocketInv /\ NoLostWrite /\ [Next]_vars => NoLostWrite'
  <2> SUFFICES ASSUME SocketInv, NoLostWrite, [Next]_vars
               PROVE  NoLostWrite'
    OBVIOUS
  <2>1. CASE ThreadStep
    <3>1. PICK s \in Slot, r \in Socket : Moves(s, r) /\ aborted = "no"
      BY <2>1, ThreadMoves DEF Move, SocketInv
    <3> QED BY <3>1, ThreadWrites DEF SocketInv
  <2>2. CASE \E c \in Client : ClientStep(c)
    BY <2>2, ClientWrites
  <2>3. CASE UNCHANGED vars
    BY <2>3 DEF vars, socket, poll, client, NoLostWrite, Woken
  <2> QED BY <2>1, <2>2, <2>3 DEF Next, ThreadStep
<1> QED BY <1>1, <1>2, SocketInvariant, PTL DEF Spec


-------------------------------------------------------------------------------
(***************************************************************************)
(* The packages on their way.                                              *)
(***************************************************************************)
LEMMA CountsAreFinite ==
  ASSUME Types, NEW id
  PROVE  /\ IsFiniteSet(Counted(id)) /\ Cardinality(Counted(id)) \in Nat
         /\ IsFiniteSet(Counting(id)) /\ Cardinality(Counting(id)) \in Nat
<1>1. Len(pipe) \in Nat
  BY DEF Types
<1>2. IsFiniteSet(1 .. Len(pipe)) /\ Counted(id) \in SUBSET (1 .. Len(pipe))
  BY <1>1, FS_Interval DEF Counted
<1>3. IsFiniteSet(Client) /\ Counting(id) \in SUBSET Client
  BY SocketAssumption DEF Counting
<1>4. IsFiniteSet(Counted(id))
  BY <1>2, FS_Subset
<1>5. IsFiniteSet(Counting(id))
  BY <1>3, FS_Subset
<1> QED BY <1>4, <1>5, FS_CardinalityType

\* The first request is taken.
LEMMA TailCounted ==
  ASSUME Types, NEW id, pipe # <<>>, pipe' = Tail(pipe)
  PROVE  /\ Cardinality(Counted(id)') = IF Head(pipe).counted /\ Head(pipe).id = id
                                          THEN Cardinality(Counted(id)) - 1
                                          ELSE Cardinality(Counted(id))
<1>1. PICK n \in Nat : /\ n = Len(pipe) /\ Len(pipe') = n - 1 /\ n > 0 /\ Head(pipe) = pipe[1]
                       /\ \A i \in 1 .. n - 1 : pipe'[i] = pipe[i + 1]
  <2>1. pipe \in Seq(Requests)
    BY DEF Types
  <2> QED BY <2>1, HeadTail
<1>2. PICK S : S = Counted(id)
  OBVIOUS
<1>3. PICK T : T = Counted(id)'
  OBVIOUS
<1>4. T = {i \in 1 .. n - 1 : pipe[i + 1].counted /\ pipe[i + 1].id = id}
  BY <1>1, <1>3 DEF Counted
<1>5. S = {i \in 1 .. n : pipe[i].counted /\ pipe[i].id = id}
  BY <1>1, <1>2 DEF Counted
<1>6. IsFiniteSet(S)
  BY <1>2, CountsAreFinite
<1>7. IsFiniteSet(S \ {1}) /\ Cardinality(S \ {1}) = IF 1 \in S THEN Cardinality(S) - 1 ELSE Cardinality(S)
  BY <1>6, FS_RemoveElement
<1>8. ExistsBijection(S \ {1}, T)
  <2>1. PICK f : f = [i \in S \ {1} |-> i - 1]
    OBVIOUS
  <2>2. f \in [S \ {1} -> T]
    <3>1. ASSUME NEW i \in S \ {1}
          PROVE  i - 1 \in T
      <4>1. i - 1 \in 1 .. n - 1 /\ (i - 1) + 1 = i
        BY <1>5
      <4> QED BY <1>4, <1>5, <4>1
    <3> QED BY <2>1, <3>1
  <2>3. \A i, j \in S \ {1} : f[i] = f[j] => i = j
    BY <1>5, <2>1
  <2>4. \A k \in T : \E i \in S \ {1} : f[i] = k
    <3>1. ASSUME NEW k \in T
          PROVE  k + 1 \in S \ {1} /\ f[k + 1] = k
      <4>1. k + 1 \in 1 .. n /\ k + 1 # 1 /\ (k + 1) - 1 = k
        BY <1>4
      <4>2. k + 1 \in S \ {1}
        BY <1>4, <1>5, <4>1
      <4> QED BY <2>1, <4>1, <4>2
    <3> QED BY <3>1
  <2>5. f \in Bijection(S \ {1}, T)
    BY <2>2, <2>3, <2>4 DEF Bijection, Injection, Surjection, IsInjective
  <2> QED BY <2>5 DEF ExistsBijection
<1>9. Cardinality(T) = Cardinality(S \ {1})
  BY <1>7, <1>8, FS_Bijection
<1>10. 1 \in S <=> Head(pipe).counted /\ Head(pipe).id = id
  BY <1>1, <1>5
<1> QED BY <1>2, <1>3, <1>7, <1>9, <1>10

\* A request is added.
LEMMA AppendCounted ==
  ASSUME Types, NEW q \in Requests, SendRequest(q), NEW id
  PROVE  /\ Cardinality(Counted(id)') = IF q.counted /\ q.id = id
                                          THEN Cardinality(Counted(id)) + 1
                                          ELSE Cardinality(Counted(id))
<1>1. PICK n \in Nat : /\ n = Len(pipe) /\ Len(pipe') = n + 1 /\ pipe'[n + 1] = q
                       /\ \A i \in 1 .. n : pipe'[i] = pipe[i]
  BY SendRequestTyped
<1>2. PICK S : S = Counted(id)
  OBVIOUS
<1>3. PICK T : T = Counted(id)'
  OBVIOUS
<1>4. \A i \in 1 .. n + 1 : i \in 1 .. n \/ i = n + 1
  OBVIOUS
<1>5. n + 1 \in 1 .. n + 1 /\ n + 1 \notin 1 .. n /\ \A i \in 1 .. n : i \in 1 .. n + 1
  OBVIOUS
<1>6. \A i : i \in S <=> i \in 1 .. n /\ pipe[i].counted /\ pipe[i].id = id
  BY <1>1, <1>2 DEF Counted
<1>7. \A i : i \in T <=> i \in 1 .. n + 1 /\ pipe'[i].counted /\ pipe'[i].id = id
  BY <1>1, <1>3 DEF Counted
<1>8. IsFiniteSet(S)
  BY <1>2, CountsAreFinite
<1>9. CASE q.counted /\ q.id = id
  <2>1. T = S \union {n + 1} /\ n + 1 \notin S
    BY <1>1, <1>4, <1>5, <1>6, <1>7, <1>9
  <2>2. Cardinality(S \union {n + 1}) = Cardinality(S) + 1
    BY <1>8, <2>1, FS_AddElement
  <2> QED BY <1>2, <1>3, <1>9, <2>1, <2>2
<1>10. CASE ~(q.counted /\ q.id = id)
  <2>1. \A i \in S : i \in T
    BY <1>1, <1>5, <1>6, <1>7
  <2>2. \A i \in T : i \in 1 .. n
    BY <1>1, <1>4, <1>7, <1>10
  <2>3. \A i \in T : i \in S
    BY <1>1, <1>6, <1>7, <2>2
  <2>4. T = S
    BY <2>1, <2>3
  <2> QED BY <1>2, <1>3, <1>10, <2>4
<1> QED BY <1>9, <1>10

\* The call of client c becomes a.
LEMMA GoesCounting ==
  ASSUME Types, Calling, NEW c \in Client, NEW l, NEW a, Goes(c, l, a), NEW id
  PROVE  /\ (arg[c].counted /\ arg[c].id = id <=> a.counted /\ a.id = id) =>
              Counting(id)' = Counting(id)
         /\ (arg[c].counted /\ arg[c].id = id) /\ ~(a.counted /\ a.id = id) =>
              Cardinality(Counting(id)') = Cardinality(Counting(id)) - 1
         /\ ~(arg[c].counted /\ arg[c].id = id) /\ (a.counted /\ a.id = id) =>
              Cardinality(Counting(id)') = Cardinality(Counting(id)) + 1
<1>1. arg'[c] = a /\ \A d \in Client \ {c} : arg'[d] = arg[d]
  BY GoesOn
<1>2. PICK S : S = Counting(id)
  OBVIOUS
<1>3. PICK T : T = Counting(id)'
  OBVIOUS
<1>4. IsFiniteSet(S)
  BY <1>2, CountsAreFinite
<1>5. \A d : d \in S <=> d \in Client /\ arg[d].counted /\ arg[d].id = id
  BY <1>2 DEF Counting
<1>6. \A d : d \in T <=> d \in Client /\ arg'[d].counted /\ arg'[d].id = id
  BY <1>3 DEF Counting
<1>7. ASSUME arg[c].counted /\ arg[c].id = id <=> a.counted /\ a.id = id
      PROVE  T = S
  BY <1>1, <1>5, <1>6, <1>7
<1>8. ASSUME arg[c].counted /\ arg[c].id = id, ~(a.counted /\ a.id = id)
      PROVE  Cardinality(T) = Cardinality(S) - 1
  <2>1. T = S \ {c} /\ c \in S
    BY <1>1, <1>5, <1>6, <1>8
  <2> QED BY <1>4, <2>1, FS_RemoveElement
<1>9. ASSUME ~(arg[c].counted /\ arg[c].id = id), a.counted /\ a.id = id
      PROVE  Cardinality(T) = Cardinality(S) + 1
  <2>1. T = S \union {c} /\ c \notin S
    BY <1>1, <1>5, <1>6, <1>9
  <2> QED BY <1>4, <2>1, FS_AddElement
<1> QED BY <1>2, <1>3, <1>7, <1>8, <1>9


(***************************************************************************)
(* What services have been told.                                           *)
(***************************************************************************)
LEMMA ThreadTells ==
  ASSUME SocketInv, Told, aborted = "no", NEW s \in Slot, NEW r \in Socket, Moves(s, r), aborted' = "no"
  PROVE  Told'
<1> USE DEF SocketInv
<1>1. /\ \A id \in Id : Unopened(id)' => Unopened(id)
      /\ \A id \in Id : Takes(OpenOp) /\ id = Head(pipe).id => ~Unopened(id)'
  BY MovesUnopened
<1>2. /\ \A t \in Slot : slot'[t] = IF t = s THEN r ELSE slot[t]
      /\ taken \subseteq taken' /\ UNCHANGED <<pc, arg>>
  BY DEF Moves, Types, client
<1>3. \A i \in 1 .. Len(pipe') : \E j \in 1 .. Len(pipe) : pipe'[i] = pipe[j]
  BY MovesPipe
<1>4. \A i \in Id : i \in Nat /\ HASH_ID(i) \in Slot
  BY IdIsNat, HashInSlot
<1>5. \A i \in Id : Accepts(s, r) /\ told[i] # "no" => i # alloc_id'
  <2>1. ASSUME NEW i \in Id, Accepts(s, r), told[i] # "no"
        PROVE  i # alloc_id'
    <3>1. i <= alloc_id /\ alloc_id \in Nat /\ i \in Nat
      BY <1>4, <2>1 DEF Ids, Types
    <3>2. alloc_id' > alloc_id
      BY <2>1 DEF Accepts
    <3> QED BY <3>1, <3>2
  <2> QED BY <2>1
<1>6. \A i \in Id : told[i] = "open" => told'[i] = "open"
  <2>1. CASE Accepts(s, r)
    <3>1. \A i \in Id : told[i] = "open" => i # alloc_id'
      BY <1>5, <2>1
    <3> QED BY <2>1, <3>1 DEF Accepts, Types
  <2> QED BY <2>1 DEF Moves, Kinds, Quiet, Shuts, Fails, Succeeds, Discounts, Types
<1>7. ASSUME NEW i \in Id, told[i] = "open", HASH_ID(i) \notin taken', slot[HASH_ID(i)].id # i
      PROVE  slot'[HASH_ID(i)].id # i
  <2>1. CASE HASH_ID(i) # s
    BY <1>2, <1>4, <1>7, <2>1
  <2>2. CASE HASH_ID(i) = s
    <3>1. CASE SameId(slot[s], r)
      BY <1>2, <1>7, <2>2, <3>1 DEF SameId
    <3>2. CASE Succeeds(s, r)
      <4>1. r.id = Head(pipe).id /\ Unopened(Head(pipe).id)
        BY <3>2, AskedIsUnopened DEF Succeeds, NewSocket, Takes
      <4>2. ~Unopened(i)
        BY <1>2, <1>7 DEF Told
      <4> QED BY <1>2, <2>2, <4>1, <4>2
    <3>3. CASE Accepts(s, r)
      <4>1. r.id = alloc_id' /\ i # alloc_id'
        BY <1>5, <1>7, <3>3 DEF Accepts, NewSocket
      <4> QED BY <1>2, <2>2, <4>1
    <3> QED BY <3>1, <3>2, <3>3 DEF Moves, Kinds, Quiet, Shuts, Fails, Discounts
  <2> QED BY <2>1, <2>2
<1>8. ASSUME NEW i \in Id, told'[i] = "open", HASH_ID(i) \notin taken'
      PROVE  ~Unopened(i)' /\ (slot'[HASH_ID(i)].id = i => slot'[HASH_ID(i)].tcp)
  <2>1. CASE told[i] = "open"
    <3>1. ~Unopened(i) /\ (slot[HASH_ID(i)].id = i => slot[HASH_ID(i)].tcp)
      BY <1>2, <1>8, <2>1 DEF Told
    <3>2. CASE HASH_ID(i) # s
      BY <1>1, <1>2, <1>4, <3>1, <3>2
    <3>3. CASE HASH_ID(i) = s
      <4>1. r.id = i => r.tcp
        <5>1. CASE SameId(slot[s], r)
          BY <3>1, <3>3, <5>1 DEF SameId
        <5>2. CASE Succeeds(s, r)
          BY <5>2 DEF Succeeds, NewSocket
        <5>3. CASE Accepts(s, r)
          BY <1>5, <2>1, <5>3 DEF Accepts, NewSocket
        <5> QED BY <5>1, <5>2, <5>3 DEF Moves, Kinds, Quiet, Shuts, Fails, Discounts
      <4> QED BY <1>1, <1>2, <3>1, <3>3, <4>1
    <3> QED BY <3>2, <3>3
  <2>2. CASE told[i] # "open"
    <3>1. \/ Quiet(s, r) /\ Registered(slot[s]) /\ i = slot[s].id
          \/ Succeeds(s, r) /\ i = Head(pipe).id
      BY <1>8, <2>2 DEF Moves, Kinds, Quiet, Shuts, Fails, Succeeds, Accepts, Discounts, Types
    <3>2. CASE Quiet(s, r) /\ Registered(slot[s]) /\ i = slot[s].id
      <4>1. HASH_ID(i) = s /\ s \notin taken
        BY <1>2, <1>4, <1>8, <3>2 DEF Types, Id
      <4>2. slot[s].tcp
        BY <3>2, <4>1 DEF Connected
      <4>3. ~Unopened(i)
        BY <3>2, <4>2 DEF Ids
      <4> QED BY <1>1, <1>2, <3>2, <4>1, <4>2, <4>3 DEF Quiet, SameId
    <3>3. CASE Succeeds(s, r) /\ i = Head(pipe).id
      <4>1. s = HASH_ID(i) /\ r.tcp /\ Takes(OpenOp)
        BY <3>3 DEF Succeeds, NewSocket
      <4> QED BY <1>1, <1>2, <3>3, <4>1
    <3> QED BY <3>1, <3>2, <3>3
  <2> QED BY <2>1, <2>2
<1>9. \A c \in Client : arg[c].op \in SendOp => arg[c].id \in Id /\ told[arg[c].id] = "open"
  <2>1. ASSUME NEW c \in Client, arg[c].op \in SendOp
        PROVE  arg[c].id \in Id /\ told[arg[c].id] = "open"
    <3>1. pc[c] # "idle"
      BY <2>1 DEF Calling, NoRequest, Request, SendOp
    <3> QED BY <2>1, <3>1, CallingIs DEF Told
  <2> QED BY <2>1
<1>10. \A j \in 1 .. Len(pipe) : pipe[j].op \in SendOp => pipe[j].id \in Id /\ told[pipe[j].id] = "open"
  <2>1. \A j \in 1 .. Len(pipe) : pipe[j] \in Requests
    BY DEF Types
  <2> QED BY <2>1 DEF Requests, Told
<1>11. \A c \in Client : arg'[c].op \in SendOp => told'[arg'[c].id] = "open"
  BY <1>2, <1>6, <1>9
<1>12. \A i \in 1 .. Len(pipe') : pipe'[i].op \in SendOp => told'[pipe'[i].id] = "open"
  BY <1>3, <1>6, <1>10
<1>13. ASSUME NEW c \in Client, pc'[c] = "queue", ~arg'[c].counted
       PROVE  Gone(arg[c].id)'
  <2>1. arg[c].op \in SendOp /\ pc[c] = "queue" /\ ~arg[c].counted
    BY <1>2, <1>13 DEF Calling, Sending
  <2>2. Gone(arg[c].id) /\ arg[c].id \in Id /\ told[arg[c].id] = "open"
    BY <1>9, <2>1 DEF Told
  <2>3. HASH_ID(arg[c].id) \notin taken' => slot'[HASH_ID(arg[c].id)].id # arg[c].id
    BY <1>2, <1>7, <2>2 DEF Gone
  <2> QED BY <1>2, <2>3 DEF Gone
<1>14. ASSUME NEW i \in 1 .. Len(pipe'), pipe'[i].op \in SendOp, ~pipe'[i].counted
       PROVE  Gone(pipe[i].id)'
  <2>1. PICK j \in 1 .. Len(pipe) : pipe'[i] = pipe[j]
    BY <1>3
  <2>2. Gone(pipe[j].id) /\ pipe[j].id \in Id /\ told[pipe[j].id] = "open"
    BY <1>10, <1>14, <2>1 DEF Told
  <2>3. HASH_ID(pipe[j].id) \notin taken' => slot'[HASH_ID(pipe[j].id)].id # pipe[j].id
    BY <1>2, <1>7, <2>2 DEF Gone
  <2> QED BY <2>1, <2>3 DEF Gone
<1> QED BY <1>8, <1>11, <1>12, <1>13, <1>14 DEF Told

\* The assertion of DecSendingRef, when it is reached.
LEMMA ThreadDiscounts ==
  ASSUME SocketInv, Told, Exact, aborted = "no", NEW s \in Slot, NEW r \in Socket, Moves(s, r),
         s \notin taken, Discounts(s, r), slot[s].id = Head(pipe).id, slot[s].tcp
  PROVE  Head(pipe).counted /\ slot[s].sending # 0
<1> USE DEF SocketInv
<1>1. /\ pipe # <<>> /\ Head(pipe).op \in SendOp /\ s = HASH_ID(Head(pipe).id)
      /\ Head(pipe) = pipe[1] /\ 1 \in 1 .. Len(pipe)
  <2>1. pipe # <<>> /\ Head(pipe).op \in SendOp /\ s = HASH_ID(Head(pipe).id)
    BY DEF Discounts, Takes
  <2>2. Head(pipe) = pipe[1] /\ Len(pipe) > 0 /\ Len(pipe) \in Nat
    BY <2>1, RequestIs DEF Types
  <2> QED BY <2>1, <2>2
<1>2. Head(pipe).counted
  BY <1>1 DEF Told, Gone
<1>3. 1 \in Counted(slot[s].id)
  BY <1>1, <1>2 DEF Counted
<1>4. PICK n \in Nat, m \in Nat : n = Cardinality(Counted(slot[s].id)) /\ m = Cardinality(Counting(slot[s].id))
  BY CountsAreFinite
<1>5. n # 0
  BY <1>3, <1>4, CountsAreFinite, FS_EmptySet
<1>6. slot[s].sending = n + m
  BY <1>4 DEF Exact
<1> QED BY <1>2, <1>5, <1>6


\* No package is counted for an id that is about to be opened.
LEMMA NewIsUncounted ==
  ASSUME SocketInv, NEW s \in Slot, NEW r \in Socket, Moves(s, r), NEW id \in Id,
         (Succeeds(s, r) /\ id = Head(pipe).id) \/ (Accepts(s, r) /\ id = alloc_id')
  PROVE  Cardinality(Counted(id)') = 0 /\ Cardinality(Counting(id)') = 0
<1> USE DEF SocketInv
<1>1. /\ \A i \in 1 .. Len(pipe') : \E j \in 1 .. Len(pipe) : pipe'[i] = pipe[j]
      /\ UNCHANGED <<pc, arg>>
  BY MovesPipe DEF Moves, client
<1>2. /\ \A j \in 1 .. Len(pipe) : ~(pipe[j].counted /\ pipe[j].id = id)
      /\ \A c \in Client : ~(arg[c].counted /\ arg[c].id = id)
  <2>1. CASE Succeeds(s, r) /\ id = Head(pipe).id
    <3>1. Unopened(id)
      BY <2>1, AskedIsUnopened DEF Succeeds, Takes
    <3> QED BY <3>1 DEF Counteds
  <2>2. CASE Accepts(s, r) /\ id = alloc_id'
    <3>1. PICK n \in Nat : n = alloc_id /\ id \in Nat /\ id > n
      BY <2>2, IdIsNat DEF Accepts, Types
    <3>2. \A j \in 1 .. Len(pipe) : pipe[j].id # id
      BY <3>1 DEF Ids
    <3>3. \A c \in Client : arg[c].id # id
      BY <3>1 DEF Ids
    <3> QED BY <3>2, <3>3
  <2> QED BY <2>1, <2>2
<1>3. Counted(id)' = {} /\ Counting(id)' = {}
  BY <1>1, <1>2 DEF Counted, Counting
<1> QED BY <1>3, FS_EmptySet

LEMMA ThreadCounts ==
  ASSUME SocketInv, Told, Exact, aborted = "no", NEW s \in Slot, NEW r \in Socket, Moves(s, r),
         aborted' = "no"
  PROVE  Exact'
<1> USE DEF SocketInv
<1>1. /\ \A t \in Slot : slot'[t] = IF t = s THEN r ELSE slot[t]
      /\ taken \subseteq taken' /\ UNCHANGED <<pc, arg>>
  BY DEF Moves, Types, client
<1>2. \A id : Counting(id)' = Counting(id)
  BY <1>1 DEF Counting
<1>3. pipe' = pipe \/ (pipe # <<>> /\ pipe' = Tail(pipe))
  BY MovesPipe
<1>4. ASSUME ~Discounts(s, r), NEW id
      PROVE  Cardinality(Counted(id)') = Cardinality(Counted(id))
  <2>1. CASE pipe' = pipe
    <3>1. Counted(id)' = Counted(id)
      BY <2>1 DEF Counted
    <3> QED BY <3>1
  <2>2. CASE pipe # <<>> /\ pipe' = Tail(pipe) /\ pipe' # pipe
    <3>1. Head(pipe).op \notin SendOp
      BY <1>4, <2>2 DEF Moves, Kinds, Quiet, Shuts, Fails, Succeeds, Accepts, Takes, OtherOp, OpenOp, SendOp
    <3>2. Head(pipe) = pipe[1] /\ 1 \in 1 .. Len(pipe)
      <4>1. Head(pipe) = pipe[1] /\ Len(pipe) > 0 /\ Len(pipe) \in Nat
        BY <2>2, RequestIs DEF Types
      <4> QED BY <4>1
    <3>3. ~Head(pipe).counted
      BY <3>1, <3>2 DEF Counteds
    <3> QED BY <2>2, <3>3, TailCounted
  <2> QED BY <1>3, <2>1, <2>2
<1>5. ASSUME NEW t \in Slot \ taken', slot'[t].tcp, NEW id \in Id, id = slot'[t].id
      PROVE  slot'[t].sending = Cardinality(Counted(id)') + Cardinality(Counting(id)')
  <2>1. t \notin taken /\ slot[t] \in Socket
    BY <1>1 DEF Types
  <2>2. PICK n \in Nat, m \in Nat : n = Cardinality(Counted(id)) /\ m = Cardinality(Counting(id))
    BY CountsAreFinite
  <2>3. Cardinality(Counting(id)') = m
    BY <1>2, <2>2
  <2>4. ASSUME SameId(slot[t], slot'[t])
        PROVE  slot[t].sending = n + m
    BY <1>5, <2>1, <2>2, <2>4 DEF Exact, SameId
  <2>5. CASE t # s
    <3>1. slot'[t] = slot[t] /\ SameId(slot[t], slot'[t])
      BY <1>1, <2>5 DEF SameId
    <3>2. Cardinality(Counted(id)') = n
      <4>1. CASE Discounts(s, r)
        <5>1. pipe # <<>> /\ pipe' = Tail(pipe) /\ s = HASH_ID(Head(pipe).id)
          BY <4>1 DEF Discounts, Takes
        <5>2. HASH_ID(id) = t
          BY <1>5, <3>1, IdIsNat DEF Types
        <5>3. Head(pipe).id # id
          BY <2>5, <5>1, <5>2
        <5> QED BY <2>2, <5>1, <5>3, TailCounted
      <4> QED BY <1>4, <2>2, <4>1
    <3> QED BY <2>3, <2>4, <3>1, <3>2
  <2>6. CASE t = s
    <3>1. slot'[t] = r
      BY <1>1, <2>6
    <3>2. CASE Quiet(s, r) \/ Shuts(s, r) \/ Fails(s, r)
      <4>1. SameId(slot[t], slot'[t]) /\ r.sending = slot[t].sending
        BY <2>6, <3>1, <3>2 DEF Quiet, Shuts, Fails
      <4>2. CASE Discounts(s, r)
        <5>1. Takes(SendOp) /\ (pipe' = pipe \/ Takes(OtherOp) \/ Takes(OpenOp))
          BY <3>2, <4>2 DEF Quiet, Shuts, Fails, Discounts
        <5>2. pipe' # pipe
          BY <5>1, TailDiffers DEF Takes
        <5> QED BY <5>1, <5>2 DEF Takes, OtherOp, OpenOp, SendOp
      <4>3. CASE ~Discounts(s, r)
        BY <1>4, <2>2, <2>3, <2>4, <3>1, <4>1, <4>3
      <4> QED BY <4>2, <4>3
    <3>3. CASE Succeeds(s, r)
      <4>1. id = Head(pipe).id /\ r.sending = 0
        BY <1>5, <3>1, <3>3 DEF Succeeds, NewSocket
      <4>2. Cardinality(Counted(id)') = 0 /\ Cardinality(Counting(id)') = 0
        BY <3>3, <4>1, NewIsUncounted
      <4> QED BY <3>1, <4>1, <4>2
    <3>4. CASE Accepts(s, r)
      <4>1. id = alloc_id' /\ r.sending = 0
        BY <1>5, <3>1, <3>4 DEF Accepts, NewSocket
      <4>2. Cardinality(Counted(id)') = 0 /\ Cardinality(Counting(id)') = 0
        BY <3>4, <4>1, NewIsUncounted
      <4> QED BY <3>1, <4>1, <4>2
    <3>5. CASE Discounts(s, r)
      <4>1. /\ pipe # <<>> /\ pipe' = Tail(pipe) /\ SameId(slot[s], r)
            /\ SameId(slot[t], slot'[t]) /\ slot[s].tcp /\ slot[s].id = id
        BY <1>5, <2>6, <3>1, <3>5 DEF Discounts, Takes, SameId
      <4>2. slot[s].sending = n + m
        BY <2>4, <2>6, <4>1
      <4>3. CASE Head(pipe).id = id
        <5>1. Head(pipe).counted /\ slot[s].sending # 0
          BY <2>1, <2>6, <3>5, <4>1, <4>3, ThreadDiscounts
        <5>2. r.sending = slot[s].sending - 1
          BY <3>5, <4>1, <4>3, <5>1 DEF Discounts
        <5>3. Cardinality(Counted(id)') = n - 1
          BY <2>2, <4>1, <4>3, <5>1, TailCounted
        <5> QED BY <2>3, <3>1, <4>2, <5>2, <5>3
      <4>4. CASE Head(pipe).id # id
        <5>1. r.sending = slot[s].sending
          BY <3>5, <4>1, <4>4 DEF Discounts
        <5>2. Cardinality(Counted(id)') = n
          BY <2>2, <4>1, <4>4, TailCounted
        <5> QED BY <2>3, <3>1, <4>2, <5>1, <5>2
      <4> QED BY <4>3, <4>4
    <3> QED BY <3>2, <3>3, <3>4, <3>5 DEF Moves, Kinds
  <2> QED BY <2>5, <2>6
<1>6. \A t \in Slot : slot'[t] \in Socket
  BY <1>1 DEF Types
<1>7. ASSUME NEW t \in Slot \ taken', slot'[t].tcp
      PROVE  slot'[t].sending = (Cardinality(Counted(slot[t].id)) + Cardinality(Counting(slot[t].id)))'
  <2>1. slot'[t].id # 0
    BY <1>7, ThreadIds DEF Ids
  <2>2. PICK id \in Id : id = slot'[t].id
    BY <1>6, <2>1, SocketIs
  <2> QED BY <1>5, <1>7, <2>2 DEF Counted, Counting
<1> QED BY <1>7 DEF Exact


\* What a step of a client does to what services are told and to what they send.
LEMMA ReserveTells ==
  ASSUME SocketInv, Told, Exact, NEW c \in Client,
         NEW op \in {"O", "L"}, NEW id \in Id, Reserve(c, op, id), aborted = "no"
  PROVE  Told' /\ Exact'
<1> USE DEF SocketInv
<1>1. \A j \in Id : Unopened(j)' <=> Unopened(j) \/ j = id
  BY ReserveUnopened
<1>2. PICK r : /\ Puts(HASH_ID(id), r) /\ SameId(slot[HASH_ID(id)], r)
               /\ r.sending = slot[HASH_ID(id)].sending /\ id > alloc_id
  BY ReservePuts
<1>3. \A t \in Slot : SameId(slot[t], slot'[t]) /\ slot'[t].sending = slot[t].sending
  <2>1. \A t \in Slot : slot'[t] = IF t = HASH_ID(id) THEN r ELSE slot[t]
    BY <1>2 DEF Puts, Types
  <2> QED BY <1>2, <2>1 DEF SameId
<1>4. UNCHANGED <<pipe, told, taken, aborted>> /\ Goes(c, "assign", Request(op, id)) /\ pc[c] = "idle"
  BY ClientGoes DEF Reserve
<1>5. /\ pc'[c] = "assign" /\ arg'[c] = Request(op, id)
      /\ \A d \in Client \ {c} : pc'[d] = pc[d] /\ arg'[d] = arg[d]
  BY <1>4, GoesOn
<1>6. told[id] = "no"
  <2>1. alloc_id \in Nat /\ id \in Nat
    BY IdIsNat DEF Types
  <2> QED BY <1>2, <2>1 DEF Ids
<1>7. \A i \in Id : HASH_ID(i) \in Slot
  BY IdIsNat, HashInSlot
<1>8. Told'
  <2>1. ASSUME NEW i \in Id, told[i] = "open", HASH_ID(i) \notin taken
        PROVE  ~Unopened(i)' /\ (slot'[HASH_ID(i)].id = i => slot'[HASH_ID(i)].tcp)
    <3>1. ~Unopened(i) /\ (slot[HASH_ID(i)].id = i => slot[HASH_ID(i)].tcp)
      BY <1>4, <2>1 DEF Told
    <3> QED BY <1>1, <1>3, <1>6, <1>7, <2>1, <3>1 DEF SameId
  <2>2. \A d \in Client : arg'[d].op \in SendOp => told[arg'[d].id] = "open"
    BY <1>4, <1>5 DEF Told, Request, SendOp
  <2>3. ASSUME NEW i \in Id, Gone(i)
        PROVE  HASH_ID(i) \notin taken' => slot'[HASH_ID(i)].id # i
    BY <1>3, <1>4, <1>7, <2>3 DEF Gone, SameId
  <2>4. ASSUME NEW d \in Client, pc'[d] = "queue", ~arg'[d].counted
        PROVE  Gone(arg[d].id)'
    <3>1. d # c /\ arg'[d] = arg[d] /\ pc[d] = "queue"
      BY <1>5, <2>4
    <3>2. arg[d].id \in Id /\ Gone(arg[d].id)
      BY <1>4, <2>4, <3>1, CallingIs DEF Told
    <3>3. HASH_ID(arg[d].id) \notin taken' => slot'[HASH_ID(arg[d].id)].id # arg[d].id
      BY <2>3, <3>2
    <3> QED BY <3>1, <3>3 DEF Gone
  <2>5. ASSUME NEW i \in 1 .. Len(pipe), pipe[i].op \in SendOp, ~pipe[i].counted
        PROVE  Gone(pipe[i].id)'
    <3>1. pipe[i] \in Requests
      BY DEF Types
    <3>2. pipe[i].id \in Id /\ Gone(pipe[i].id)
      BY <1>4, <2>5, <3>1 DEF Told, Requests
    <3>3. HASH_ID(pipe[i].id) \notin taken' => slot'[HASH_ID(pipe[i].id)].id # pipe[i].id
      BY <2>3, <3>2
    <3> QED BY <1>4, <3>3 DEF Gone
  <2>6. \A i \in 1 .. Len(pipe) : pipe[i].op \in SendOp => told[pipe[i].id] = "open"
    BY <1>4 DEF Told
  <2> QED BY <1>4, <2>1, <2>2, <2>4, <2>5, <2>6 DEF Told
<1>9. Exact'
  <2>1. \A i : Counted(i)' = Counted(i)
    BY <1>4 DEF Counted
  <2>2. ~arg[c].counted /\ ~Request(op, id).counted
    BY <1>4 DEF Calling, Request
  <2>3. \A i : Counting(i)' = Counting(i)
    BY <1>4, <2>2, GoesCounting
  <2>4. ASSUME NEW t \in Slot \ taken, slot'[t].tcp
        PROVE  slot'[t].sending = (Cardinality(Counted(slot[t].id)) + Cardinality(Counting(slot[t].id)))'
    <3>1. PICK i : i = slot[t].id /\ i = slot'[t].id
      BY <1>3 DEF SameId
    <3>2. slot[t].sending = Cardinality(Counted(i)) + Cardinality(Counting(i))
      BY <1>3, <1>4, <2>4, <3>1 DEF Exact, SameId
    <3>3. slot'[t].sending = Cardinality(Counted(i)') + Cardinality(Counting(i)')
      BY <1>3, <2>1, <2>3, <3>2
    <3> QED BY <3>1, <3>3 DEF Counted, Counting
  <2> QED BY <1>4, <2>4 DEF Exact
<1> QED BY <1>8, <1>9


\* A call, or a request, to send is of an id that is open; if it is not counted, of one that is gone.
ToOpen(a, asked) == a.op \in SendOp => /\ a.id \in Id /\ told[a.id] = "open"
                                       /\ asked /\ ~a.counted => Gone(a.id)
CallsOpen(c) == \/ UNCHANGED <<pc, arg>>
                \/ \E l, a : Goes(c, l, a) /\ ToOpen(a, l = "queue")
AsksOpen == \/ UNCHANGED pipe
            \/ \E q \in Requests : SendRequest(q) /\ ToOpen(q, TRUE)

LEMMA ClientCalls ==
  ASSUME ~EarlySend, SocketInv, Told, NEW c \in Client, ClientStep(c),
         ~\E id \in Id, op \in {"O", "L"} : Reserve(c, op, id)
  PROVE  /\ CallsOpen(c) /\ AsksOpen
         /\ \A i \in Id : told'[i] = "open" <=> told[i] = "open"
<1> USE DEF SocketInv
<1>1. aborted = "no"
  BY ClientFrame
<1>2. ToOpen(arg[c], pc[c] = "queue")
  <2>1. ASSUME arg[c].op \in SendOp
        PROVE  arg[c].id \in Id
    <3>1. pc[c] # "idle"
      BY <2>1 DEF Calling, NoRequest, Request, SendOp
    <3> QED BY <3>1, CallingIs
  <2>2. pc[c] = "queue" /\ ~arg[c].counted => Gone(arg[c].id)
    BY <1>1 DEF Told
  <2>3. arg[c].op \in SendOp => told[arg[c].id] = "open"
    BY <1>1 DEF Told
  <2> QED BY <2>1, <2>2, <2>3 DEF ToOpen
<1>3. \A b : ToOpen(NoRequest, b)
  BY DEF ToOpen, NoRequest, Request, SendOp
<1>4. \A op \in Op \ SendOp, i \in Id : \A b : ToOpen(Request(op, i), b)
  BY DEF ToOpen, Request
<1>5. UNCHANGED told => \A i \in Id : told'[i] = "open" <=> told[i] = "open"
  OBVIOUS
<1>6. CASE \E id \in Id, op \in {"K", "shutdown", "R", "S"} : Ask(c, op, id)
  <2>1. PICK id \in Id, op \in {"K", "shutdown", "R", "S"} : Ask(c, op, id)
    BY <1>6
  <2>2. PICK q \in Requests : q = Request(op, id) /\ SendRequest(q)
    BY <2>1, ClientSends
  <2>3. ToOpen(q, TRUE)
    BY <1>4, <2>2 DEF Op, SendOp
  <2> QED BY <1>5, <2>1, <2>2, <2>3 DEF Ask, client, CallsOpen, AsksOpen
<1>7. CASE Assign(c)
  <2>1. Goes(c, "ask", arg[c]) /\ UNCHANGED <<pipe, told>>
    BY <1>7, ClientGoes DEF Assign
  <2>2. ToOpen(arg[c], "ask" = "queue")
    BY <1>2 DEF ToOpen
  <2> QED BY <1>5, <2>1, <2>2 DEF CallsOpen, AsksOpen
<1>8. CASE AskOpen(c)
  <2>1. Goes(c, "idle", NoRequest) /\ arg[c] \in Requests /\ SendRequest(arg[c]) /\ pc[c] = "ask"
    BY <1>8, ClientGoes, ClientSends DEF AskOpen
  <2>2. ToOpen(arg[c], TRUE)
    BY <2>1 DEF ToOpen, Calling, OpenOp, SendOp
  <2>3. \A i \in Id : told'[i] = "open" <=> told[i] = "open"
    BY <1>8 DEF AskOpen, Types
  <2> QED BY <1>3, <2>1, <2>2, <2>3 DEF CallsOpen, AsksOpen
<1>9. CASE \E id \in Id : Send(c, id) \/ SendLowpriority(c, id)
  <2>1. PICK id \in Id : Send(c, id) \/ SendLowpriority(c, id)
    BY <1>9
  <2>2. told[id] = "open" /\ UNCHANGED <<pipe, told>>
    BY <2>1 DEF Send, SendLowpriority, MaySend
  <2>3. PICK l \in {"check", "inc"}, op \in {"D", "P"} : Goes(c, l, Request(op, id))
    BY <2>1, ClientGoes
  <2>4. ToOpen(Request(op, id), l = "queue")
    BY <2>2, <2>3 DEF ToOpen, Request
  <2> QED BY <1>5, <2>2, <2>3, <2>4 DEF CallsOpen, AsksOpen
<1>10. CASE Check(c) \/ Trylock(c) \/ ReadStep(c) \/ DirectWrite(c)
  <2>1. UNCHANGED <<pipe, told>>
    BY <1>10, ReadFrame DEF Check, Trylock, DirectWrite
  <2>2. \E l \in {"trylock", "inc", "trigger"} \union Holding :
          Goes(c, l, arg[c]) \/ Goes(c, "idle", NoRequest)
    BY <1>10, ClientGoes DEF Holding
  <2>3. \A l \in {"trylock", "inc", "trigger"} \union Holding : ToOpen(arg[c], l = "queue")
    BY <1>2 DEF ToOpen, Holding
  <2> QED BY <1>3, <1>5, <2>1, <2>2, <2>3 DEF CallsOpen, AsksOpen
<1>11. CASE Trigger(c)
  <2>1. UNCHANGED told /\ Goes(c, "idle", NoRequest)
    BY <1>11, ClientGoes DEF Trigger
  <2>2. PICK q \in Requests : SendRequest(q) /\ q = Request("W", arg[c].id)
    BY <1>11, ClientSends
  <2>3. ToOpen(q, TRUE)
    BY <2>2 DEF ToOpen, Request, SendOp
  <2> QED BY <1>3, <1>5, <2>1, <2>2, <2>3 DEF CallsOpen, AsksOpen
<1>12. CASE Queue(c)
  <2>1. UNCHANGED told /\ Goes(c, "idle", NoRequest) /\ arg[c] \in Requests /\ SendRequest(arg[c]) /\ pc[c] = "queue"
    BY <1>12, ClientGoes, ClientSends DEF Queue
  <2>2. ToOpen(arg[c], TRUE)
    BY <1>2, <2>1 DEF ToOpen
  <2> QED BY <1>3, <1>5, <2>1, <2>2 DEF CallsOpen, AsksOpen
<1>13. CASE IncSendingRef(c)
  <2>1. UNCHANGED <<pipe, told>> /\ pc[c] = "inc"
    BY <1>13 DEF IncSendingRef
  <2>2. PICK b \in BOOLEAN : b = Counts(Sock(c), arg[c].id)
    BY CallingIs, SocketIs DEF Counts
  <2>3. PICK a : a = [arg[c] EXCEPT !.counted = b]
    OBVIOUS
  <2>4. Goes(c, "queue", a)
    BY <1>13, <2>2, <2>3, ClientGoes
  <2>5. a.id = arg[c].id /\ a.op = arg[c].op /\ a.counted = b
    BY <2>3, CallingIs
  <2>6. /\ arg[c].op \in SendOp /\ arg[c].id \in Id /\ told[arg[c].id] = "open"
        /\ HASH_ID(arg[c].id) \in Slot
    BY <1>2, <2>1, CallingIs DEF Calling, Sending, ToOpen
  <2>7. ~b => Gone(arg[c].id)
    <3>1. ASSUME ~b, HASH_ID(arg[c].id) \notin taken, Sock(c).id = arg[c].id
          PROVE  FALSE
      <4>1. Sock(c).tcp
        BY <1>1, <2>6, <3>1 DEF Told, Sock
      <4>2. Sock(c).tag = ID_TAG16(arg[c].id)
        BY <2>6, <3>1, <4>1 DEF Ids, Sock
      <4> QED BY <2>2, <3>1, <4>1, <4>2 DEF Counts
    <3> QED BY <3>1 DEF Gone, Sock
  <2>8. ToOpen(a, "queue" = "queue")
    BY <2>5, <2>6, <2>7 DEF ToOpen
  <2> QED BY <1>5, <2>1, <2>4, <2>8 DEF CallsOpen, AsksOpen
<1> QED BY <1>6, <1>7, <1>8, <1>9, <1>10, <1>11, <1>12, <1>13 DEF ClientStep, AskStep, SendStep, ReadStep

LEMMA ClientTells ==
  ASSUME ~EarlySend, SocketInv, Told, NEW c \in Client, ClientStep(c),
         ~\E id \in Id, op \in {"O", "L"} : Reserve(c, op, id)
  PROVE  Told'
<1> USE DEF SocketInv
<1>1. \A id \in Id : Unopened(id)' <=> Unopened(id)
  BY ClientUnopened
<1>2. aborted = "no" /\ UNCHANGED <<taken, aborted>>
  BY ClientFrame
<1>3. \A t \in Slot : Alike(t) \/ (Assign(c) /\ Assigns(c, t))
  BY ClientSlotIs
<1>4. CallsOpen(c) /\ AsksOpen /\ \A i \in Id : told'[i] = "open" <=> told[i] = "open"
  BY ClientCalls
<1>5. \A i \in Id : HASH_ID(i) \in Slot
  BY IdIsNat, HashInSlot
<1>6. ASSUME NEW i \in Id, told[i] = "open", HASH_ID(i) \notin taken
      PROVE  ~Unopened(i) /\ (SameId(slot[HASH_ID(i)], slot'[HASH_ID(i)]) \/ slot'[HASH_ID(i)].id # i)
  <2>1. ~Unopened(i)
    BY <1>2, <1>6 DEF Told
  <2>2. CASE Assign(c) /\ Assigns(c, HASH_ID(i))
    <3>1. ~Opens(c, i)
      BY <2>1 DEF Unopened
    <3> QED BY <2>1, <2>2, <3>1 DEF Assigns, Opens
  <2> QED BY <1>3, <1>5, <2>1, <2>2 DEF Alike
<1>7. ASSUME NEW i \in Id, told[i] = "open", Gone(i)
      PROVE  HASH_ID(i) \notin taken' => slot'[HASH_ID(i)].id # i
  BY <1>2, <1>6, <1>7 DEF Gone, SameId
<1>8. ASSUME NEW i \in Id, told'[i] = "open", HASH_ID(i) \notin taken'
      PROVE  ~Unopened(i)' /\ (slot'[HASH_ID(i)].id = i => slot'[HASH_ID(i)].tcp)
  <2>1. ~Unopened(i) /\ (slot[HASH_ID(i)].id = i => slot[HASH_ID(i)].tcp)
    BY <1>2, <1>4, <1>8 DEF Told
  <2> QED BY <1>1, <1>2, <1>4, <1>6, <1>8, <2>1 DEF SameId
<1>9. \A d \in Client : ToOpen(arg'[d], pc'[d] = "queue")
  <2>1. ASSUME NEW d \in Client
        PROVE  ToOpen(arg[d], pc[d] = "queue")
    <3>1. ASSUME arg[d].op \in SendOp
          PROVE  arg[d].id \in Id
      <4>1. pc[d] # "idle"
        BY <3>1 DEF Calling, NoRequest, Request, SendOp
      <4> QED BY <4>1, CallingIs
    <3> QED BY <1>2, <3>1 DEF ToOpen, Told
  <2>2. CASE UNCHANGED <<pc, arg>>
    BY <2>1, <2>2
  <2>3. ASSUME NEW l, NEW a, Goes(c, l, a), ToOpen(a, l = "queue"), NEW d \in Client
        PROVE  ToOpen(arg'[d], pc'[d] = "queue")
    <3>1. pc'[c] = l /\ arg'[c] = a /\ \A e \in Client \ {c} : pc'[e] = pc[e] /\ arg'[e] = arg[e]
      BY <2>3, GoesOn
    <3>2. CASE d = c
      BY <2>3, <3>1, <3>2
    <3>3. CASE d # c
      BY <2>1, <3>1, <3>3
    <3> QED BY <3>2, <3>3
  <2> QED BY <1>4, <2>2, <2>3 DEF CallsOpen
<1>10. \A i \in 1 .. Len(pipe') : ToOpen(pipe'[i], TRUE)
  <2>1. \A i \in 1 .. Len(pipe) : ToOpen(pipe[i], TRUE)
    <3>1. \A i \in 1 .. Len(pipe) : pipe[i] \in Requests
      BY DEF Types
    <3> QED BY <1>2, <3>1 DEF ToOpen, Told, Requests
  <2>2. CASE UNCHANGED pipe
    BY <2>1, <2>2
  <2>3. ASSUME NEW q \in Requests, SendRequest(q), ToOpen(q, TRUE)
        PROVE  \A i \in 1 .. Len(pipe') : ToOpen(pipe'[i], TRUE)
    <3>1. PICK n \in Nat : /\ n = Len(pipe) /\ Len(pipe') = n + 1 /\ pipe'[n + 1] = q
                           /\ \A i \in 1 .. n : pipe'[i] = pipe[i]
      BY <2>3, SendRequestTyped
    <3>2. \A i \in 1 .. n + 1 : i \in 1 .. n \/ i = n + 1
      OBVIOUS
    <3> QED BY <2>1, <2>3, <3>1, <3>2
  <2> QED BY <1>4, <2>2, <2>3 DEF AsksOpen
<1>11. \A d \in Client : arg'[d].op \in SendOp => told'[arg'[d].id] = "open"
  BY <1>4, <1>9 DEF ToOpen
<1>12. \A i \in 1 .. Len(pipe') : pipe'[i].op \in SendOp => told'[pipe'[i].id] = "open"
  BY <1>4, <1>10 DEF ToOpen
<1>13. ASSUME NEW d \in Client, pc'[d] = "queue", ~arg'[d].counted
       PROVE  Gone(arg[d].id)'
  <2>1. Calling'
    BY ClientTypes
  <2>2. arg'[d].op \in SendOp
    BY <1>13, <2>1 DEF Calling, Sending
  <2>3. PICK i \in Id : i = arg'[d].id /\ told[i] = "open" /\ Gone(i)
    BY <1>9, <1>13, <2>2 DEF ToOpen
  <2>4. HASH_ID(i) \notin taken' => slot'[HASH_ID(i)].id # i
    BY <1>7, <2>3
  <2> QED BY <2>3, <2>4 DEF Gone
<1>14. ASSUME NEW j \in 1 .. Len(pipe'), pipe'[j].op \in SendOp, ~pipe'[j].counted
       PROVE  Gone(pipe[j].id)'
  <2>1. PICK i \in Id : i = pipe'[j].id /\ told[i] = "open" /\ Gone(i)
    BY <1>10, <1>14 DEF ToOpen
  <2>2. HASH_ID(i) \notin taken' => slot'[HASH_ID(i)].id # i
    BY <1>7, <2>1
  <2> QED BY <2>1, <2>2 DEF Gone
<1> QED BY <1>8, <1>11, <1>12, <1>13, <1>14 DEF Told


LEMMA ClientCounts ==
  ASSUME SocketInv, Told, Exact, NEW c \in Client, ClientStep(c),
         ~\E id \in Id, op \in {"O", "L"} : Reserve(c, op, id)
  PROVE  Exact'
<1> USE DEF SocketInv
<1>1. aborted = "no" /\ UNCHANGED <<taken, aborted>>
  BY ClientFrame
<1>2. \A t \in Slot : Alike(t) \/ (Assign(c) /\ Assigns(c, t))
  BY ClientSlotIs
<1>3. ASSUME NEW t \in Slot, slot'[t].tcp
      PROVE  SameId(slot[t], slot'[t]) /\ \E i \in Id : i = slot[t].id /\ i = slot'[t].id /\ t = HASH_ID(i)
  <2>1. SameId(slot[t], slot'[t])
    BY <1>2, <1>3 DEF Alike, Assigns
  <2>2. slot[t].id \in Id \union {0} /\ slot[t].id # 0
    BY <1>3, <2>1, SocketIs DEF Types, Ids, SameId
  <2> QED BY <2>1, <2>2 DEF SameId, Types
<1>4. \A i : UNCHANGED pipe => Counted(i)' = Counted(i)
  BY DEF Counted
<1>5. \A i : UNCHANGED arg => Counting(i)' = Counting(i)
  BY DEF Counting
<1>6. \A i : /\ Cardinality(Counted(i)) \in Nat /\ Cardinality(Counting(i)) \in Nat
  BY CountsAreFinite
<1> DEFINE Same(i) == Cardinality(Counted(i)') + Cardinality(Counting(i)')
                        = Cardinality(Counted(i)) + Cardinality(Counting(i))
<1>7. ASSUME \A i \in Id : Same(i), \A t \in Slot : slot'[t].tcp => slot'[t].sending = slot[t].sending
      PROVE  Exact'
  <2>1. ASSUME NEW t \in Slot \ taken, slot'[t].tcp
        PROVE  slot'[t].sending = (Cardinality(Counted(slot[t].id)) + Cardinality(Counting(slot[t].id)))'
    <3>1. PICK i \in Id : i = slot[t].id /\ i = slot'[t].id
      BY <1>3, <2>1
    <3>2. slot[t].sending = Cardinality(Counted(i)) + Cardinality(Counting(i))
      BY <1>1, <1>3, <2>1, <3>1 DEF Exact, SameId
    <3>3. slot'[t].sending = Cardinality(Counted(i)') + Cardinality(Counting(i)')
      BY <1>7, <2>1, <3>2
    <3> QED BY <3>1, <3>3 DEF Counted, Counting
  <2> QED BY <1>1, <2>1 DEF Exact
<1>8. CASE \E id \in Id, op \in {"K", "shutdown", "R", "S"} : Ask(c, op, id)
  <2>1. PICK id \in Id, op \in {"K", "shutdown", "R", "S"} : Ask(c, op, id)
    BY <1>8
  <2>2. PICK q \in Requests : q = Request(op, id) /\ SendRequest(q)
    BY <2>1, ClientSends
  <2>3. ~q.counted
    BY <2>2 DEF Request
  <2>4. \A i : Cardinality(Counted(i)') = Cardinality(Counted(i))
    BY <2>2, <2>3, AppendCounted
  <2>5. UNCHANGED <<slot, arg>>
    BY <2>1 DEF Ask, socket, client
  <2> QED BY <1>5, <1>7, <2>4, <2>5
<1>9. ASSUME NEW l, NEW a, Goes(c, l, a), ~a.counted, pc[c] # "queue"
      PROVE  \A i : Counting(i)' = Counting(i)
  <2>1. ~arg[c].counted
    BY <1>9 DEF Calling
  <2> QED BY <1>9, <2>1, GoesCounting
<1>10. ~NoRequest.counted /\ \A op, i : ~Request(op, i).counted
  BY DEF NoRequest, Request
<1>11. pc[c] # "queue" => ~arg[c].counted
  BY DEF Calling
<1>12. CASE Assign(c)
  <2>1. Goes(c, "ask", arg[c]) /\ pc[c] = "assign" /\ UNCHANGED pipe
    BY <1>12, ClientGoes DEF Assign
  <2>2. \A t \in Slot : slot'[t].tcp => slot'[t].sending = slot[t].sending
    <3>1. HASH_ID(arg[c].id) \in Slot
      BY CallingIs
    <3>2. ASSUME NEW t \in Slot, slot'[t].tcp
          PROVE  slot'[t].sending = slot[t].sending
      <4>1. PICK r : Puts(HASH_ID(arg[c].id), r) /\ ~r.tcp
        BY <1>12, AssignPuts
      <4>2. t # HASH_ID(arg[c].id)
        BY <3>2, <4>1 DEF Puts, Types
      <4> QED BY <4>1, <4>2 DEF Puts, Types
    <3> QED BY <3>2
  <2> QED BY <1>4, <1>7, <1>9, <1>11, <2>1, <2>2
<1>13. CASE AskOpen(c) \/ Trigger(c)
  <2>1. Goes(c, "idle", NoRequest) /\ pc[c] # "queue" /\ UNCHANGED slot
    BY <1>13, ClientGoes DEF AskOpen, Trigger, socket
  <2>2. PICK q \in Requests : SendRequest(q) /\ (q = arg[c] \/ q = Request("W", arg[c].id))
    BY <1>13, ClientSends
  <2>3. ~q.counted
    BY <1>10, <1>11, <2>1, <2>2
  <2>4. \A i : Cardinality(Counted(i)') = Cardinality(Counted(i))
    BY <2>2, <2>3, AppendCounted
  <2>5. \A i : Counting(i)' = Counting(i)
    BY <1>9, <1>10, <2>1
  <2> QED BY <1>7, <2>1, <2>4, <2>5
<1>14. CASE \/ \E id \in Id : Send(c, id) \/ SendLowpriority(c, id)
            \/ Check(c) \/ Trylock(c) \/ ReadStep(c)
  <2>1. UNCHANGED <<slot, pipe>> /\ pc[c] # "queue"
    BY <1>14, ReadFrame DEF Send, SendLowpriority, Check, Trylock, socket, Holding
  <2>2. \E l, a : Goes(c, l, a) /\ (a = arg[c] \/ \E op, i : a = Request(op, i))
    BY <1>14, ClientGoes
  <2>3. \A i : Counting(i)' = Counting(i)
    BY <1>9, <1>10, <1>11, <2>1, <2>2
  <2> QED BY <1>4, <1>7, <2>1, <2>3
<1>15. CASE DirectWrite(c)
  <2>1. UNCHANGED pipe /\ pc[c] # "queue"
    BY <1>15 DEF DirectWrite
  <2>2. Goes(c, "idle", NoRequest) \/ Goes(c, "trigger", arg[c])
    BY <1>15, ClientGoes
  <2>3. \A i : Counting(i)' = Counting(i)
    BY <1>9, <1>10, <1>11, <2>1, <2>2
  <2>4. PICK r : Puts(HASH_ID(arg[c].id), r) /\ r.sending = Sock(c).sending
    BY <1>15, WritePuts
  <2>5. \A t \in Slot : slot'[t].sending = slot[t].sending
    BY <2>4 DEF Puts, Types, Sock
  <2> QED BY <1>4, <1>7, <2>1, <2>3, <2>5
<1>16. CASE Queue(c)
  <2>1. UNCHANGED slot /\ Goes(c, "idle", NoRequest) /\ arg[c] \in Requests /\ SendRequest(arg[c])
    BY <1>16, ClientGoes, ClientSends DEF Queue, socket
  <2>2. ASSUME NEW i \in Id
        PROVE  Same(i)
    <3>1. PICK n \in Nat, m \in Nat : n = Cardinality(Counted(i)) /\ m = Cardinality(Counting(i))
      BY <1>6
    <3>2. CASE arg[c].counted /\ arg[c].id = i
      <4>1. Cardinality(Counted(i)') = n + 1
        BY <2>1, <3>1, <3>2, AppendCounted
      <4>2. Cardinality(Counting(i)') = m - 1
        BY <1>10, <2>1, <3>1, <3>2, GoesCounting
      <4> QED BY <3>1, <4>1, <4>2
    <3>3. CASE ~(arg[c].counted /\ arg[c].id = i)
      <4>1. Cardinality(Counted(i)') = n
        BY <2>1, <3>1, <3>3, AppendCounted
      <4>2. Counting(i)' = Counting(i)
        BY <1>10, <2>1, <3>3, GoesCounting
      <4> QED BY <3>1, <4>1, <4>2
    <3> QED BY <3>2, <3>3
  <2> QED BY <1>7, <2>1, <2>2
<1>17. CASE IncSendingRef(c)
  <2>1. UNCHANGED pipe /\ pc[c] = "inc" /\ arg[c].id \in Id
    BY <1>17, CallingIs DEF IncSendingRef
  <2>2. PICK b \in BOOLEAN : b = Counts(Sock(c), arg[c].id)
    BY CallingIs, SocketIs DEF Counts
  <2>3. PICK a : a = [arg[c] EXCEPT !.counted = b]
    OBVIOUS
  <2>4. Goes(c, "queue", a)
    BY <1>17, <2>2, <2>3, ClientGoes
  <2>5. a.id = arg[c].id /\ a.counted = b /\ ~arg[c].counted
    BY <1>11, <2>1, <2>3, CallingIs
  <2>6. PICK r : /\ Puts(HASH_ID(arg[c].id), r)
                 /\ r.sending = IF Counts(Sock(c), arg[c].id) THEN Sock(c).sending + 1 ELSE Sock(c).sending
    BY <1>17, IncPuts
  <2>7. \A t \in Slot : slot'[t] = IF t = HASH_ID(arg[c].id) THEN r ELSE slot[t]
    BY <2>6 DEF Puts, Types
  <2>8. CASE ~b
    <3>1. \A i : Counting(i)' = Counting(i)
      BY <2>4, <2>5, <2>8, GoesCounting
    <3>2. \A t \in Slot : slot'[t].sending = slot[t].sending
      BY <2>2, <2>6, <2>7, <2>8 DEF Sock
    <3> QED BY <1>4, <1>7, <2>1, <3>1, <3>2
  <2>9. CASE b
    <3>1. Sock(c).id = arg[c].id
      BY <2>1, <2>2, <2>9, CountedIsItsSocket
    <3>2. ASSUME NEW t \in Slot \ taken, slot'[t].tcp
          PROVE  slot'[t].sending = (Cardinality(Counted(slot[t].id)) + Cardinality(Counting(slot[t].id)))'
      <4>1. PICK i \in Id : i = slot[t].id /\ i = slot'[t].id /\ t = HASH_ID(i)
        BY <1>3, <3>2
      <4>2. PICK n \in Nat, m \in Nat : n = Cardinality(Counted(i)) /\ m = Cardinality(Counting(i))
        BY <1>6
      <4>3. slot[t].sending = n + m
        BY <1>1, <1>3, <3>2, <4>1, <4>2 DEF Exact, SameId
      <4>4. Cardinality(Counted(i)') = n
        BY <1>4, <2>1, <4>2
      <4>5. CASE t = HASH_ID(arg[c].id)
        <5>1. i = arg[c].id
          BY <3>1, <4>1, <4>5 DEF Sock
        <5>2. Cardinality(Counting(i)') = m + 1
          BY <2>4, <2>5, <2>9, <4>2, <5>1, GoesCounting
        <5>3. slot'[t].sending = slot[t].sending + 1
          BY <2>2, <2>6, <2>7, <2>9, <4>5 DEF Sock
        <5>4. slot'[t].sending = Cardinality(Counted(i)') + Cardinality(Counting(i)')
          BY <4>3, <4>4, <5>2, <5>3
        <5> QED BY <4>1, <5>4 DEF Counted, Counting
      <4>6. CASE t # HASH_ID(arg[c].id)
        <5>1. Counting(i)' = Counting(i)
          BY <2>4, <2>5, <4>1, <4>6, GoesCounting
        <5>2. slot'[t].sending = Cardinality(Counted(i)') + Cardinality(Counting(i)')
          BY <2>7, <4>2, <4>3, <4>4, <4>6, <5>1
        <5> QED BY <4>1, <5>2 DEF Counted, Counting
      <4> QED BY <4>5, <4>6
    <3> QED BY <1>1, <3>2 DEF Exact
  <2> QED BY <2>8, <2>9
<1> QED BY <1>8, <1>12, <1>13, <1>14, <1>15, <1>16, <1>17 DEF ClientStep, AskStep, SendStep, ReadStep

-------------------------------------------------------------------------------
CountInv == SocketInv /\ Told /\ Exact /\ CountedIsDiscounted

LEMMA CountStep ==
  ASSUME ~EarlySend, CountInv, [Next]_vars
  PROVE  CountInv'
<1> USE DEF CountInv
<1>1. SocketInv'
  BY SocketStep
<1>2. CASE ThreadStep
  <2>1. PICK s \in Slot, r \in Socket : Moves(s, r) /\ aborted = "no"
    BY <1>2, ThreadMoves DEF Move, SocketInv
  <2>2. aborted' = "no" => Told' /\ Exact'
    BY <2>1, ThreadTells, ThreadCounts
  <2>3. aborted' # "no" => Told' /\ Exact'
    BY DEF Told, Exact
  <2>4. CountedIsDiscounted'
    <3>1. ASSUME taken' = {}, aborted' = "sending"
          PROVE  FALSE
      <4>1. Discounts(s, r) /\ s \notin taken
        BY <2>1, <3>1 DEF Moves
      <4>2. slot[s].id = Head(pipe).id /\ slot[s].tcp /\ slot[s].sending = 0
        BY <3>1, <4>1 DEF Discounts
      <4> QED BY <2>1, <4>1, <4>2, ThreadDiscounts
    <3> QED BY <3>1 DEF CountedIsDiscounted
  <2> QED BY <1>1, <2>2, <2>3, <2>4
<1>3. ASSUME NEW c \in Client, ClientStep(c)
      PROVE  CountInv'
  <2>1. aborted = "no" /\ UNCHANGED <<taken, aborted>>
    BY <1>3, ClientFrame
  <2>2. CountedIsDiscounted'
    BY <2>1 DEF CountedIsDiscounted
  <2>3. CASE \E id \in Id, op \in {"O", "L"} : Reserve(c, op, id)
    BY <1>1, <2>1, <2>2, <2>3, ReserveTells
  <2>4. CASE ~\E id \in Id, op \in {"O", "L"} : Reserve(c, op, id)
    BY <1>1, <1>3, <2>2, <2>4, ClientTells, ClientCounts
  <2> QED BY <2>3, <2>4
<1>4. CASE UNCHANGED vars
  <2>1. UNCHANGED <<alloc_id, slot, lock, pipe, checkctrl, events, force, told, closes, taken, pc, arg, aborted>>
    BY <1>4 DEF vars, socket, poll, client
  <2>2. \A id \in Id : Unopened(id)' <=> Unopened(id)
    BY <2>1, SameUnopened DEF SocketInv
  <2>3. Told'
    BY <2>1, <2>2 DEF Told, Gone
  <2>4. Exact' /\ CountedIsDiscounted'
    BY <2>1 DEF Exact, CountedIsDiscounted, Counted, Counting
  <2> QED BY <1>1, <2>3, <2>4
<1> QED BY <1>2, <1>3, <1>4 DEF Next, ThreadStep

LEMMA CountInvariant ==
  ASSUME ~EarlySend
  PROVE  Spec => []CountInv
<1>1. Init => CountInv
  <2> SUFFICES ASSUME Init
               PROVE  CountInv
    OBVIOUS
  <2>1. SocketInv
    BY SocketInit
  <2>2. /\ pipe = <<>> /\ Len(pipe) = 0 /\ aborted = "no"
        /\ \A s \in Slot : slot[s] = Free
        /\ \A c \in Client : pc[c] = "idle" /\ arg[c] = NoRequest
        /\ \A i \in Id : told[i] = "no"
    BY DEF Init
  <2>3. Told
    BY <2>2 DEF Told, NoRequest, Request, SendOp
  <2>4. Exact /\ CountedIsDiscounted
    BY <2>2 DEF Exact, CountedIsDiscounted, Free
  <2> QED BY <2>1, <2>3, <2>4 DEF CountInv
<1>2. CountInv /\ [Next]_vars => CountInv'
  BY CountStep
<1> QED BY <1>1, <1>2, PTL DEF Spec

(***************************************************************************)
(* The count of sending is exact, if services send only after they have    *)
(* been told that the socket is open: IncSendingRef and DecSendingRef are  *)
(* called as often for each socket of a slot.                              *)
(***************************************************************************)
THEOREM SendingIsExact ==
  ASSUME ~EarlySend
  PROVE  Spec => []SendingExact
<1>1. CountInv => SendingExact
  BY DEF CountInv, SocketInv, Exact, Connected, SendingExact
<1> QED BY <1>1, CountInvariant, PTL

(***************************************************************************)
(* Then the assertion of DecSendingRef does not fail.                      *)
(***************************************************************************)
THEOREM CountsAreDiscounted ==
  ASSUME ~EarlySend
  PROVE  Spec => []CountedIsDiscounted
<1>1. CountInv => CountedIsDiscounted
  BY DEF CountInv
<1> QED BY <1>1, CountInvariant, PTL

===============================================================================
