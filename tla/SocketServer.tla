----------------------------- MODULE SocketServer -----------------------------
(***************************************************************************)
(* The TCP side of skynet-src/socket_server.cpp: the slots, the commands   *)
(* that services write into the control pipe, the socket thread that reads *)
(* them and the events of epoll, and the services' threads that write to a *)
(* socket directly.                                                        *)
(*                                                                         *)
(* Payloads are abstracted to their number.  A handler of the socket       *)
(* thread is one step, except that ForceClose waits for the slot's lock,   *)
(* and that ClearClosedEvent looks at the slot again after it.  A client   *)
(* takes a step for each thing that it reads of a slot before it writes.   *)
(*                                                                         *)
(* The handlers store null pointers into SocketMessage::data, a            *)
(* std::string (lines 166, 265 and others), and use pointers that were     *)
(* never initialised (lines 603, 1063): the process may end there.  That   *)
(* cuts a behaviour of the model short, so it adds nothing that a safety   *)
(* property could tell; the model has the other outcome, that the handler  *)
(* does the rest of its work.  SendRequest computes the address of the     *)
(* bytes it writes in units of whole packages (line 1302); the model takes *)
(* the request that the caller has filled in, so what is shown is about    *)
(* the protocol of the requests and not about their encoding.              *)
(***************************************************************************)
EXTENDS Integers, Sequences, FiniteSets

CONSTANTS Client,         \* the threads that call the server
          None,
          MaxSocket,      \* MAX_SOCKET
          MaxId,          \* bound: the ids ever allocated
          MaxPipe,        \* bound: the requests in the pipe
          MaxList,        \* bound: the buffers in a list
          MaxBatch,       \* kMaxEvent
          Calls,          \* the requests that each client makes, and of which ids
          EarlySend       \* may services send before they are told that a socket is open

ASSUME SocketAssumption == /\ None \notin Client
                           /\ IsFiniteSet(Client)
                           /\ MaxSocket \in Nat \ {0}
                           /\ MaxId \in Nat /\ MaxPipe \in Nat /\ MaxList \in Nat /\ MaxBatch \in Nat
                           /\ EarlySend \in BOOLEAN
                           /\ None \notin 0 .. MaxSocket - 1
                           /\ None \notin [slot : 0 .. MaxSocket - 1, id : 0 .. MaxId, closed : BOOLEAN,
                                           clear : BOOLEAN, raise : BOOLEAN]
                           /\ Calls \in [Client -> SUBSET ({"O", "L", "K", "shutdown", "R", "S", "D", "P"}
                                                            \X (1 .. MaxId))]

VARIABLES alloc_id,       \* alloc_id_
          slot,           \* slot_
          lock,           \* the client that holds a slot's dw_lock
          pipe,           \* the requests in the control pipe
          checkctrl,      \* checkctrl_
          events,         \* ev_ from event_index_ on
          force,          \* the ForceClose or ClearClosedEvent under way
          told,           \* what services have been told of an id: nothing, the id, that it is open
          closes,         \* auxiliary: how often kSocketClose was raised for an id
          taken,          \* auxiliary: slots whose reservation their last socket has undone
          pc, arg,        \* of each client: where it is, and the request of its call
          pinned,         \* auxiliary: clients whose socket was open when they got its lock
          stray,          \* auxiliary: slots where a package for an earlier socket was left
          aborted         \* the assertion that has failed

socket == <<slot, lock>>
poll == <<checkctrl, events, force>>
client == <<pc, arg, pinned, stray>>
vars == <<alloc_id, socket, pipe, poll, told, closes, taken, client, aborted>>

Slot == 0 .. MaxSocket - 1
Id == 1 .. MaxId

HASH_ID(id) == id % MaxSocket
ID_TAG16(id) == id \div MaxSocket

\* A request; counted says whether IncSendingRef counted it.
Request(op, id) == [op |-> op, id |-> id, counted |-> FALSE]
NoRequest == Request("none", 0)

\* SocketServer::SocketServer
Free == [type |-> "invalid", id |-> 0, tcp |-> FALSE, tag |-> 0, sending |-> 0,
         closing |-> FALSE, reading |-> FALSE, writing |-> FALSE,
         high |-> 0, low |-> 0, dw |-> FALSE]

Init == /\ alloc_id = 0
        /\ slot = [s \in Slot |-> Free]
        /\ lock = [s \in Slot |-> None]
        /\ pipe = <<>>
        /\ checkctrl = TRUE
        /\ events = <<>>
        /\ force = None
        /\ told = [i \in Id |-> "no"]
        /\ closes = [i \in Id |-> 0]
        /\ taken = {}
        /\ pc = [c \in Client |-> "idle"]
        /\ arg = [c \in Client |-> NoRequest]
        /\ pinned = {} /\ stray = {}
        /\ aborted = "no"

SocketInvalid(k, id) == k.id # id \/ k.type = "invalid"

SendBufferEmpty(k) == k.high = 0 /\ k.low = 0

NomoreSendingData(k) == \/ SendBufferEmpty(k) /\ ~k.dw /\ k.sending = 0
                        \/ k.type = "halfwrite"

HalfcloseRead(k) == k.type = "halfread"

CanDirectWrite(k, id) == k.id = id /\ NomoreSendingData(k) /\ k.type = "connected"

\* The slot's descriptor is known to epoll: EpollEnable succeeds.
Registered(k) == k.type \notin {"invalid", "reserve"}

\* What assert(p) makes of aborted.
Asserted(p, line) == IF p THEN "no" ELSE line

\* kSocketClose is raised for an id; other messages leave no trace here.
RaiseClose(id) == closes' = [closes EXCEPT ![id] = @ + 1]

\* Slot s, reserved for a new socket, gets another type from what is left of its last one.
Overtakes(s, k) == taken' = IF k.type = "reserve" THEN taken \union {s} ELSE taken

-------------------------------------------------------------------------------
(***************************************************************************)
(* Requests.                                                               *)
(***************************************************************************)
SendRequest(r) == /\ Len(pipe) < MaxPipe
                  /\ pipe' = Append(pipe, r)

\* Close, Shutdown, Start and Pause.
Ask(c, op, id) == /\ pc[c] = "idle"
                  /\ <<op, id>> \in Calls[c] /\ told[id] # "no"
                  /\ SendRequest(Request(op, id))
                  /\ UNCHANGED <<alloc_id, socket, poll, told, taken, closes, client, aborted>>

(***************************************************************************)
(* ReserveId: the next id whose slot is free, looking once at every slot.  *)
(***************************************************************************)
CandidateNotOpen(id) == /\ id \in alloc_id + 1 .. alloc_id + MaxSocket   \* mutant: reserved slots are taken
                        /\ ~Registered(slot[HASH_ID(id)])
                        /\ \A j \in alloc_id + 1 .. id - 1 : Registered(slot[HASH_ID(j)])

Candidate(id) == /\ id \in alloc_id + 1 .. alloc_id + MaxSocket
                 /\ slot[HASH_ID(id)].type = "invalid"
                 /\ \A j \in alloc_id + 1 .. id - 1 : slot[HASH_ID(j)].type # "invalid"

(***************************************************************************)
(* Connect and Listen: the slot is reserved, then it gets its id, then the *)
(* request goes out and the id is returned.                                *)
(***************************************************************************)
Reserve(c, op, id) == /\ pc[c] = "idle"
                      /\ <<op, id>> \in Calls[c]
                      /\ Candidate(id)
                      /\ alloc_id' = id
                      /\ slot' = [slot EXCEPT ![HASH_ID(id)].type = "reserve"]
                      /\ pc' = [pc EXCEPT ![c] = "assign"]
                      /\ arg' = [arg EXCEPT ![c] = Request(op, id)]
                      /\ UNCHANGED <<lock, pipe, poll, told, taken, closes, pinned, stray, aborted>>

Assign(c) == /\ pc[c] = "assign"
             /\ slot' = [slot EXCEPT ![HASH_ID(arg[c].id)].id = arg[c].id,
                                     ![HASH_ID(arg[c].id)].tcp = FALSE]
             /\ pc' = [pc EXCEPT ![c] = "ask"]
             /\ UNCHANGED <<alloc_id, lock, pipe, poll, told, taken, closes, arg, pinned, stray, aborted>>

AskOpen(c) == /\ pc[c] = "ask"
              /\ SendRequest(arg[c])
              /\ told' = [told EXCEPT ![arg[c].id] = IF @ = "no" THEN "id" ELSE @]
              /\ pc' = [pc EXCEPT ![c] = "idle"]
              /\ arg' = [arg EXCEPT ![c] = NoRequest]
              /\ UNCHANGED <<alloc_id, socket, poll, taken, closes, pinned, stray, aborted>>

-------------------------------------------------------------------------------
(***************************************************************************)
(* Send.  Sock(c) is the slot of the client's request.                     *)
(***************************************************************************)
Sock(c) == slot[HASH_ID(arg[c].id)]

Goto(c, l) == pc' = [pc EXCEPT ![c] = l]

Return(c) == Goto(c, "idle") /\ arg' = [arg EXCEPT ![c] = NoRequest]

\* Services send to the ids that they have been told are open.
MaySend(c, op, id) == /\ <<op, id>> \in Calls[c]
                      /\ told[id] = "open" \/ (EarlySend /\ told[id] = "id")

Send(c, id) == /\ pc[c] = "idle"
               /\ MaySend(c, "D", id)
               /\ ~SocketInvalid(slot[HASH_ID(id)], id) /\ ~slot[HASH_ID(id)].closing
               /\ Goto(c, "check")
               /\ arg' = [arg EXCEPT ![c] = Request("D", id)]
               /\ UNCHANGED <<alloc_id, socket, pipe, poll, told, taken, closes, pinned, stray, aborted>>

SendLowpriority(c, id) == /\ pc[c] = "idle"
                          /\ MaySend(c, "P", id)
                          /\ ~SocketInvalid(slot[HASH_ID(id)], id)
                          /\ Goto(c, "inc")
                          /\ arg' = [arg EXCEPT ![c] = Request("P", id)]
                          /\ UNCHANGED <<alloc_id, socket, pipe, poll, told, taken, closes, pinned, stray,
                                         aborted>>

\* The first CanDirectWrite, without the lock. It is one step: whatever it finds only decides
\* whether the lock is tried, and with the lock everything is read again.
Check(c) == /\ pc[c] = "check"
            /\ Goto(c, IF CanDirectWrite(Sock(c), arg[c].id) THEN "trylock" ELSE "inc")
            /\ UNCHANGED <<alloc_id, socket, pipe, poll, told, taken, closes, arg, pinned, stray, aborted>>

\* SocketTrylock
Trylock(c) == LET s == HASH_ID(arg[c].id)
              IN  /\ pc[c] = "trylock"
                  /\ \/ /\ lock[s] = None
                        /\ lock' = [lock EXCEPT ![s] = c]
                        /\ pinned' = IF Registered(slot[s]) /\ slot[s].id = arg[c].id
                                       THEN pinned \union {c} ELSE pinned
                        /\ Goto(c, "readid")
                     \/ /\ lock[s] # None
                        /\ Goto(c, "inc")
                        /\ UNCHANGED <<lock, pinned>>
                  /\ UNCHANGED <<alloc_id, slot, pipe, poll, told, taken, closes, arg, stray, aborted>>

(***************************************************************************)
(* The second CanDirectWrite, with the lock, read by read.  What it reads  *)
(* of the slot may change in between: the lock keeps the thread from       *)
(* closing the slot, but neither clients from reserving one that is closed *)
(* already nor the thread from opening it.  (The three pointers that       *)
(* SendBufferEmpty and the test of dw_buffer look at are one read: with    *)
(* the lock held they become non-null one after the other, or null when    *)
(* ForceClose frees the lists.)                                            *)
(***************************************************************************)
Reading(c, l) == /\ pc[c] = l
                 /\ UNCHANGED <<alloc_id, slot, pipe, poll, told, taken, closes, arg, stray, aborted>>

OnTo(c, l) == Goto(c, l) /\ UNCHANGED <<lock, pinned>>

SocketUnlock(c) == /\ lock' = [lock EXCEPT ![HASH_ID(arg[c].id)] = None]
                   /\ pinned' = pinned \ {c}

\* Nothing is written directly: the package is queued.
GiveUp(c) == Goto(c, "inc") /\ SocketUnlock(c)

ReadId(c) == /\ Reading(c, "readid")
             /\ IF Sock(c).id = arg[c].id THEN OnTo(c, "readlists") ELSE GiveUp(c)

\* NomoreSendingData
ReadLists(c) == /\ Reading(c, "readlists")
                /\ OnTo(c, IF SendBufferEmpty(Sock(c)) /\ ~Sock(c).dw THEN "readsending" ELSE "readhalf")

ReadSending(c) == /\ Reading(c, "readsending")
                  /\ OnTo(c, IF Sock(c).sending = 0 THEN "readtype" ELSE "readhalf")

ReadHalf(c) == /\ Reading(c, "readhalf")
               /\ IF Sock(c).type = "halfwrite" THEN OnTo(c, "readtype") ELSE GiveUp(c)

ReadType(c) == /\ Reading(c, "readtype")
               /\ IF Sock(c).type = "connected" THEN OnTo(c, "write") ELSE GiveUp(c)

(***************************************************************************)
(* The direct write: all of the package is written, or what is left goes   *)
(* to dw_buffer and the socket thread is asked to go on.                   *)
(***************************************************************************)
DirectWrite(c) == LET s == HASH_ID(arg[c].id)
                  IN  /\ pc[c] = "write"
                      /\ SocketUnlock(c)
                      /\ \/ Return(c) /\ UNCHANGED <<slot, stray>>
                         \/ /\ slot' = [slot EXCEPT ![s].dw = TRUE]
                            /\ stray' = IF slot[s].id = arg[c].id THEN stray ELSE stray \union {s}
                            /\ Goto(c, "trigger")
                            /\ UNCHANGED arg
                      /\ UNCHANGED <<alloc_id, pipe, poll, told, taken, closes, aborted>>

\* Mutant: the socket thread is not asked.
TriggerForgotten(c) == /\ pc[c] = "trigger"
                       /\ Return(c)
                       /\ UNCHANGED <<alloc_id, socket, pipe, poll, told, taken, closes, pinned, stray, aborted>>

Trigger(c) == /\ pc[c] = "trigger"
              /\ SendRequest(Request("W", arg[c].id))
              /\ Return(c)
              /\ UNCHANGED <<alloc_id, socket, poll, told, taken, closes, pinned, stray, aborted>>

\* Mutant: the tag is not compared.
CountsAnySocket(k, id) == k.tcp

\* Mutant: only a connected socket is counted, not one that is half closed.
CountsConnected(k, id) == k.type = "connected" /\ k.tag = ID_TAG16(id)

\* IncSendingRef counts a request only for the connection it is meant for.
Counts(k, id) == k.tcp /\ k.tag = ID_TAG16(id)

IncSendingRef(c) == LET s == HASH_ID(arg[c].id)
                        counts == Counts(slot[s], arg[c].id)
                    IN  /\ pc[c] = "inc"
                        /\ slot' = [slot EXCEPT ![s].sending = IF counts THEN @ + 1 ELSE @]
                        /\ arg' = [arg EXCEPT ![c].counted = counts]
                        /\ Goto(c, "queue")
                        /\ UNCHANGED <<alloc_id, lock, pipe, poll, told, taken, closes, pinned, stray, aborted>>

Queue(c) == /\ pc[c] = "queue"
            /\ SendRequest(arg[c])
            /\ Return(c)
            /\ UNCHANGED <<alloc_id, socket, poll, told, taken, closes, pinned, stray, aborted>>

-------------------------------------------------------------------------------
(***************************************************************************)
(* ForceClose.  The message gets the id and the lists go; closing the      *)
(* descriptor, and with it the slot, waits for a direct write to end.      *)
(* Then the handler goes on: clear says that ClearClosedEvent follows,     *)
(* raise that kSocketClose does.                                           *)
(***************************************************************************)
Closed(k) == [k EXCEPT !.type = "invalid", !.high = 0, !.low = 0, !.dw = FALSE]

ForceClose(s, clear, raise) ==
  /\ aborted' = Asserted(slot[s].type # "reserve", "reserved")
  /\ slot' = [slot EXCEPT ![s].high = 0, ![s].low = 0]
  /\ force' = [slot |-> s, id |-> slot[s].id, closed |-> FALSE, clear |-> clear, raise |-> raise]

\* The message of a handler that returns: kSocketClose or none.
Returned == /\ IF force.raise THEN RaiseClose(force.id) ELSE UNCHANGED closes
            /\ force' = None

\* Mutant: the descriptor is closed without the lock.
FinishCloseUnlocked == /\ aborted = "no"
                       /\ force # None /\ ~force.closed
                       /\ slot' = [slot EXCEPT ![force.slot] = Closed(@)]
                       /\ \/ force.clear /\ force' = [force EXCEPT !.closed = TRUE] /\ UNCHANGED closes
                          \/ ~force.clear /\ Returned
                       /\ UNCHANGED <<alloc_id, lock, pipe, checkctrl, events, told, taken, client, aborted>>

FinishClose == /\ aborted = "no"
               /\ force # None /\ ~force.closed
               /\ lock[force.slot] = None
               /\ slot' = [slot EXCEPT ![force.slot] = Closed(@)]
               /\ \/ force.clear /\ force' = [force EXCEPT !.closed = TRUE] /\ UNCHANGED closes
                  \/ ~force.clear /\ Returned
               /\ UNCHANGED <<alloc_id, lock, pipe, checkctrl, events, told, taken, client, aborted>>

\* A request that fails on a closed socket: ClearClosedEvent is next.
Failed(id) == force' = [slot |-> HASH_ID(id), id |-> id, closed |-> TRUE, clear |-> TRUE, raise |-> FALSE]

\* The event of this batch whose slot is closed and has the message's id is forgotten; a slot
\* that was reserved in the meantime keeps it.
ClearClosedEvent ==
  LET gone(e) == e.slot = force.slot /\ slot[force.slot].type = "invalid" /\ slot[force.slot].id = force.id
  IN  /\ aborted = "no"
      /\ force # None /\ force.closed
      /\ events' = [e \in DOMAIN events |-> IF gone(events[e]) THEN [events[e] EXCEPT !.slot = None]
                                                                ELSE events[e]]
      /\ Returned
      /\ UNCHANGED <<alloc_id, socket, pipe, checkctrl, told, taken, client, aborted>>

-------------------------------------------------------------------------------
(***************************************************************************)
(* CtrlCmd: the socket thread takes the next request.                      *)
(***************************************************************************)
Take(op) == /\ checkctrl /\ force = None
            /\ pipe # <<>>
            /\ Head(pipe).op = op
            /\ pipe' = Tail(pipe)

Req == Head(pipe).id
Target == slot[HASH_ID(Req)]
SetTarget(k) == slot' = [slot EXCEPT ![HASH_ID(Req)] = k]

\* NewFd (the first is a mutant that stores the tag in place of the id); epoll may refuse the descriptor.
NewFdTagAsId(k, id, type, reading) ==
  [k EXCEPT !.type = type, !.id = ID_TAG16(id), !.tcp = TRUE, !.tag = ID_TAG16(id), !.sending = 0,
            !.closing = FALSE, !.reading = reading, !.writing = FALSE, !.dw = FALSE]

NewFd(k, id, type, reading) ==
  [k EXCEPT !.type = type, !.id = id, !.tcp = TRUE, !.tag = ID_TAG16(id), !.sending = 0,
            !.closing = FALSE, !.reading = reading, !.writing = FALSE, !.dw = FALSE]

NewFdAsserts(k) == Asserted(k.type = "reserve" /\ SendBufferEmpty(k), "newfd")

\* The service is told that a socket is open.
RaiseOpen(id) == told' = [told EXCEPT ![id] = "open"]

\* The addresses fail or epoll refuses; connect succeeds at once; it goes on.
OpenSocket == /\ Take("O")
              /\ \/ /\ SetTarget([Target EXCEPT !.type = "invalid"])
                    /\ Failed(Req)
                    /\ UNCHANGED <<told, aborted>>
                 \/ /\ SetTarget(NewFd(Target, Req, "connected", TRUE))
                    /\ aborted' = NewFdAsserts(Target)
                    /\ RaiseOpen(Req)
                    /\ UNCHANGED force
                 \/ /\ SetTarget([NewFd(Target, Req, "connecting", TRUE) EXCEPT !.writing = TRUE])
                    /\ aborted' = NewFdAsserts(Target)
                    /\ UNCHANGED <<told, force>>
              /\ UNCHANGED <<alloc_id, lock, checkctrl, events, taken, closes, client>>

ListenSocket == /\ Take("L")
                /\ \/ /\ SetTarget([Target EXCEPT !.type = "invalid"])
                      /\ Failed(Req)
                      /\ UNCHANGED <<told, aborted>>
                   \/ /\ SetTarget(NewFd(Target, Req, "plisten", FALSE))
                      /\ aborted' = NewFdAsserts(Target)
                      /\ RaiseOpen(Req) \/ UNCHANGED told
                      /\ UNCHANGED force
                /\ UNCHANGED <<alloc_id, lock, checkctrl, events, taken, closes, client>>

Resumed(type) == CASE type = "paccept" -> "connected"
                   [] type = "plisten" -> "listen"
                   [] OTHER -> type

\* EnableRead fails on a descriptor that epoll does not know.
Resumes(k, id) == /\ ~SocketInvalid(k, id) /\ ~HalfcloseRead(k)
                  /\ Registered(k) \/ k.reading

ResumeSocket == /\ Take("R")
                /\ IF SocketInvalid(Target, Req) \/ HalfcloseRead(Target)
                     THEN UNCHANGED slot
                     ELSE SetTarget([Target EXCEPT
                            !.reading = TRUE,
                            !.type = IF Resumes(Target, Req) THEN Resumed(@) ELSE @])
                /\ IF Resumes(Target, Req) /\ Resumed(Target.type) \in {"connected", "listen"}
                     THEN RaiseOpen(Req)
                     ELSE UNCHANGED told
                /\ IF SocketInvalid(Target, Req) THEN Failed(Req) ELSE UNCHANGED force
                /\ UNCHANGED <<alloc_id, lock, checkctrl, events, taken, closes, client, aborted>>

PauseSocket == /\ Take("S")
               /\ IF SocketInvalid(Target, Req)
                    THEN UNCHANGED slot
                    ELSE SetTarget([Target EXCEPT !.reading = FALSE])
               /\ UNCHANGED <<alloc_id, lock, poll, told, taken, closes, client, aborted>>

TriggerWrite == /\ Take("W")
                /\ IF SocketInvalid(Target, Req)
                     THEN UNCHANGED slot
                     ELSE SetTarget([Target EXCEPT !.writing = TRUE])
                /\ UNCHANGED <<alloc_id, lock, poll, told, taken, closes, client, aborted>>

(***************************************************************************)
(* SendSocket and DecSendingRef: the package is dropped or appended; the   *)
(* first one of an empty socket goes to the high list and turns the event  *)
(* of writing on.                                                          *)
(***************************************************************************)
Drops(k, id) == \/ SocketInvalid(k, id)
                \/ k.type \in {"halfwrite", "paccept", "plisten", "listen"}
                \/ k.closing

Appended(k, op) ==
  IF SendBufferEmpty(k) THEN [k EXCEPT !.high = 1, !.writing = TRUE]
  ELSE IF op = "P" THEN [k EXCEPT !.low = @ + 1]
  ELSE [k EXCEPT !.high = @ + 1]

SendSocket(op) ==
  LET k == IF Drops(Target, Req) THEN Target ELSE Appended(Target, op)
      dec == k.id = Req /\ k.tcp
  IN  /\ Take(op)
      /\ k.high <= MaxList /\ k.low <= MaxList
      /\ aborted' = Asserted(dec => k.sending # 0, "sending")
      /\ SetTarget(IF dec /\ k.sending # 0 THEN [k EXCEPT !.sending = @ - 1] ELSE k)
      /\ UNCHANGED <<alloc_id, lock, poll, told, taken, closes, client>>

(***************************************************************************)
(* CloseSocket, for Close ("K") and Shutdown.                        *)
(***************************************************************************)
CloseNow(op) == /\ Take(op)
                /\ ~SocketInvalid(Target, Req)
                /\ op = "shutdown" \/ NomoreSendingData(Target)
                /\ ForceClose(HASH_ID(Req), ~HalfcloseRead(Target), ~HalfcloseRead(Target))
                /\ UNCHANGED <<alloc_id, lock, checkctrl, events, told, taken, closes, client>>

\* CloseRead
ReadClosed(k) == [k EXCEPT !.type = "halfread", !.reading = FALSE]

CloseLater(op) == /\ Take(op)
                  /\ op = "K" /\ ~NomoreSendingData(Target)
                  /\ ~SocketInvalid(Target, Req)
                  /\ SetTarget([(IF HalfcloseRead(Target) THEN Target ELSE ReadClosed(Target))
                                  EXCEPT !.closing = TRUE])
                  /\ IF HalfcloseRead(Target) THEN UNCHANGED closes ELSE RaiseClose(Req)
                  /\ Overtakes(HASH_ID(Req), Target)
                  /\ UNCHANGED <<alloc_id, lock, poll, told, client, aborted>>

CloseIgnored(op) == /\ Take(op)
                    /\ SocketInvalid(Target, Req)
                    /\ UNCHANGED <<alloc_id, socket, poll, told, taken, closes, client, aborted>>

CtrlCmd == /\ aborted = "no"
           /\ \/ OpenSocket \/ ListenSocket \/ ResumeSocket \/ PauseSocket \/ TriggerWrite
              \/ \E op \in {"D", "P"} : SendSocket(op)
              \/ \E op \in {"K", "shutdown"} : CloseNow(op) \/ CloseLater(op) \/ CloseIgnored(op)

-------------------------------------------------------------------------------
(***************************************************************************)
(* Poll's events.  Of an event's flags the model keeps the one that Poll   *)
(* looks at first, and that of writing with that of reading.  The handlers *)
(* take the event and the rest of its batch.                               *)
(***************************************************************************)
Kind == {"read", "readwrite", "write", "error", "eof"}

\* A socket of this slot is about to be opened.
Opening(s) == \/ \E c \in Client : pc[c] \in {"assign", "ask"} /\ HASH_ID(arg[c].id) = s
              \/ \E r \in 1 .. Len(pipe) : pipe[r].op \in {"O", "L"} /\ HASH_ID(pipe[r].id) = s

\* Epoll reports what was asked for, errors and the end always.
Event(s) == {[slot |-> s, kind |-> kind] :
               kind \in {x \in Kind : /\ x \in {"read", "readwrite"} => slot[s].reading
                                     /\ x \in {"write", "readwrite"} => slot[s].writing}}

\* Until it is opened a slot has no descriptor that epoll knows, not even when a late request
\* for the slot's last socket, taken before the new id was stored, has changed its type.
Batch == LET ready == UNION {Event(s) : s \in {t \in Slot : Registered(slot[t]) /\ ~Opening(t)}}
         IN  {b \in UNION {[1 .. n -> ready] : n \in 0 .. MaxBatch} :
                \A i, j \in DOMAIN b : b[i].slot = b[j].slot => i = j}

\* After a read that was not the end of the socket, writing is next if it was reported.
AfterRead(e, rest) == events' = IF e.kind = "readwrite"
                                  THEN <<[e EXCEPT !.kind = "write"]>> \o rest
                                  ELSE rest

\* A cleared event, and one of a socket that has been closed.
NoSocket(e, rest) ==
  /\ e.slot # None => slot[e.slot].type = "invalid"
  /\ events' = rest
  /\ UNCHANGED <<alloc_id, socket, pipe, force, told, taken, closes, client, aborted>>

ReportConnect(e, rest) ==
  /\ e.slot # None
  /\ slot[e.slot].type = "connecting"
  /\ events' = rest
  /\ \/ /\ ForceClose(e.slot, FALSE, FALSE)
        /\ UNCHANGED told
     \/ /\ slot' = [slot EXCEPT ![e.slot].type = "connected",
                                ![e.slot].writing = @ /\ ~NomoreSendingData(slot[e.slot])]
        /\ RaiseOpen(slot[e.slot].id)
        /\ UNCHANGED <<force, aborted>>
  /\ UNCHANGED <<alloc_id, lock, pipe, taken, closes, client>>

(***************************************************************************)
(* ReportAccept: there is no connection, epoll refuses it, or the new      *)
(* socket waits for its Start.                                             *)
(***************************************************************************)
ReportAccept(e, rest) ==
  /\ e.slot # None
  /\ slot[e.slot].type = "listen"
  /\ events' = rest
  /\ \/ UNCHANGED <<alloc_id, slot, told, aborted>>
     \/ \E id \in Id :
          /\ Candidate(id)
          /\ alloc_id' = id
          /\ \/ /\ slot' = [slot EXCEPT ![HASH_ID(id)].id = id, ![HASH_ID(id)].tcp = FALSE]
                /\ UNCHANGED <<told, aborted>>
             \/ /\ slot' = [slot EXCEPT ![HASH_ID(id)] = NewFd(@, id, "paccept", FALSE)]
                /\ aborted' = Asserted(SendBufferEmpty(slot[HASH_ID(id)]), "newfd")
                /\ told' = [told EXCEPT ![id] = "id"]
  /\ UNCHANGED <<lock, pipe, force, taken, closes, client>>

\* The sockets that read, write and end: the default case of the switch.
AtSocket(e) ==
  /\ e.slot # None
  /\ slot[e.slot].type \notin {"invalid", "connecting", "listen"}

(***************************************************************************)
(* ForwardMessageTCP.  Reading fails, must be tried again, or yields data  *)
(* (a full buffer keeps the event) or the end of the stream.               *)
(***************************************************************************)
Reads(e) ==
  /\ AtSocket(e)
  /\ e.kind \in {"read", "readwrite"}
  /\ slot[e.slot].tcp

ReadData(e, rest) ==
  /\ Reads(e)
  /\ \/ AfterRead(e, rest)
     \/ events' = rest
     \/ ~HalfcloseRead(slot[e.slot]) /\ events' = <<e>> \o rest
  /\ UNCHANGED <<alloc_id, socket, pipe, force, told, taken, closes, client, aborted>>

ReadEnd(e, rest) ==
  LET k == slot[e.slot]
  IN  /\ Reads(e) /\ Registered(k)
      /\ \/ /\ k.closing /\ NomoreSendingData(k)
            /\ ForceClose(e.slot, FALSE, FALSE)
            /\ AfterRead(e, rest)
            /\ UNCHANGED closes
         \/ /\ \/ k.closing /\ ~NomoreSendingData(k)
               \/ ~k.closing /\ HalfcloseRead(k)
            /\ AfterRead(e, rest)
            /\ UNCHANGED <<slot, force, closes, aborted>>
         \/ /\ ~k.closing /\ k.type = "halfwrite"
            /\ ForceClose(e.slot, FALSE, TRUE)
            /\ events' = rest
            /\ UNCHANGED closes
         \/ /\ ~k.closing /\ k.type \notin {"halfread", "halfwrite"}
            /\ slot' = [slot EXCEPT ![e.slot] = ReadClosed(@)]
            /\ RaiseClose(k.id)
            /\ events' = rest
            /\ UNCHANGED <<force, aborted>>
      /\ UNCHANGED <<alloc_id, lock, pipe, told, taken, client>>

\* ForwardMessageUDP, which a reserved slot is taken for: its descriptor is -1.
ReadReserved(e, rest) ==
  /\ AtSocket(e)
  /\ e.kind \in {"read", "readwrite"}
  /\ ~slot[e.slot].tcp
  /\ ForceClose(e.slot, FALSE, FALSE)
  /\ events' = rest
  /\ UNCHANGED <<alloc_id, lock, pipe, told, taken, closes, client>>

(***************************************************************************)
(* SendBuffer.  The event is left alone while a client holds the lock.     *)
(* What a direct write has left goes to the front of the high list.        *)
(* ListUncomplete compares the address of a std::string with that of its   *)
(* characters, so it holds of every list that is not empty.                *)
(***************************************************************************)
Writes(e) == AtSocket(e) /\ e.kind = "write"

WithDirect(k) == [k EXCEPT !.high = IF k.dw THEN @ + 1 ELSE @, !.dw = FALSE]

ListUncomplete(list) == list > 0

SendBlocked(e, rest) ==
  /\ Writes(e)
  /\ lock[e.slot] # None
  /\ events' = rest
  /\ UNCHANGED <<alloc_id, socket, pipe, force, told, taken, closes, client, aborted>>

SendUncomplete(e, rest) ==
  /\ Writes(e)
  /\ lock[e.slot] = None
  /\ ListUncomplete(slot[e.slot].low)
  /\ aborted' = "uncomplete"
  /\ events' = rest
  /\ UNCHANGED <<alloc_id, socket, pipe, force, told, taken, closes, client>>

\* SendBuffer_: the lists become empty, something is left, or writing fails.
Sent(k) == {n \in 0 .. k.high : n < k.high}

SendBuffer(s, k) ==
  \/ /\ slot' = [slot EXCEPT ![s] = IF k.closing THEN Closed(k)
                                     ELSE [k EXCEPT !.high = 0, !.writing = FALSE]]
     /\ aborted' = Asserted(k.closing => k.type # "reserve", "reserved")
     /\ UNCHANGED taken
  \/ \E n \in Sent(k) :
       /\ slot' = [slot EXCEPT ![s].high = k.high - n, ![s].dw = FALSE]
       /\ UNCHANGED <<taken, aborted>>

\* CloseWrite: the socket thread has the lock already.
CloseWrite(s, k) ==
  \E n \in Sent(k) :
    LET left == [k EXCEPT !.high = @ - n]
    IN  /\ slot' = [slot EXCEPT ![s] =
                      IF k.closing \/ HalfcloseRead(k) THEN Closed(k)
                      ELSE IF k.type = "halfwrite" THEN left
                      ELSE [left EXCEPT !.type = "halfwrite", !.writing = FALSE]]
        /\ Overtakes(s, k)
        /\ aborted' = Asserted(k.closing => k.type # "reserve", "reserved")

SendEvent(e, rest) ==
  /\ Writes(e)
  /\ lock[e.slot] = None
  /\ ~ListUncomplete(slot[e.slot].low)
  /\ SendBuffer(e.slot, WithDirect(slot[e.slot])) \/ CloseWrite(e.slot, WithDirect(slot[e.slot]))
  /\ events' = rest
  /\ UNCHANGED <<alloc_id, lock, pipe, force, told, closes, client>>

\* An error is reported, and nothing else.
ErrorEvent(e, rest) ==
  /\ AtSocket(e)
  /\ e.kind = "error"
  /\ events' = rest
  /\ UNCHANGED <<alloc_id, socket, pipe, force, told, taken, closes, client, aborted>>

EofEvent(e, rest) ==
  /\ AtSocket(e)
  /\ e.kind = "eof"
  /\ ForceClose(e.slot, FALSE, ~HalfcloseRead(slot[e.slot]))
  /\ events' = rest
  /\ UNCHANGED <<alloc_id, lock, pipe, told, taken, closes, client>>

Handle(e, rest) == \/ NoSocket(e, rest) \/ ReportConnect(e, rest) \/ ReportAccept(e, rest)
                   \/ ReadData(e, rest) \/ ReadEnd(e, rest) \/ ReadReserved(e, rest)
                   \/ SendBlocked(e, rest) \/ SendUncomplete(e, rest) \/ SendEvent(e, rest)
                   \/ ErrorEvent(e, rest) \/ EofEvent(e, rest)

(***************************************************************************)
(* Poll.  Events are next when checkctrl_ is off or HasCmd finds no        *)
(* request and turns it off.  When they are used up epoll is asked again   *)
(* and the first event is handled at once; it may be that of the pipe.     *)
(***************************************************************************)
AtEvents == /\ aborted = "no"
            /\ force = None
            /\ ~checkctrl \/ pipe = <<>>

NextEvent == /\ AtEvents
             /\ events # <<>>
             /\ checkctrl' = FALSE
             /\ Handle(Head(events), Tail(events))

EpollWait == /\ AtEvents
             /\ events = <<>>
             /\ checkctrl' = TRUE
             /\ \E batch \in Batch :
                  \/ /\ batch # <<>>
                     /\ Handle(Head(batch), Tail(batch))
                  \/ /\ pipe # <<>>
                     /\ events' = batch
                     /\ UNCHANGED <<alloc_id, socket, pipe, force, told, taken, closes, client, aborted>>

-------------------------------------------------------------------------------
AskStep(c) == \/ \E id \in Id, op \in {"K", "shutdown", "R", "S"} : Ask(c, op, id)
              \/ \E id \in Id, op \in {"O", "L"} : Reserve(c, op, id)
              \/ Assign(c) \/ AskOpen(c)

SendStep(c) == \/ \E id \in Id : Send(c, id) \/ SendLowpriority(c, id)
               \/ Check(c) \/ Trylock(c)
               \/ ReadId(c) \/ ReadLists(c) \/ ReadSending(c) \/ ReadHalf(c) \/ ReadType(c)
               \/ DirectWrite(c) \/ Trigger(c) \/ IncSendingRef(c) \/ Queue(c)

ClientStep(c) == aborted = "no" /\ (AskStep(c) \/ SendStep(c))

Next == \/ \E c \in Client : ClientStep(c)
        \/ CtrlCmd \/ FinishClose \/ ClearClosedEvent \/ NextEvent \/ EpollWait

Spec == Init /\ [][Next]_vars

-------------------------------------------------------------------------------
Op == {"K", "shutdown", "R", "S", "O", "L", "W", "D", "P"}
Type == {"invalid", "reserve", "plisten", "listen", "connecting", "connected",
         "halfread", "halfwrite", "paccept"}
Look == {"readid", "readlists", "readsending", "readhalf", "readtype"}
Label == {"idle", "assign", "ask", "check", "trylock", "write", "trigger", "inc", "queue"} \union Look

\* Every variable has its type; an id of a socket is the id of its slot.
TypeOK ==
  /\ alloc_id \in 0 .. MaxId
  /\ \A s \in Slot :
       /\ slot[s] \in [type : Type, id : Id \union {0}, tcp : BOOLEAN, tag : Nat, sending : Nat,
                       closing : BOOLEAN, reading : BOOLEAN, writing : BOOLEAN,
                       high : Nat, low : Nat, dw : BOOLEAN]
       /\ slot[s].id # 0 => HASH_ID(slot[s].id) = s
  /\ lock \in [Slot -> Client \union {None}]
  /\ Len(pipe) <= MaxPipe
  /\ \A r \in 1 .. Len(pipe) : pipe[r] \in [op : Op, id : Id, counted : BOOLEAN]
  /\ checkctrl \in BOOLEAN
  /\ \A e \in 1 .. Len(events) : events[e] \in [slot : Slot \union {None}, kind : Kind]
  /\ force = None \/ force \in [slot : Slot, id : 0 .. MaxId, closed : BOOLEAN, clear : BOOLEAN,
                              raise : BOOLEAN]
  /\ told \in [Id -> {"no", "id", "open"}]
  /\ closes \in [Id -> Nat]
  /\ taken \subseteq Slot
  /\ pc \in [Client -> Label]
  /\ arg \in [Client -> [op : Op \union {"none"}, id : Id \union {0}, counted : BOOLEAN]]
  /\ pinned \subseteq Client /\ stray \subseteq Slot
  /\ aborted \in {"no", "reserved", "newfd", "sending", "uncomplete"}

\* The comment above CloseSocket: "kSocketClose can be raised (only once)", whether the
\* service closes the socket, its peer does or both, before or after what is left is sent.
CloseOnce == \A id \in Id : closes[id] <= 1

(***************************************************************************)
(* The properties below leave out the slots of taken.  ReserveId changes   *)
(* the type of a slot first and its id later (lines 97 and 98), and what   *)
(* the socket thread does for the slot's last socket in between may change *)
(* the type again.  A slot that is reserved and no longer marked so may be *)
(* closed and reserved by another client, and then it has two sockets.     *)
(***************************************************************************)

\* An id that is reserved and not opened yet: a client has it, or a request waits.
OpenOp == {"O", "L"}
Opens(c, id) == pc[c] \in {"assign", "ask"} /\ arg[c].id = id
Awaits(r, id) == pipe[r].op \in OpenOp /\ pipe[r].id = id
Unopened(id) == \/ \E c \in Client : Opens(c, id)
                \/ \E r \in 1 .. Len(pipe) : Awaits(r, id)

\* From ReserveId until the thread takes the request to open it, a slot is reserved for one id:
\* no other thread that calls Connect or Listen, and no connection that is accepted meanwhile,
\* gets the same slot, whatever is still done for the slot's last socket.
ReservedForOne == \A i, j \in Id :
                    /\ aborted = "no" /\ HASH_ID(i) \notin taken
                    /\ HASH_ID(i) = HASH_ID(j) /\ Unopened(i) /\ Unopened(j)
                    => i = j /\ slot[HASH_ID(i)].type = "reserve"

\* The requests to send to an id that are on their way with a count in sending.
Counted(id) == {r \in 1 .. Len(pipe) : pipe[r].counted /\ pipe[r].id = id}
Counting(id) == {c \in Client : arg[c].counted /\ arg[c].id = id}

\* As long as a slot is open, its count of sending is that of the packages on their way to the
\* socket thread: requests of the slot's earlier sockets are neither counted nor discounted.
\* (A direct write may still overtake a package: CanDirectWrite reads the lists before the count,
\* and the thread moves a package from the one to the other in between.)
SendingExact == \A s \in Slot \ taken :
                  Registered(slot[s]) /\ ~Opening(s) /\ aborted = "no" =>
                    slot[s].sending = Cardinality(Counted(slot[s].id)) + Cardinality(Counting(slot[s].id))

\* The assertion of DecSendingRef: whatever happens to the socket between the count and the
\* package's turn, closing and another use of its slot included, its count is still there.
\* (It fails for services that do not wait until they are told: EarlySend.)
CountedIsDiscounted == taken = {} => aborted # "sending"

\* What waits in a socket's lists, or was left by a direct write, is not forgotten: epoll is
\* asked for the event of writing, or a client has asked or is about to ask the thread for it.
\* (Slots where a client left a package for an earlier socket are not meant: it asks for the
\* event of writing under the id of that one, and the thread does not listen.)
Woken(id) == \/ \E r \in 1 .. Len(pipe) : pipe[r].op = "W" /\ pipe[r].id = id
             \/ \E c \in Client : pc[c] = "trigger" /\ arg[c].id = id

NoLostWrite == \A s \in Slot \ (taken \union stray) :
                 LET k == slot[s]
                 IN  /\ aborted = "no"
                     /\ Registered(k) /\ k.type # "halfwrite"
                     /\ k.high > 0 \/ k.low > 0 \/ k.dw
                     /\ force = None \/ force.closed \/ force.slot # s
                     => k.writing \/ Woken(k.id)

\* While a client writes to a descriptor directly it has the slot's lock and the slot is open:
\* the thread may decide to close it, but does not before the write ends. And if the socket
\* was open when the client got the lock, the write goes to that socket. If it was not, it
\* may go to another one: the slot may be reserved and opened again between two reads of
\* CanDirectWrite, since neither ReserveId nor NewFd takes the lock.
WritesToItsSocket == \A c \in Client :
                       pc[c] = "write" /\ HASH_ID(arg[c].id) \notin taken /\ aborted = "no" =>
                         /\ lock[HASH_ID(arg[c].id)] = c
                         /\ Registered(Sock(c))
                         /\ c \in pinned => Sock(c).id = arg[c].id

===============================================================================
