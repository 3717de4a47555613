------------------------------- MODULE Harbor -------------------------------
(***************************************************************************)
(* The harbor service (service-src/service_harbor.cpp), which carries the  *)
(* messages of this node to and from the other nodes (harbors).            *)
(*                                                                         *)
(* A message to a remote service arrives here addressed by handle or by    *)
(* global name.  It waits in the queue of its name until the name is       *)
(* known, in the queue of its harbor until the connection is usable, and   *)
(* then leaves through send_remote.  In the other direction the bytes of   *)
(* a connection arrive in pieces of any size and are cut into frames.      *)
(*                                                                         *)
(* A service runs one handler at a time, so each handler is one action,    *)
(* except push_socket_data: its loop is one action per iteration, and no   *)
(* other handler runs until `reading` is None again.  Messages are         *)
(* numbered in the order in which the service receives them; a byte of a   *)
(* stream is known by its place in its frame and the frame's length.       *)
(***************************************************************************)
EXTENDS Naturals, FiniteSets, SequencesExt

CONSTANTS
    Remote,         \* ids of the other harbors, below kRemoteMax
    Self,           \* h->id, also the harbor of h->slave
    Handle,         \* handles of services
    HarborOf,       \* handle >> kHandleRemoteShift, a function on Handle
    Name,           \* global names
    None,           \* NULL, and the handle 0
    QueueSize,      \* kDefaultQueueSize
    HeaderSize,     \* bytes of a frame's length field, 4 in the code
    Lengths,        \* lengths of the frames peers send
    MaxFd,          \* bound: connections ever handed to the service
    MaxInput        \* bound: messages, connections and frames together

ASSUME HarborAssumption ==
    /\ Remote \subseteq Nat \ {0}
    /\ Self \in Nat \ (Remote \cup {0})
    /\ HarborOf \in [Handle -> Remote \cup {Self}]
    /\ None \notin Handle \cup Name
    /\ Handle \cap Name = {}
    /\ QueueSize \in Nat \ {0, 1}
    /\ HeaderSize \in Nat \ {0}
    /\ Lengths \subseteq Nat \ {0}
    /\ MaxFd \in Nat /\ MaxInput \in Nat

VARIABLES
    slave,      \* h->s, by harbor id
    names,      \* h->map, by name: value and queue of messages
    reading,    \* the push_socket_data under way: slave and bytes left
    running,    \* FALSE once harbor_release has run
    sent,       \* history: what left, to a connection or to a local service
    answered,   \* history: messages answered with kPtypeError
    dropped,    \* history: messages whose queue was released with them
    asked,      \* history: names for which "Q name" went to h->slave
    downs,      \* history: ids for which "D id" went to h->slave
    torn,       \* history: ids closed with part of a header already read
    next,       \* number of the next message given to the service
    sock,       \* environment: link and undelivered bytes of each fd
    conns,      \* environment: fds handed out so far
    frames      \* environment: frames sent by the peers so far

history == <<sent, answered, dropped, asked, downs, torn>>
env == <<sock, conns, frames>>
vars == <<slave, names, reading, running, history, next, env>>

Id == Remote \cup {Self}
Fd == 1..MaxFd

(***************************************************************************)
(* The circular queue of messages.                                         *)
(***************************************************************************)
new_queue ==
    [size |-> QueueSize, head |-> 0, tail |-> 0,
     data |-> [k \in 0..(QueueSize - 1) |-> None]]

\* Mutant: the storage is not enlarged.
ExpandInPlace(q) ==
    [size |-> 2 * q.size, head |-> 0, tail |-> q.size - 1,
     data |-> [k \in 0..(q.size - 1) |-> q.data[(k + q.head) % q.size]]]

\* The queue with twice the slots: the messages of the full one come first.
Expand(q) ==
    [size |-> 2 * q.size, head |-> 0, tail |-> q.size - 1,
     data |-> [k \in 0..(2 * q.size - 1) |->
                  IF k < q.size - 1 THEN q.data[(k + q.head) % q.size]
                                    ELSE None]]

push_queue_msg(q, m) ==
    LET r == IF (q.tail + 1) % q.size = q.head THEN Expand(q) ELSE q
    IN  [r EXCEPT !.data[r.tail] = m, !.tail = (r.tail + 1) % r.size]

\* What the loops over pop_queue take out of a queue, in order.
Contents(q) ==
    IF q = None THEN <<>>
    ELSE [k \in 1..((q.tail + q.size - q.head) % q.size) |->
             q.data[(q.head + k - 1) % q.size]]

\* A message put into a queue that new_queue makes when there is none.
Queued(q, m) == push_queue_msg(IF q = None THEN new_queue ELSE q, m)

Numbers(q) == {m.n : m \in ToSet(Contents(q))}

(***************************************************************************)
(* Leaving the service.                                                    *)
(***************************************************************************)
\* A message: its number, the destination it was given with, and the handle
\* in header.destination (None: the 24 bits are 0).
Message(to, dest) == [n |-> next, to |-> to, dest |-> dest]

\* send_remote, or ServiceSend to a service of this node (fd 0).
Leaving(m, id, fd) ==
    [n |-> m.n, to |-> m.to, dest |-> m.dest, via |-> id, fd |-> fd]

LeavingAll(ms, id, fd) == [k \in 1..Len(ms) |-> Leaving(ms[k], id, fd)]

\* The own id, the first thing sent to a connection.
handshake(id, fd) == Leaving([n |-> 0, to |-> None, dest |-> None], id, fd)

\* dispatch_queue: the queue of harbor id goes to its connection.
dispatch_queue(id, fd) == LeavingAll(Contents(slave[id].queue), id, fd)

\* dispatch_name_queue of a name that gets the handle `value`.
WithHandle(ms, value) == [k \in 1..Len(ms) |-> [ms[k] EXCEPT !.dest = value]]

\* Mutant: the queue of the name replaces the queue of the harbor.
MergeReplaces(to, from) == from

MergeQueues(to, from) ==
    IF to = None THEN from
    ELSE FoldLeft(push_queue_msg, to, Contents(from))

\* close_harbor on the slave's record; its socket and queue go with it.
close_harbor(s) == [s EXCEPT !.status = "down", !.fd = 0, !.queue = None]

SocketClose(fds) ==
    sock' = [fd \in Fd |-> IF fd \in fds /\ sock[fd].link = "open"
                           THEN [sock[fd] EXCEPT !.link = "ended"]
                           ELSE sock[fd]]

\* Mutant: the search starts at 2.
harbor_id_from_2(fd) ==
    LET ids == {i \in Remote \ {1} : slave[i].fd = fd}
    IN  IF ids = {} THEN 0
        ELSE CHOOSE i \in ids : \A j \in ids : i <= j

\* harbor_id, and the search at the top of push_socket_data: the first slave
\* that holds fd, 0 when none does.
harbor_id(fd) ==
    LET ids == {i \in Remote : slave[i].fd = fd}
    IN  IF ids = {} THEN 0
        ELSE CHOOSE i \in ids : \A j \in ids : i <= j

HarborMessageIsRemote(handle) == HarborOf[handle] # Self

\* A handler may start.
Idle == running /\ reading = None

\* The bound on what the other services and the peers give to this one.
MoreInput == (next - 1) + conns + frames < MaxInput

(***************************************************************************)
(* Messages out (kPtypeSystem).                                            *)
(***************************************************************************)
\* Mutant: a connection that has not shaken hands is used.
SendInHandshake(to, handle) ==
    LET id == HarborOf[handle]
        s  == slave[id]
        m  == Message(to, handle)
    IN  IF s.fd = 0
        THEN /\ slave' = [slave EXCEPT ![id].queue = Queued(@, m)]
             /\ UNCHANGED <<sent, answered>>
        ELSE /\ sent' = Append(sent, Leaving(m, id, s.fd))
             /\ UNCHANGED <<slave, answered>>

remote_send_handle(to, handle) ==
    LET id == HarborOf[handle]
        s  == slave[id]
        m  == Message(to, handle)
    IN  \/ /\ id = Self                              \* local message
           /\ sent' = Append(sent, Leaving(m, Self, 0))
           /\ UNCHANGED <<slave, answered>>
        \/ /\ id # Self
           /\ s.fd = 0 \/ s.status = "handshake"
           /\ s.status = "down"
           /\ answered' = answered \cup {m.n}
           /\ UNCHANGED <<slave, sent>>
        \/ /\ id # Self
           /\ s.fd = 0 \/ s.status = "handshake"
           /\ s.status # "down"
           /\ slave' = [slave EXCEPT ![id].queue = Queued(@, m)]
           /\ UNCHANGED <<sent, answered>>
        \/ /\ id # Self
           /\ ~(s.fd = 0 \/ s.status = "handshake")
           /\ sent' = Append(sent, Leaving(m, id, s.fd))
           /\ UNCHANGED <<slave, answered>>

\* HarborSend gives the service only messages for another harbor's handle.
\* The answer to a frame for an unknown service (forward_local_messsage) is
\* one of these: it goes through HarborSend as well.
SendHandle(handle) ==
    /\ Idle
    /\ MoreInput
    /\ HarborMessageIsRemote(handle)
    /\ remote_send_handle(handle, handle)
    /\ next' = next + 1
    /\ UNCHANGED <<names, reading, running, dropped, asked, downs, torn, env>>

remote_send_name(n) ==
    \/ /\ names[n].value = None
       /\ names' = [names EXCEPT ![n].queue = Queued(@, Message(n, None))]
       /\ asked' = asked \cup {n}
       /\ UNCHANGED <<slave, sent, answered>>
    \/ /\ names[n].value # None
       /\ remote_send_handle(n, names[n].value)
       /\ UNCHANGED <<names, asked>>

SendName(n) ==
    /\ Idle
    /\ MoreInput
    /\ remote_send_name(n)
    /\ next' = next + 1
    /\ UNCHANGED <<reading, running, dropped, downs, torn, env>>

(***************************************************************************)
(* Commands of h->slave (kPtypeHarbor).                                    *)
(***************************************************************************)
\* What becomes of the messages that waited for name n, now known to be
\* `value`: dropped, queued or delivered locally (no connection), or sent on
\* the connection at once, in whatever state it is.
dispatch_name_queue(n, value) ==
    LET id    == HarborOf[value]
        s     == slave[id]
        queue == names[n].queue
        all   == MergeQueues(s.queue, queue)
    IN  \/ /\ s.fd = 0 /\ s.status = "down"
           /\ dropped' = dropped \cup Numbers(queue)
           /\ UNCHANGED <<slave, sent>>
        \/ /\ s.fd = 0 /\ s.status # "down" /\ id # Self
           /\ slave' = [slave EXCEPT ![id].queue = all]
           /\ UNCHANGED <<sent, dropped>>
        \/ /\ s.fd = 0 /\ s.status # "down" /\ id = Self
           /\ slave' = [slave EXCEPT ![id].queue = None]
           /\ sent' = sent \o LeavingAll(WithHandle(Contents(all), value),
                                         Self, 0)
           /\ UNCHANGED dropped
        \/ /\ s.fd # 0
           /\ sent' = sent \o LeavingAll(WithHandle(Contents(queue), value),
                                         id, s.fd)
           /\ UNCHANGED <<slave, dropped>>

\* N name, sent by the service `value` or on its behalf.
update_name(n, value) ==
    /\ Idle
    /\ names' = [names EXCEPT ![n] = [value |-> value, queue |-> None]]
    /\ IF names[n].queue = None
       THEN UNCHANGED <<slave, sent, dropped>>
       ELSE dispatch_name_queue(n, value)
    /\ UNCHANGED <<reading, running, answered, asked, downs, torn, next, env>>

\* The first byte a peer sends to a connection we opened: its id, or another.
IdByte(bad) == [at |-> 0, len |-> 0, bad |-> bad]

\* The connection the command hands over, with what the peer has sent on it.
NewSocket(bytes) ==
    /\ conns < MaxFd /\ MoreInput
    /\ conns' = conns + 1
    /\ sock' = [sock EXCEPT ![conns + 1] = [link |-> "open", wire |-> bytes]]

\* S fd id: we connected; refused when the harbor has a connection.
Connect(id) ==
    /\ Idle
    /\ slave[id].fd = 0
    /\ \E bad \in BOOLEAN : NewSocket(<<IdByte(bad)>>)
    /\ slave' = [slave EXCEPT ![id].fd = conns', ![id].status = "handshake"]
    /\ sent' = Append(sent, handshake(id, conns'))
    /\ UNCHANGED <<names, reading, running, answered, dropped, asked, downs,
                   torn, next, frames>>

\* Mutant: the queue is not dispatched.
AcceptOnly(id) ==
    /\ Idle
    /\ slave[id].fd = 0
    /\ NewSocket(<<>>)
    /\ slave' = [slave EXCEPT ![id].fd = conns', ![id].status = "header"]
    /\ sent' = Append(sent, handshake(id, conns'))
    /\ UNCHANGED <<names, reading, running, answered, dropped, asked, downs,
                   torn, next, frames>>

\* A fd id: the peer connected, and h->slave has already read its id.
Accept(id) ==
    /\ Idle
    /\ slave[id].fd = 0
    /\ NewSocket(<<>>)
    /\ slave' = [slave EXCEPT ![id].fd = conns', ![id].status = "header",
                              ![id].queue = None]
    /\ sent' = Append(sent, handshake(id, conns')) \o dispatch_queue(id, conns')
    /\ UNCHANGED <<names, reading, running, answered, dropped, asked, downs,
                   torn, next, frames>>

(***************************************************************************)
(* Bytes in (kPtypeSocket, kSocketTypeData): push_socket_data.             *)
(***************************************************************************)
\* Every event is keyed by fd; one for an fd no slave holds is ignored.
Data(fd) ==
    /\ Idle
    /\ \E k \in 1..Len(sock[fd].wire) :
          LET bytes == SubSeq(sock[fd].wire, 1, k)
              id    == harbor_id(fd)
          IN  /\ sock' = [sock EXCEPT ![fd].wire = SubSeq(@, k + 1, Len(@))]
              /\ reading' = IF id = 0 THEN None ELSE [id |-> id, buf |-> bytes]
    /\ UNCHANGED <<slave, names, running, history, next, conns, frames>>

\* The loop goes on with what is left of the buffer, or returns.
GoOn(rest) ==
    reading' = IF rest = <<>> THEN None ELSE [reading EXCEPT !.buf = rest]

Skip(k) == SubSeq(reading.buf, k + 1, Len(reading.buf))

\* The error returns of push_socket_data, with what is then in s->size.
CloseAndReturn(id, size) ==
    /\ slave' = [slave EXCEPT ![id] = close_harbor([@ EXCEPT !.size = size])]
    /\ SocketClose({slave[id].fd})
    /\ dropped' = dropped \cup Numbers(slave[id].queue)
    /\ reading' = None

ReadHandshake ==
    /\ reading # None
    /\ slave[reading.id].status = "handshake"
    /\ LET id == reading.id IN
       \/ /\ Head(reading.buf).bad                   \* not the id we expect
          /\ CloseAndReturn(id, slave[id].size)
          /\ UNCHANGED sent
       \/ /\ ~Head(reading.buf).bad
          /\ slave' = [slave EXCEPT ![id].status = "header",
                                    ![id].queue = None]
          /\ sent' = sent \o dispatch_queue(id, slave[id].fd)
          /\ GoOn(Skip(1))
          /\ UNCHANGED <<dropped, sock>>
    /\ UNCHANGED <<names, running, answered, asked, downs, torn, next, conns,
                   frames>>

\* s->size with the bytes of the buffer from s->read on.
Fill(s, buf) ==
    [k \in 1..HeaderSize |->
        IF k > s.read /\ k <= s.read + Len(buf) THEN buf[k - s.read]
                                                ELSE s.size[k]]

\* What the bytes in s->size may say: whether the first one is not 0, and
\* the length.  Bytes that are not one frame's header may say anything.
Decode(size) ==
    IF \A k \in 1..HeaderSize : size[k].at = k /\ size[k].len = size[1].len
    THEN {[bad |-> size[1].bad, len |-> size[1].len]}
    ELSE [bad : BOOLEAN, len : Lengths]

ReadHeader ==
    /\ reading # None
    /\ slave[reading.id].status = "header"
    /\ LET id   == reading.id
           s    == slave[id]
           need == HeaderSize - s.read
           size == Fill(s, reading.buf)
       IN
       \/ /\ Len(reading.buf) < need
          /\ slave' = [slave EXCEPT ![id].size = size,
                                    ![id].read = @ + Len(reading.buf)]
          /\ reading' = None
          /\ UNCHANGED <<dropped, torn, sock>>
       \/ /\ Len(reading.buf) >= need
          /\ \E v \in Decode(size) :
             \/ /\ v.bad                             \* message is too long
                /\ CloseAndReturn(id, size)
                /\ torn' = IF s.read = 0 THEN torn ELSE torn \cup {id}
             \/ /\ ~v.bad
                /\ slave' = [slave EXCEPT ![id].size = size, ![id].read = 0,
                                          ![id].length = v.len,
                                          ![id].status = "content"]
                /\ GoOn(Skip(need))
                /\ UNCHANGED <<dropped, torn, sock>>
    /\ UNCHANGED <<names, running, sent, answered, asked, downs, next, conns,
                   frames>>

\* Mutant: read is not reset at the end of a frame.
ReadContentKeepsRead ==
    /\ reading # None
    /\ slave[reading.id].status = "content"
    /\ LET id   == reading.id
           need == slave[id].length - slave[id].read
       IN  /\ slave' = IF Len(reading.buf) < need
                        THEN [slave EXCEPT ![id].read = @ + Len(reading.buf)]
                        ELSE [slave EXCEPT ![id].length = 0,
                                           ![id].status = "header"]
           /\ GoOn(Skip(need))
    /\ UNCHANGED <<names, running, history, next, env>>

\* The complete frame goes to forward_local_messsage, and from there to the
\* service it names; an answer to its sender comes back as SendHandle.
ReadContent ==
    /\ reading # None
    /\ slave[reading.id].status = "content"
    /\ LET id   == reading.id
           need == slave[id].length - slave[id].read
       IN
       \/ /\ Len(reading.buf) < need
          /\ slave' = [slave EXCEPT ![id].read = @ + Len(reading.buf)]
          /\ reading' = None
       \/ /\ Len(reading.buf) >= need                \* forward_local_messsage
          /\ slave' = [slave EXCEPT ![id].length = 0, ![id].read = 0,
                                    ![id].status = "header"]
          /\ GoOn(Skip(need))
    /\ UNCHANGED <<names, running, history, next, env>>

push_socket_data == ReadHandshake \/ ReadHeader \/ ReadContent

\* "D id" to h->slave.
report_harbor_down(id) == downs' = downs \cup {id}

\* kSocketTypeClose and kSocketTypeError: the slave keeps its fd and status.
\* Bytes of the connection that were not delivered before it are lost.
SocketClosed(fd) ==
    /\ Idle
    /\ sock[fd].link = "ended"
    /\ sock' = [sock EXCEPT ![fd] = [link |-> "closed", wire |-> <<>>]]
    /\ IF harbor_id(fd) = 0 THEN UNCHANGED downs
                            ELSE report_harbor_down(harbor_id(fd))
    /\ UNCHANGED <<slave, names, reading, running, sent, answered, dropped,
                   asked, torn, next, conns, frames>>

\* hash_delete releases the queue of every name.
hash_delete == names' = [n \in Name |-> [names[n] EXCEPT !.queue = None]]

\* close_all_remotes, and hash_delete.
harbor_release ==
    /\ Idle
    /\ running' = FALSE
    /\ slave' = [i \in Id |-> close_harbor(slave[i])]
    /\ SocketClose({slave[i].fd : i \in Id})
    /\ dropped' = dropped
                    \cup (UNION {Numbers(slave[i].queue) : i \in Id})
                    \cup (UNION {Numbers(names[n].queue) : n \in Name})
    /\ hash_delete
    /\ UNCHANGED <<reading, sent, answered, asked, downs, torn, next, conns,
                   frames>>

(***************************************************************************)
(* The peers and the network.  Their steps commute with those of the read  *)
(* loop and are taken between two handlers.                                *)
(***************************************************************************)
Frame(len) ==
    [k \in 1..(HeaderSize + len) |-> [at |-> k, len |-> len, bad |-> FALSE]]

\* The header of a frame of 2^24 bytes or more, which is refused.
LongHeader == [k \in 1..HeaderSize |-> [at |-> k, len |-> 0, bad |-> TRUE]]

PeerSend(fd) ==
    /\ Idle
    /\ sock[fd].link = "open"
    /\ MoreInput
    /\ frames' = frames + 1
    /\ \E bytes \in {Frame(len) : len \in Lengths} \cup {LongHeader} :
          sock' = [sock EXCEPT ![fd].wire = @ \o bytes]
    /\ UNCHANGED <<slave, names, reading, running, history, next, conns>>

PeerClose(fd) ==
    /\ Idle
    /\ sock[fd].link = "open"
    /\ sock' = [sock EXCEPT ![fd].link = "ended"]
    /\ UNCHANGED <<slave, names, reading, running, history, next, conns,
                   frames>>

-----------------------------------------------------------------------------

\* harbor_create and harbor_init with an id other than 0.
Init ==
    /\ slave = [i \in Id |->
                  [fd |-> 0, status |-> "wait", queue |-> None, read |-> 0,
                   length |-> 0, size |-> [k \in 1..HeaderSize |-> None]]]
    /\ names = [n \in Name |-> [value |-> None, queue |-> None]]
    /\ reading = None
    /\ running = TRUE
    /\ sent = <<>> /\ answered = {} /\ dropped = {}
    /\ asked = {} /\ downs = {} /\ torn = {}
    /\ next = 1
    /\ sock = [fd \in Fd |-> [link |-> "closed", wire |-> <<>>]]
    /\ conns = 0 /\ frames = 0

harbor_command ==
    \/ \E n \in Name, value \in Handle : update_name(n, value)
    \/ \E id \in Remote : Connect(id) \/ Accept(id)

\* One message of the service's queue; the types and socket events that are
\* not here change nothing.
mainloop ==
    \/ \E fd \in Fd : Data(fd) \/ SocketClosed(fd)
    \/ harbor_command
    \/ \E handle \in Handle : SendHandle(handle)
    \/ \E n \in Name : SendName(n)

Next ==
    \/ mainloop
    \/ push_socket_data
    \/ harbor_release
    \/ \E fd \in Fd : PeerSend(fd) \/ PeerClose(fd)

\* The workers dispatch what is in the service's queue: a close event that was
\* put there is handled in its turn, and a handler that has started runs to
\* its end.
Fairness ==
    /\ WF_vars(push_socket_data)
    /\ \A fd \in Fd : WF_vars(SocketClosed(fd))

Spec == Init /\ [][Next]_vars /\ Fairness

-----------------------------------------------------------------------------

Messages == [n : Nat, to : Handle \cup Name, dest : Handle \cup {None}]

IsQueue(q) ==
    /\ q.size \in Nat \ {0}
    /\ {q.head, q.tail} \subseteq 0..(q.size - 1)
    /\ q.data \in [0..(q.size - 1) -> Messages \cup {None}]

Byte == [at : Nat, len : Nat, bad : BOOLEAN]

\* NULL is neither the record of a push_socket_data under way nor a queue of
\* any size that a queue can reach.
ASSUME NullAssumption ==
    /\ None \notin [id : Remote, buf : Seq(Byte)]
    /\ \A s \in 1..(QueueSize + 2 * MaxInput + 2) :
          None \notin [size : {s}, head : {0}, tail : 0..(s - 1),
                       data : [0..(s - 1) -> Messages \cup {None}]]

\* The type of the harbor service's state and of the history kept of it.
TypeOK ==
    /\ \A i \in Id :
          /\ slave[i].fd \in 0..MaxFd
          /\ slave[i].status
                \in {"wait", "handshake", "header", "content", "down"}
          /\ slave[i].queue = None \/ IsQueue(slave[i].queue)
          /\ slave[i].read \in Nat
          /\ slave[i].read < HeaderSize \/ slave[i].read < slave[i].length
          /\ slave[i].length \in {0} \cup Lengths
          /\ slave[i].size \in [1..HeaderSize -> Byte \cup {None}]
    /\ \A n \in Name :
          /\ names[n].value \in Handle \cup {None}
          /\ names[n].queue = None \/ IsQueue(names[n].queue)
    /\ reading # None => reading.id \in Remote /\ reading.buf \in Seq(Byte)
    /\ running \in BOOLEAN
    /\ \A k \in 1..Len(sent) : sent[k].via \in Id /\ sent[k].fd \in 0..MaxFd
    /\ answered \cup dropped \subseteq Nat
    /\ asked \subseteq Name /\ downs \subseteq Remote /\ torn \subseteq Remote
    /\ next \in Nat /\ conns \in 0..MaxFd /\ frames \in Nat
    /\ \A fd \in Fd : /\ sock[fd].link \in {"open", "ended", "closed"}
                      /\ sock[fd].wire \in Seq(Byte)

Positions(ms, n) == {k \in DOMAIN ms : ms[k].n = n}

\* Everywhere message n is: in a name's queue, in a harbor's queue, among
\* what left, answered or dropped.
Places(n) ==
    (UNION {{<<"name", x, k>> : k \in Positions(Contents(names[x].queue), n)}
               : x \in Name})
    \cup (UNION {{<<"slave", i, k>> : k \in Positions(Contents(slave[i].queue), n)}
                    : i \in Id})
    \cup {<<"sent", k>> : k \in Positions(sent, n)}
    \cup {<<"answered", k>> : k \in answered \cap {n}}
    \cup {<<"dropped", k>> : k \in dropped \cap {n}}

\* Every message given to the service is in exactly one place: none is lost
\* and none is duplicated when a queue grows, when the queue of a name is
\* merged into the queue of a harbor, or when a queue is flushed or released.
Accounted == \A n \in 1..(next - 1) : Cardinality(Places(n)) = 1

\* Messages with the same destination that leave for the same harbor leave in
\* the order in which they were given, whichever queues they waited in; the
\* handle a message carries is one of that harbor, and the one it was given
\* with if it was given with a handle; and nothing leaves on a connection
\* before the own id.
SentRight ==
    \A k \in DOMAIN sent :
        /\ \A j \in 1..(k - 1) :
              sent[j].to = sent[k].to /\ sent[j].via = sent[k].via
              /\ sent[j].n # 0
                 => sent[j].n < sent[k].n
        /\ sent[k].dest # None => HarborOf[sent[k].dest] = sent[k].via
        /\ sent[k].to \in Handle => sent[k].dest = sent[k].to
        /\ sent[k].fd # 0 =>
              \E j \in 1..k : sent[j].fd = sent[k].fd /\ sent[j].n = 0

\* The bytes of fd that are still to be read, what is in the loop first.
Stream(i) ==
    (IF reading # None /\ reading.id = i THEN reading.buf ELSE <<>>)
        \o sock[slave[i].fd].wire

\* Where a message may wait: in the queue of a name that is unknown and that
\* h->slave was asked for; in the queue of a harbor that has no connection yet;
\* or in the queue of one that shakes hands. Then either bytes are still to be
\* read, the first of which is the id, or the connection has ended, and
\* h->slave was told so ("D id") or the close event that makes it told is on
\* its way. No queue is left behind a usable connection, a dead harbor, this
\* harbor or a known name. It is not said that every message moves on: fd and
\* status stay after a connection that ended in the handshake, and a new one
\* is refused, so that what waits there is reported but waits until the
\* service is released.
NothingStranded ==
    /\ \A n \in Name :
          names[n].queue # None => names[n].value = None /\ n \in asked
    /\ \A i \in Id :
          /\ slave[i].queue # None =>
                /\ i # Self
                /\ \/ slave[i].status = "wait"
                   \/ /\ slave[i].status = "handshake"
                      /\ \/ Stream(i) # <<>>
                         \/ sock[slave[i].fd].link = "ended"
                         \/ i \in downs
          /\ slave[i].fd = 0 <=> slave[i].status \in {"wait", "down"}

\* However a stream is cut into pieces, the reader expects exactly the byte
\* that comes next: the id, byte read + 1 of a header, or byte read + 1 of the
\* content of a frame of the length it holds. The one exception is a harbor
\* that was closed with part of a header read: close_harbor leaves s->read.
InStep ==
    \A i \in Remote \ torn :
        LET s == slave[i]
            b == Stream(i)
        IN  s.fd # 0 =>
              \/ b = <<>> /\ sock[s.fd].link # "open"
              \/ b = <<>> /\ s.status = "header" /\ s.read = 0
              \/ /\ b # <<>>
                 /\ CASE s.status = "handshake" -> Head(b).at = 0
                      [] s.status = "header"    -> Head(b).at = s.read + 1
                      [] s.status = "content"   ->
                            /\ Head(b).at = HeaderSize + s.read + 1
                            /\ Head(b).len = s.length

\* A connection that its peer ended is reported to h->slave ("D id"), unless
\* the service closes it itself or is released first.
DisconnectReported ==
    \A i \in Remote :
        (\E fd \in Fd : slave[i].fd = fd /\ sock[fd].link = "ended")
            ~> (i \in downs \/ slave[i].fd = 0 \/ ~running)

=============================================================================
