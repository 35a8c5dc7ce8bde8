----------------------------- MODULE Connection -----------------------------
(***************************************************************************)
(* One client connection (src/src/connection.cpp): the network thread runs *)
(* its read, write and timeout handlers, the dispatcher sends and closes,  *)
(* and the peer reads, stalls or goes away.  Every handler holds           *)
(* connectionLock, so it is one step; close() takes the connection out of  *)
(* the ConnectionManager before it takes the lock, and closeAll() closes   *)
(* the socket without the lock.                                            *)
(***************************************************************************)
EXTENDS Integers, SequencesExt

CONSTANT MaxSends \* bound on the messages sent over the connection

ASSUME ConnectionAssumption == MaxSends \in Nat

VARIABLES
  registered, \* it is in ConnectionManager::connections
  state,      \* connectionState; NEW before accept(), GONE once destroyed
  socketOpen, \* our end of the socket
  reading,    \* the read that is outstanding
  readDone,   \* it has its data, and its handler is queued
  writing,    \* the messages whose async_write is outstanding
  writeDone,  \* how many writes are complete, with their handlers queued
  queue,      \* messageQueue, of the numbers of the messages
  armed,      \* the timers that run
  due,        \* the timeouts whose handler can no longer be cancelled
  protocol,   \* the protocol object exists
  released,   \* how often Protocol::release was handed to the dispatcher
  closing,    \* the dispatcher is in close() and waits for the lock
  accepted,   \* how many messages send() accepted
  received,   \* how many the peer has received
  peer        \* the peer is there

world == <<received, peer>>
reads == <<reading, readDone>>
writes == <<writing, writeDone, queue, accepted>>
life == <<registered, state, socketOpen, armed, released>>
vars == <<world, reads, writes, life, due, protocol, closing>>

Timer == {"read", "write"}

ConnTypeOK ==
  /\ registered \in BOOLEAN /\ socketOpen \in BOOLEAN
  /\ state \in {"NEW", "OPEN", "CLOSED", "GONE"}
  /\ reading \in {"none", "header", "body"} /\ readDone \in BOOLEAN
  /\ writing \in Seq(1..MaxSends) /\ writeDone \in Nat
  /\ queue \in Seq(1..MaxSends) /\ accepted \in 0..MaxSends
  /\ armed \subseteq Timer /\ due \subseteq Timer
  /\ protocol \in BOOLEAN /\ released \in 0..1 /\ closing \in BOOLEAN
  /\ received \in 0..MaxSends /\ peer \in BOOLEAN

-----------------------------------------------------------------------------
(* Parts of handlers *)

\* The manager and the outstanding operations hold the object; close() does
\* too while it waits.  Others have to get hold of it through a weak pointer.
Held == registered \/ reading # "none" \/ writing # <<>> \/ writeDone > 0

\* Mutant: whatever is queued, the socket is closed.
HastyClosed(force, q, t, later) ==
  /\ registered' = FALSE
  /\ IF state = "OPEN"
       THEN /\ state' = "CLOSED"
            /\ released' = released + (IF protocol' THEN 1 ELSE 0)
            /\ socketOpen' = FALSE
            /\ armed' = later
       ELSE UNCHANGED <<state, released, socketOpen>> /\ armed' = t \cup later

\* close() and closeSocket(), with q in the queue and the timers t running and
\* those of later started afterwards: a connection that is closed already is
\* left as it is.
Closed(force, q, t, later) ==
  /\ registered' = FALSE
  /\ IF state = "OPEN"
       THEN /\ state' = "CLOSED"
            /\ released' = released + (IF protocol' THEN 1 ELSE 0)
            /\ socketOpen' = (socketOpen /\ ~(force \/ q = <<>>))
            /\ armed' = later \cup (IF socketOpen /\ (force \/ q = <<>>) THEN {} ELSE t)
       ELSE UNCHANGED <<state, released, socketOpen>> /\ armed' = t \cup later

Kept(t) == armed' = t /\ UNCHANGED <<registered, state, socketOpen, released>>

\* Mutant: a message is written at once, whatever is being written.
EagerQueued ==
  /\ queue' = Append(queue, accepted + 1)
  /\ accepted' = accepted + 1
  /\ writing' = Append(writing, accepted + 1)
  /\ UNCHANGED writeDone

\* send(): the message is written if none is queued; otherwise the handler of
\* the write that is under way comes to it.
Queued ==
  /\ queue' = Append(queue, accepted + 1)
  /\ accepted' = accepted + 1
  /\ writing' = IF queue = <<>> THEN Append(writing, accepted + 1) ELSE writing
  /\ UNCHANGED writeDone

\* What internalSend arms.
SendTimers(t) == IF queue = <<>> THEN t \cup {"write"} ELSE t

-----------------------------------------------------------------------------
(* The dispatcher *)

\* Protocol::send.
Send ==
  /\ Held /\ state = "OPEN" /\ protocol /\ ~closing
  /\ accepted < MaxSends
  /\ Queued
  /\ Kept(SendTimers(armed))
  /\ UNCHANGED <<reads, world, due, protocol, closing>>

\* Protocol::disconnect, up to connectionLock.
Disconnect ==
  /\ Held /\ protocol /\ ~closing
  /\ registered' = FALSE /\ closing' = TRUE
  /\ UNCHANGED <<world, reads, writes, state, socketOpen, armed, released, due, protocol>>

DisconnectLocked ==
  /\ closing /\ closing' = FALSE
  /\ UNCHANGED protocol
  /\ Closed(FALSE, queue, armed, {})
  /\ UNCHANGED <<world, reads, writes, due>>

\* ConnectionManager::closeAll when the server goes down.
CloseAll ==
  /\ registered /\ ~closing
  /\ registered' = FALSE /\ socketOpen' = FALSE
  /\ UNCHANGED <<world, reads, writes, state, armed, released, due, protocol, closing>>

-----------------------------------------------------------------------------
(* The network thread *)

\* ServicePort::onAccept: the protocol of a single-socket service is there
\* from the start.
Accept(single) ==
  /\ state = "NEW"
  /\ state' = "OPEN" /\ protocol' = single
  /\ socketOpen' \in {TRUE, registered}
  /\ reading' = "header" /\ armed' = armed \cup {"read"}
  /\ UNCHANGED <<world, readDone, writes, registered, released, due, closing>>

\* onAccept of an address that is banned.
Reject ==
  /\ state = "NEW"
  /\ registered' = FALSE /\ state' = "CLOSED"
  /\ UNCHANGED <<world, reads, writes, socketOpen, armed, released, due, protocol, closing>>

Failing == ~socketOpen \/ ~peer

\* parseHeader and parsePacket with an error.
ReadError ==
  /\ reading # "none" /\ ~readDone /\ Failing
  /\ reading' = "none"
  /\ UNCHANGED protocol
  /\ Closed(TRUE, queue, armed \ {"read"}, {})
  /\ UNCHANGED <<world, readDone, writes, due, closing>>

\* A read that is complete is handled.
ReadHandled(part) == reading = part /\ readDone /\ readDone' = FALSE

\* parseHeader: the connection is closed already; or the client sends too
\* fast or announces an impossible size; or its packet is read.
ParseHeader ==
  /\ ReadHandled("header") /\ UNCHANGED protocol
  /\ \/ /\ state # "OPEN"
        /\ reading' = "none" /\ Kept(armed \ {"read"})
     \/ /\ state = "OPEN"
        /\ reading' = "none"
        /\ \E force \in BOOLEAN : Closed(force, queue, armed \ {"read"}, {})
     \/ /\ state = "OPEN"
        /\ reading' = "body" /\ Kept(armed \cup {"read"})
  /\ UNCHANGED <<world, writes, due, closing>>

\* Mutant: the next read is not timed.
UntimedParsePacket ==
  /\ ReadHandled("body")
  /\ IF state = "OPEN" THEN reading' = "header" /\ protocol' = TRUE
                       ELSE reading' = "none" /\ UNCHANGED protocol
  /\ Kept(armed \ {"read"})
  /\ UNCHANGED <<writes, world, due, closing>>

\* Mutant: a packet is worked off whether the connection is open or not.
LateParsePacket ==
  /\ ReadHandled("body")
  /\ reading' = "header" /\ protocol' = TRUE
  /\ Kept(armed \cup {"read"})
  /\ UNCHANGED <<writes, world, due, closing>>

\* parsePacket: the connection is closed already; or no service knows the
\* protocol; or the protocol takes the packet, whereupon it may refuse the
\* client, with a last message or without, and the next read is started all
\* the same.
ParsePacket ==
  /\ ReadHandled("body")
  /\ \/ /\ state # "OPEN"
        /\ reading' = "none" /\ UNCHANGED <<protocol, writes>>
        /\ Kept(armed \ {"read"})
     \/ /\ state = "OPEN" /\ ~protocol
        /\ reading' = "none" /\ UNCHANGED <<protocol, writes>>
        /\ Closed(TRUE, queue, armed \ {"read"}, {})
     \/ /\ state = "OPEN"
        /\ reading' = "header" /\ protocol' = TRUE /\ UNCHANGED writes
        /\ Kept(armed \cup {"read"})
     \/ /\ state = "OPEN" /\ accepted < MaxSends
        /\ reading' = "header" /\ protocol' = TRUE /\ Queued
        /\ Closed(FALSE, queue', SendTimers(armed) \ {"read"}, {"read"})
     \/ /\ state = "OPEN"
        /\ reading' = "header" /\ protocol' = TRUE /\ UNCHANGED writes
        /\ Closed(FALSE, queue, armed \ {"read"}, {"read"})
  /\ UNCHANGED <<world, due, closing>>

\* onWriteOperation with an error, after any of the outstanding writes.
WriteError ==
  /\ Failing
  /\ \E i \in DOMAIN writing : writing' = RemoveAt(writing, i)
  /\ queue' = <<>>
  /\ UNCHANGED protocol
  /\ Closed(TRUE, <<>>, armed \ {"write"}, {})
  /\ UNCHANGED <<world, reads, writeDone, accepted, due, closing>>

\* Mutant: the next write is started before the front of the queue goes.
EarlyNextWrite ==
  /\ writeDone > 0 /\ writeDone' = writeDone - 1
  /\ queue' = Tail(queue)
  /\ writing' = IF queue' = <<>> THEN writing ELSE Append(writing, Head(queue))

\* The front of the queue was written and goes; the next one is written.
NextWrite ==
  /\ writeDone > 0 /\ writeDone' = writeDone - 1
  /\ queue' = Tail(queue)
  /\ writing' = IF queue' = <<>> THEN writing ELSE Append(writing, Head(queue'))

\* Mutant: the socket of a closed connection is left to the destructor.
OpenWritten ==
  /\ NextWrite
  /\ Kept(IF queue' # <<>> THEN armed \cup {"write"} ELSE armed \ {"write"})
  /\ UNCHANGED <<world, reads, accepted, due, protocol, closing>>

\* onWriteOperation: when there is no next message, a connection that is
\* closed loses its socket.
Written ==
  /\ NextWrite
  /\ IF queue' # <<>> \/ state # "CLOSED"
       THEN Kept(IF queue' # <<>> THEN armed \cup {"write"} ELSE armed \ {"write"})
       ELSE /\ socketOpen' = FALSE
            /\ armed' = IF socketOpen THEN {} ELSE armed \ {"write"}
            /\ UNCHANGED <<registered, state, released>>
  /\ UNCHANGED <<world, reads, accepted, due, protocol, closing>>

\* A timer runs out; handleTimeout is queued and no longer cancelled.
Expire(t) ==
  /\ t \in armed
  /\ armed' = armed \ {t} /\ due' = due \cup {t}
  /\ UNCHANGED <<world, reads, writes, registered, state, socketOpen, released, protocol, closing>>

\* handleTimeout, of a connection that still exists.
Timeout(t) ==
  /\ t \in due /\ due' = due \ {t}
  /\ UNCHANGED protocol
  /\ IF Held \/ closing THEN Closed(TRUE, queue, armed, {}) ELSE UNCHANGED life
  /\ UNCHANGED <<world, reads, writes, closing>>

\* ~Connection, when nobody holds the object any more.
Destroy ==
  /\ state \in {"OPEN", "CLOSED"}
  /\ ~Held /\ ~closing
  /\ state' = "GONE" /\ socketOpen' = FALSE /\ armed' = {}
  /\ UNCHANGED <<world, reads, writes, registered, released, due, protocol, closing>>

-----------------------------------------------------------------------------
(* The peer *)

\* It sends what the outstanding read waits for.
PeerSends ==
  /\ peer /\ socketOpen /\ reading # "none" /\ ~readDone
  /\ readDone' = TRUE
  /\ UNCHANGED <<world, reading, writes, life, due, protocol, closing>>

\* It takes a message that is being written: of several at a time, any, since
\* nothing orders them.
PeerTakes ==
  /\ peer /\ socketOpen
  /\ \E i \in DOMAIN writing : received' = writing[i] /\ writing' = RemoveAt(writing, i)
  /\ writeDone' = writeDone + 1
  /\ UNCHANGED <<accepted, peer, reads, queue, life, due, protocol, closing>>

\* It goes away.
PeerGone ==
  /\ peer /\ peer' = FALSE
  /\ UNCHANGED <<received, reads, writes, life, due, protocol, closing>>

-----------------------------------------------------------------------------

Init ==
  /\ registered = TRUE /\ state = "NEW" /\ socketOpen = FALSE
  /\ reading = "none" /\ readDone = FALSE
  /\ writing = <<>> /\ writeDone = 0 /\ queue = <<>> /\ accepted = 0
  /\ armed = {} /\ due = {}
  /\ protocol = FALSE /\ released = 0 /\ closing = FALSE
  /\ received = 0 /\ peer = TRUE

Dispatcher == Send \/ Disconnect \/ DisconnectLocked \/ CloseAll

PeerActs == PeerSends \/ PeerTakes \/ PeerGone

Network ==
  \/ (\E single \in BOOLEAN : Accept(single)) \/ Reject
  \/ ReadError \/ ParseHeader \/ ParsePacket \/ WriteError \/ Written \/ Destroy
  \/ \E t \in Timer : Expire(t) \/ Timeout(t)

Next == Dispatcher \/ PeerActs \/ Network

Spec == Init /\ [][Next]_vars

\* The network thread runs, timers run out, and the dispatcher gets the lock;
\* the peer owes nothing.
FairSpec ==
  /\ Spec
  /\ WF_vars(ReadError \/ ParseHeader \/ ParsePacket)
  /\ WF_vars(WriteError \/ Written)
  /\ WF_vars(Destroy)
  /\ \A t \in Timer : WF_vars(Expire(t)) /\ WF_vars(Timeout(t))
  /\ WF_vars(DisconnectLocked)

-----------------------------------------------------------------------------
(* Properties *)

\* As long as messages are queued exactly one write is under way or waits for
\* its handler, which pops the front of the queue; what is being written is that
\* front.  So writes do not mix on the socket, no handler pops an empty queue or
\* a message that is not written, and none is left waiting.
OneWrite ==
  /\ Len(writing) + writeDone = IF queue = <<>> THEN 0 ELSE 1
  /\ writing # <<>> => Head(writing) = Head(queue)

\* The peer gets the messages in the order of send(), none twice, none left
\* out: what it has not got is queued, unless writing failed.
InOrder ==
  LET first == received + 1 - writeDone IN
    /\ \A k \in 1..Len(queue) : queue[k] = first + k - 1
    /\ peer /\ socketOpen => first + Len(queue) = accepted + 1

\* The game learns of the end of a connection exactly once, and no connection
\* with a protocol disappears without it.
ReleasedOnce ==
  state \in {"CLOSED", "GONE"} => released = (IF protocol THEN 1 ELSE 0)

\* Who closes a connection without force closes it when the peer has all that
\* was sent: the reason for a refusal, or for a kick, arrives.
LastWordsArrive ==
  [][/\ state = "CLOSED" \/ DisconnectLocked
     /\ socketOpen /\ ~socketOpen' /\ peer
     => received' = accepted]_vars

\* A connection on which nothing moves any more is closed by a timeout, when
\* neither the peer nor the game does it.
SilenceEnds == []<><<PeerSends \/ PeerTakes>>_vars \/ []<>(state # "OPEN")

\* A closed connection is deleted if its peer, as long as it is there, takes
\* what is written.
ClosedIsDestroyed == WF_vars(PeerTakes) => (state = "CLOSED" ~> state = "GONE")

\* The socket of a closed connection "will be closed by the destructor or
\* onWriteOperation", whatever the peer does: there is a write timeout.
SocketCloses == state = "CLOSED" ~> ~socketOpen
=============================================================================
