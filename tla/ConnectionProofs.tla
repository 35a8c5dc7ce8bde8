-------------------------- MODULE ConnectionProofs --------------------------
(***************************************************************************)
(* Connection.tla for any number of messages: the game learns of the end   *)
(* of a connection exactly once, one message is written at a time, in      *)
(* order, and a connection that is closed closes after the last of them.   *)
(***************************************************************************)
EXTENDS Connection, SequenceTheorems, TLAPS

\* An open connection always has a read outstanding, so it is not destroyed
\* before close() has seen it; and only an open one gets a protocol.
ReleaseInv ==
  /\ state \in {"NEW", "OPEN", "CLOSED", "GONE"} /\ protocol \in BOOLEAN
  /\ state = "NEW" => ~protocol
  /\ state = "OPEN" => reading # "none"
  /\ released = IF protocol /\ state \in {"CLOSED", "GONE"} THEN 1 ELSE 0

\* What close() does to the connection, whatever it is called with.
LEMMA ClosedFacts ==
  ASSUME NEW force, NEW q, NEW t, NEW later, Closed(force, q, t, later)
  PROVE  /\ IF state = "OPEN"
              THEN state' = "CLOSED" /\ released' = released + (IF protocol' THEN 1 ELSE 0)
              ELSE UNCHANGED <<state, released>>
         /\ (socketOpen' => socketOpen)
BY DEF Closed

\* Every step keeps it.
LEMMA ReleaseStep == ReleaseInv /\ [Next]_vars => ReleaseInv'
<1> SUFFICES ASSUME ReleaseInv, [Next]_vars PROVE ReleaseInv'
  OBVIOUS
<1> USE DEF Kept, life, reads, writes, world
<1>1. CASE Dispatcher
  <2>1. CASE Send
    BY <2>1 DEF Send, ReleaseInv
  <2>2. CASE Disconnect
    BY <2>2 DEF Disconnect, ReleaseInv
  <2>3. CASE DisconnectLocked
    BY <2>3 DEF DisconnectLocked, Closed, ReleaseInv
  <2>4. CASE CloseAll
    BY <2>4 DEF CloseAll, ReleaseInv
  <2> QED
    BY <1>1, <2>1, <2>2, <2>3, <2>4 DEF Dispatcher
<1>2. CASE PeerActs
  BY <1>2 DEF PeerActs, PeerSends, PeerTakes, PeerGone, ReleaseInv
<1>3. ASSUME NEW single \in BOOLEAN, Accept(single) PROVE ReleaseInv'
  BY <1>3 DEF Accept, ReleaseInv
<1>4. CASE Reject
  BY <1>4 DEF Reject, ReleaseInv
<1>5. CASE ReadError
  BY <1>5 DEF ReadError, Closed, ReleaseInv
<1>6. CASE ParseHeader
  BY <1>6 DEF ParseHeader, Closed, ReleaseInv
<1>7. CASE ParsePacket
  <2>1. CASE state # "OPEN"
    <3>1. UNCHANGED <<state, protocol, released>>
      BY <1>7, <2>1 DEF ParsePacket
    <3> QED
      BY <2>1, <3>1 DEF ReleaseInv
  <2>2. CASE /\ state = "OPEN" /\ state' = "CLOSED" /\ protocol' \in {protocol, TRUE}
             /\ released' = released + (IF protocol' THEN 1 ELSE 0)
    <3>1. released = 0 /\ protocol' \in BOOLEAN
      BY <2>2 DEF ReleaseInv
    <3>2. released' = IF protocol' THEN 1 ELSE 0
      BY <2>2, <3>1
    <3> QED
      BY <2>2, <3>1, <3>2 DEF ReleaseInv
  <2>3. CASE /\ state = "OPEN" /\ UNCHANGED <<state, released>>
             /\ reading' = "header" /\ protocol' = TRUE
    BY <2>3 DEF ReleaseInv
  <2> QED
    BY <1>7, <2>1, <2>2, <2>3, ClosedFacts DEF ParsePacket
<1>8. CASE WriteError
  BY <1>8 DEF WriteError, Closed, ReleaseInv
<1>9. CASE Written
  BY <1>9 DEF Written, ReleaseInv
<1>10. CASE Destroy
  BY <1>10 DEF Destroy, Held, ReleaseInv
<1>11. ASSUME NEW t \in Timer, Expire(t) \/ Timeout(t) PROVE ReleaseInv'
  BY <1>11 DEF Expire, Timeout, Closed, ReleaseInv
<1>12. CASE UNCHANGED vars
  BY <1>12 DEF vars, ReleaseInv
<1> QED
  BY <1>1, <1>2, <1>3, <1>4, <1>5, <1>6, <1>7, <1>8, <1>9, <1>10, <1>11, <1>12
     DEF Next, Network

\* The invariant holds in every state.
LEMMA ReleaseInvariance == Spec => []ReleaseInv
<1>1. Init => ReleaseInv
  BY DEF Init, ReleaseInv
<1> QED
  BY <1>1, ReleaseStep, PTL DEF Spec

\* Protocol::release is handed to the dispatcher exactly once for every
\* connection with a protocol that ends, however often and by whomever it is
\* closed.
THEOREM AlwaysReleasedOnce == Spec => []ReleasedOnce
<1>1. ReleaseInv => ReleasedOnce
  BY DEF ReleaseInv, ReleasedOnce
<1> QED
  BY <1>1, ReleaseInvariance, PTL

-----------------------------------------------------------------------------
(* Writing *)

\* The number of the message that is next to be taken off the queue.
First == received + 1 - writeDone

\* Nothing is queued or written; or the front of the queue is being written; or
\* that write is done and its handler to come.
Writing(q, w, d) ==
  \/ q = <<>> /\ w = <<>> /\ d = 0
  \/ q # <<>> /\ w = <<Head(q)>> /\ d = 0
  \/ q # <<>> /\ w = <<>> /\ d = 1

\* What is queued is what was accepted and not received, as long as writing
\* did not fail; it can only fail when the connection is no longer open, or
\* is closed by that.
WriteInv ==
  /\ queue \in Seq(Nat) /\ accepted \in Nat /\ received \in Nat
  /\ Writing(queue, writing, writeDone)
  /\ state = "NEW" => queue = <<>> /\ accepted = 0 /\ received = 0
  /\ \A k \in 1..Len(queue) : queue[k] = First + k - 1
  /\ state = "OPEN" \/ (peer /\ socketOpen) => First + Len(queue) = accepted + 1

\* One write at most is complete or under way.
LEMMA WritingTypes ==
  ASSUME WriteInv
  PROVE  /\ writeDone \in 0..1 /\ First \in Nat /\ First = received + 1 - writeDone
         /\ writing \in Seq(Nat) /\ (writeDone > 0 <=> writeDone = 1)
         /\ queue = <<>> => writing = <<>> /\ writeDone = 0
         /\ writeDone > 0 => queue # <<>> /\ writing = <<>>
         /\ writing # <<>> => queue # <<>> /\ writeDone = 0
         /\ writing = <<>> /\ ~(writeDone > 0) => queue = <<>>
<1>1. writeDone \in 0..1 /\ received \in Nat
  BY DEF WriteInv, Writing
<1>2. queue # <<>> => Head(queue) \in Nat
  BY DEF WriteInv
<1>3. writing \in Seq(Nat)
  <2>1. \A m \in Nat : <<m>> \in Seq(Nat)
    OBVIOUS
  <2>2. writing = <<>> \/ (queue # <<>> /\ writing = <<Head(queue)>>)
    BY DEF WriteInv, Writing
  <2>3. CASE writing = <<>>
    BY <2>3
  <2>4. CASE queue # <<>> /\ writing = <<Head(queue)>>
    BY <1>2, <2>1, <2>4
  <2> QED
    BY <2>2, <2>3, <2>4
<1>4. First \in Nat /\ First = received + 1 - writeDone /\ (writeDone > 0 <=> writeDone = 1)
  BY <1>1 DEF First
<1> DEFINE busy == writeDone > 0
<1>5. \/ queue = <<>> /\ writing = <<>> /\ ~busy /\ writeDone = 0
      \/ queue # <<>> /\ writing = <<Head(queue)>> /\ ~busy /\ writeDone = 0
      \/ queue # <<>> /\ writing = <<>> /\ busy
  BY DEF WriteInv, Writing
<1>6. <<Head(queue)>> # <<>>
  OBVIOUS
<1> HIDE DEF busy
<1>7. /\ queue = <<>> => writing = <<>> /\ writeDone = 0
      /\ busy => queue # <<>> /\ writing = <<>>
      /\ writing # <<>> => queue # <<>> /\ writeDone = 0
      /\ writing = <<>> /\ ~busy => queue = <<>>
  BY <1>5, <1>6
<1> QED
  BY <1>1, <1>3, <1>4, <1>7 DEF busy

\* A write that ends was the only one.
LEMMA LastWrite ==
  ASSUME Writing(queue, writing, writeDone), NEW i \in DOMAIN writing
  PROVE  /\ queue # <<>> /\ writeDone = 0 /\ writing[i] = Head(queue)
         /\ RemoveAt(writing, i) = <<>>
<1>1. queue # <<>> /\ writing = <<Head(queue)>> /\ writeDone = 0 /\ i = 1
  BY DEF Writing
<1> DEFINE m == Head(queue)
<1>2. RemoveAt(<<m>>, 1) = <<>>
  <2>1. SubSeq(<<m>>, 1, 0) = <<>> /\ SubSeq(<<m>>, 2, 1) = <<>> /\ Len(<<m>>) = 1
    OBVIOUS
  <2> QED
    BY <2>1 DEF RemoveAt
<1> QED
  BY <1>1, <1>2

\* send() puts the next number at the end.
LEMMA QueuedInOrder ==
  ASSUME WriteInv, state = "OPEN", Queued, received' = received
  PROVE  WriteInv' \/ state' = "NEW"
<1>1. First + Len(queue) = accepted + 1 /\ First' = First
  BY DEF WriteInv, First, Queued
<1>2. First \in Nat /\ Len(queue) \in Nat
  BY WritingTypes DEF WriteInv
<1>3. /\ queue' \in Seq(Nat) /\ Len(queue') = Len(queue) + 1
      /\ \A k \in 1..Len(queue') :
           queue'[k] = IF k = Len(queue) + 1 THEN accepted + 1 ELSE queue[k]
  <2>1. queue \in Seq(Nat) /\ accepted + 1 \in Nat /\ queue' = Append(queue, accepted + 1)
    BY DEF WriteInv, Queued
  <2> QED
    BY <2>1
<1>4. ASSUME NEW k \in 1..Len(queue') PROVE queue'[k] = First' + k - 1
  <2>1. CASE k = Len(queue) + 1
    BY <1>1, <1>2, <1>3, <2>1
  <2>2. CASE k # Len(queue) + 1
    <3>1. k \in 1..Len(queue) /\ queue'[k] = queue[k]
      BY <1>2, <1>3, <2>2
    <3>2. queue[k] = First + k - 1
      BY <3>1 DEF WriteInv
    <3> QED
      BY <1>1, <3>1, <3>2
  <2> QED
    BY <2>1, <2>2
<1>5. First' + Len(queue') = accepted' + 1
  BY <1>1, <1>2, <1>3 DEF WriteInv, Queued
<1>6. accepted' \in Nat /\ received' \in Nat /\ queue' # <<>>
  BY <1>2, <1>3 DEF WriteInv, Queued
<1>7. Writing(queue', writing', writeDone')
  <2>1. writeDone' = writeDone /\ queue' = Append(queue, accepted + 1)
    BY DEF Queued
  <2>2. CASE queue = <<>>
    <3>1. writing = <<>> /\ writeDone = 0
      BY <2>2, WritingTypes
    <3>2. writing' = <<accepted + 1>> /\ Head(queue') = accepted + 1
      BY <2>1, <2>2, <3>1 DEF Queued
    <3> QED
      BY <1>6, <2>1, <3>1, <3>2 DEF Writing
  <2>3. CASE queue # <<>>
    <3>1. writing' = writing
      BY <2>3 DEF Queued
    <3>2. queue[1] = Head(queue) /\ queue'[1] = Head(queue') /\ Len(queue) # 0
      BY <1>3, <1>6, <2>3 DEF WriteInv
    <3>3. Head(queue') = Head(queue)
      <4>1. 1 \in 1..Len(queue') /\ 1 # Len(queue) + 1
        BY <1>2, <1>3, <3>2
      <4> QED
        BY <1>3, <3>2, <4>1
    <3>4. \/ writing = <<Head(queue)>> /\ writeDone = 0
          \/ writing = <<>> /\ writeDone = 1
      BY <2>3 DEF WriteInv, Writing
    <3> QED
      BY <1>6, <2>1, <3>1, <3>3, <3>4 DEF Writing
  <2> QED
    BY <2>2, <2>3
<1> QED
  BY <1>3, <1>4, <1>5, <1>6, <1>7 DEF WriteInv, Queued

\* What leaves the messages alone, and leaves a connection open only if it
\* was open, or has no messages yet.
LEMMA MessagesKept ==
  ASSUME WriteInv, UNCHANGED <<received, writes>>,
         state' # "NEW" \/ state = "NEW",
         \/ state = "NEW"
         \/ state' = "OPEN" \/ (peer' /\ socketOpen')
              => state = "OPEN" \/ (peer /\ socketOpen)
  PROVE  WriteInv'
<1>1. First' = First
  BY DEF First, writes
<1>2. state = "NEW" => writeDone = 0 /\ Len(queue) = 0 /\ First + Len(queue) = accepted + 1
  BY WritingTypes DEF WriteInv
<1> QED
  BY <1>1, <1>2 DEF WriteInv, writes

\* Every step keeps the queue in order.
LEMMA WriteStep == WriteInv /\ [Next]_vars => WriteInv'
<1> SUFFICES ASSUME WriteInv, [Next]_vars PROVE WriteInv'
  OBVIOUS
<1> USE DEF Kept, life, reads, world
<1>1. CASE Send
  <2>1. state = "OPEN" /\ Queued /\ state' = "OPEN" /\ received' = received
    BY <1>1 DEF Send
  <2> QED
    BY <2>1, QueuedInOrder
<1>2. CASE Disconnect \/ CloseAll
  <2>1. /\ UNCHANGED <<received, writes, peer, state>> /\ (socketOpen' => socketOpen)
    BY <1>2 DEF Disconnect, CloseAll
  <2> QED
    BY <2>1, MessagesKept
<1>3. CASE DisconnectLocked
  <2>1. UNCHANGED <<received, writes, peer>> /\ Closed(FALSE, queue, armed, {})
    BY <1>3 DEF DisconnectLocked
  <2> QED
    BY <2>1, ClosedFacts, MessagesKept
<1>4. CASE PeerSends \/ PeerGone
  <2>1. /\ UNCHANGED <<received, writes, state, socketOpen>> /\ (peer' => peer)
    BY <1>4 DEF PeerSends, PeerGone
  <2> QED
    BY <2>1, MessagesKept
<1>5. CASE PeerTakes
  <2>1. PICK i \in DOMAIN writing : received' = writing[i] /\ writing' = RemoveAt(writing, i)
    BY <1>5 DEF PeerTakes
  <2>2. /\ queue # <<>> /\ writeDone = 0 /\ received' = Head(queue) /\ writing' = <<>>
        /\ writeDone' = 1 /\ UNCHANGED <<queue, accepted, state, socketOpen, peer>>
    <3>1. writeDone' = writeDone + 1 /\ UNCHANGED <<queue, accepted, state, socketOpen, peer>>
      BY <1>5 DEF PeerTakes
    <3>2. queue # <<>> /\ writeDone = 0 /\ writing[i] = Head(queue) /\ RemoveAt(writing, i) = <<>>
      BY LastWrite DEF WriteInv
    <3> QED
      BY <2>1, <3>1, <3>2
  <2>0. queue \in Seq(Nat) /\ received \in Nat /\ First = received + 1
    BY <2>2 DEF WriteInv, First
  <2>3. queue[1] = First
    <3>1. 1 \in 1..Len(queue) /\ First \in Nat
      BY <2>0, <2>2
    <3> QED
      BY <2>0, <3>1 DEF WriteInv
  <2>4. received' = First /\ received' \in Nat /\ First' = First
    BY <2>0, <2>2, <2>3 DEF First
  <2>5. Writing(queue', writing', writeDone')
    BY <2>2 DEF Writing
  <2> QED
    BY <2>2, <2>4, <2>5 DEF WriteInv
<1>6. ASSUME NEW single \in BOOLEAN, Accept(single) PROVE WriteInv'
  <2>1. UNCHANGED <<received, writes>> /\ state = "NEW"
    BY <1>6 DEF Accept
  <2>2. state' # "NEW"
    BY <1>6 DEF Accept
  <2> QED
    BY <2>1, <2>2, MessagesKept
<1>7. CASE Reject \/ Destroy
  <2>1. /\ UNCHANGED <<received, writes, peer>> /\ (socketOpen' => socketOpen)
        /\ state' \notin {"NEW", "OPEN"}
    BY <1>7 DEF Reject, Destroy
  <2> QED
    BY <2>1, MessagesKept
<1>8. CASE ReadError
  <2>1. UNCHANGED <<received, writes, peer>> /\ Closed(TRUE, queue, armed \ {"read"}, {})
    BY <1>8 DEF ReadError
  <2> QED
    BY <2>1, ClosedFacts, MessagesKept
<1>9. CASE ParseHeader
  <2>1. /\ UNCHANGED <<received, writes, peer>>
        /\ \/ UNCHANGED <<state, socketOpen>>
           \/ \E force \in BOOLEAN : Closed(force, queue, armed \ {"read"}, {})
    BY <1>9 DEF ParseHeader
  <2> QED
    BY <2>1, ClosedFacts, MessagesKept
<1>10. CASE ParsePacket
  <2>1. UNCHANGED <<received, peer>>
    BY <1>10 DEF ParsePacket
  <2>2. CASE UNCHANGED writes
    <3>1. \/ UNCHANGED <<state, socketOpen>>
          \/ Closed(TRUE, queue, armed \ {"read"}, {})
          \/ Closed(FALSE, queue, armed \ {"read"}, {"read"})
          \/ state = "OPEN" /\ Closed(FALSE, queue', SendTimers(armed) \ {"read"}, {"read"})
      BY <1>10 DEF ParsePacket
    <3>2. (state' # "NEW" \/ state = "NEW") /\ (state' = "OPEN" => state = "OPEN")
          /\ (socketOpen' => socketOpen)
      <4>1. CASE UNCHANGED <<state, socketOpen>>
        BY <4>1
      <4>2. CASE Closed(TRUE, queue, armed \ {"read"}, {})
        BY <4>2, ClosedFacts
      <4>3. CASE Closed(FALSE, queue, armed \ {"read"}, {"read"})
        BY <4>3, ClosedFacts
      <4>4. CASE Closed(FALSE, queue', SendTimers(armed) \ {"read"}, {"read"})
        BY <4>4, ClosedFacts
      <4> QED
        BY <3>1, <4>1, <4>2, <4>3, <4>4
    <3> QED
      BY <2>1, <2>2, <3>2, MessagesKept
  <2>3. CASE state = "OPEN" /\ Queued /\ Closed(FALSE, queue', SendTimers(armed) \ {"read"}, {"read"})
    <3>1. state' = "CLOSED"
      BY <2>3, ClosedFacts
    <3> QED
      BY <2>1, <2>3, <3>1, QueuedInOrder
  <2> QED
    BY <1>10, <2>2, <2>3 DEF ParsePacket
<1>11. CASE WriteError
  <2>0. PICK i \in DOMAIN writing : writing' = RemoveAt(writing, i)
    BY <1>11 DEF WriteError
  <2>1. /\ writing' = <<>> /\ queue' = <<>> /\ writeDone' = 0 /\ queue # <<>>
        /\ UNCHANGED <<accepted, received, peer>> /\ ~(socketOpen /\ peer)
        /\ Closed(TRUE, <<>>, armed \ {"write"}, {})
    <3>1. queue # <<>> /\ writeDone = 0 /\ RemoveAt(writing, i) = <<>>
      BY LastWrite DEF WriteInv
    <3> QED
      BY <1>11, <2>0, <3>1 DEF WriteError, Failing, writes
  <2>2. state # "NEW"
    BY <2>1 DEF WriteInv
  <2>3. state' \notin {"NEW", "OPEN"} /\ (socketOpen' => socketOpen)
    BY <2>1, <2>2, ClosedFacts
  <2>4. accepted \in Nat /\ received \in Nat /\ Writing(queue', writing', writeDone')
    BY <2>1 DEF WriteInv, Writing
  <2>5. /\ queue' \in Seq(Nat) /\ (\A k \in 1..Len(queue') : queue'[k] = First' + k - 1)
    BY <2>1
  <2>6. ~(state' = "OPEN" \/ (peer' /\ socketOpen'))
    BY <2>1, <2>3
  <2> QED
    BY <2>1, <2>3, <2>4, <2>5, <2>6 DEF WriteInv
<1>12. CASE Written
  <2>1. /\ NextWrite /\ UNCHANGED <<accepted, received, peer, state>>
        /\ (socketOpen' => socketOpen)
    BY <1>12 DEF Written
  <2>0. /\ writeDone = 1 /\ writeDone' = 0 /\ queue # <<>> /\ queue' = Tail(queue)
        /\ writing = <<>> /\ writing' = IF queue' = <<>> THEN <<>> ELSE <<Head(queue')>>
    <3>1. writeDone = 1 /\ queue # <<>> /\ writing = <<>>
      BY <2>1, WritingTypes DEF NextWrite
    <3> QED
      BY <2>1, <3>1 DEF NextWrite
  <2>2. /\ queue \in Seq(Nat) /\ queue # <<>> /\ received \in Nat /\ state # "NEW"
        /\ First = received /\ First' = received + 1
    BY <2>0, <2>1 DEF WriteInv, First
  <2>3. /\ queue' \in Seq(Nat) /\ Len(queue') = Len(queue) - 1 /\ Len(queue) \in Nat
        /\ \A k \in 1..Len(queue') : queue'[k] = queue[k + 1] /\ k + 1 \in 1..Len(queue)
    BY <2>0, <2>2
  <2>4. ASSUME NEW k \in 1..Len(queue') PROVE queue'[k] = First' + k - 1
    <3>1. queue[k + 1] = First + (k + 1) - 1
      BY <2>3 DEF WriteInv
    <3> QED
      BY <2>2, <2>3, <3>1
  <2>5. state' = "OPEN" \/ (peer' /\ socketOpen') => First' + Len(queue') = accepted' + 1
    <3>1. First + Len(queue) = accepted + 1 => First' + Len(queue') = accepted' + 1
      BY <2>1, <2>2, <2>3
    <3>2. ASSUME state' = "OPEN" \/ (peer' /\ socketOpen') PROVE First + Len(queue) = accepted + 1
      BY <2>1, <3>2 DEF WriteInv
    <3> QED
      BY <3>1, <3>2
  <2>6. Writing(queue', writing', writeDone') /\ accepted' \in Nat /\ received' \in Nat
    BY <2>0, <2>1 DEF WriteInv, Writing
  <2> QED
    BY <2>1, <2>2, <2>3, <2>4, <2>5, <2>6 DEF WriteInv
<1>13. ASSUME NEW t \in Timer, Expire(t) PROVE WriteInv'
  <2>1. UNCHANGED <<received, writes, peer, state, socketOpen>>
    BY <1>13 DEF Expire
  <2> QED
    BY <2>1, MessagesKept
<1>14. ASSUME NEW t \in Timer, Timeout(t) PROVE WriteInv'
  <2>1. /\ UNCHANGED <<received, writes, peer>>
        /\ UNCHANGED <<state, socketOpen>> \/ Closed(TRUE, queue, armed, {})
    BY <1>14 DEF Timeout
  <2>2. /\ (state' # "NEW" \/ state = "NEW") /\ (state' = "OPEN" => state = "OPEN")
        /\ (socketOpen' => socketOpen)
    <3>1. CASE UNCHANGED <<state, socketOpen>>
      BY <3>1
    <3>2. CASE Closed(TRUE, queue, armed, {})
      BY <3>2, ClosedFacts
    <3> QED
      BY <2>1, <3>1, <3>2
  <2> QED
    BY <2>1, <2>2, MessagesKept
<1>15. CASE UNCHANGED vars
  BY <1>15, MessagesKept DEF vars
<1> QED
  BY <1>1, <1>2, <1>3, <1>4, <1>5, <1>6, <1>7, <1>8, <1>9, <1>10, <1>11, <1>12,
     <1>13, <1>14, <1>15
     DEF Next, Dispatcher, PeerActs, Network

\* The queue is in order in every state.
LEMMA WriteInvariance == Spec => []WriteInv
<1>1. Init => WriteInv
  <2> SUFFICES ASSUME Init PROVE WriteInv
    OBVIOUS
  <2>1. queue = <<>> /\ received = 0 /\ accepted = 0 /\ First = 1
        /\ writeDone = 0 /\ writing = <<>> /\ state = "NEW" /\ socketOpen = FALSE
    BY DEF Init, First
  <2>2. queue \in Seq(Nat) /\ \A k \in 1..Len(queue) : queue[k] = First + k - 1
    BY <2>1
  <2>3. Writing(queue, writing, writeDone)
    BY <2>1 DEF Writing
  <2> QED
    BY <2>1, <2>2, <2>3 DEF WriteInv
<1> QED
  BY <1>1, WriteStep, PTL DEF Spec

\* Whatever happens to the connection, its messages reach the peer in the
\* order of send() and none is skipped.
THEOREM AlwaysInOrder == Spec => []InOrder
<1>1. WriteInv => InOrder
  BY DEF WriteInv, InOrder, First
<1> QED
  BY <1>1, WriteInvariance, PTL

\* However sends, completions, errors and closes follow each other, no two
\* messages are written at a time, the one that is has the front of the queue,
\* and none waits while nothing is being written.
THEOREM AlwaysOneWrite == Spec => []OneWrite
<1>1. WriteInv => OneWrite
  <2> SUFFICES ASSUME WriteInv
               PROVE  OneWrite
    OBVIOUS
  <2>1. \A m : Len(<<m>>) = 1 /\ Head(<<m>>) = m
    OBVIOUS
  <2>2. Writing(queue, writing, writeDone)
    BY DEF WriteInv
  <2>3. CASE queue = <<>>
    BY <2>2, <2>3 DEF OneWrite, Writing
  <2>4. CASE queue # <<>> /\ writing = <<Head(queue)>> /\ writeDone = 0
    <3>1. Len(writing) = 1 /\ Head(writing) = Head(queue)
      BY <2>1, <2>4
    <3> QED
      BY <2>4, <3>1 DEF OneWrite
  <2>5. CASE queue # <<>> /\ writing = <<>> /\ writeDone = 1
    BY <2>5 DEF OneWrite
  <2> QED
    BY <2>2, <2>3, <2>4, <2>5 DEF Writing
<1> QED
  BY <1>1, WriteInvariance, PTL

-----------------------------------------------------------------------------
(* The last words *)

\* closeAll() no longer knows a connection that was closed.
Forgotten == state = "CLOSED" => ~registered

\* Only accept() goes with a registered connection, and every close takes it off.
LEMMA ForgottenStep == Forgotten /\ [Next]_vars => Forgotten'
<1> SUFFICES ASSUME Forgotten, [Next]_vars PROVE Forgotten'
  OBVIOUS
<1> USE DEF Kept, life, reads, writes, world, Forgotten
<1>1. CASE Dispatcher
  BY <1>1 DEF Dispatcher, Send, Disconnect, DisconnectLocked, CloseAll, Closed
<1>2. CASE PeerActs
  BY <1>2 DEF PeerActs, PeerSends, PeerTakes, PeerGone
<1>3. CASE (\E single \in BOOLEAN : Accept(single)) \/ Reject \/ Written \/ Destroy
  BY <1>3 DEF Accept, Reject, Written, Destroy
<1>4. CASE ReadError \/ ParseHeader \/ ParsePacket \/ WriteError
  BY <1>4 DEF ReadError, ParseHeader, ParsePacket, WriteError, Closed
<1>5. CASE \E t \in Timer : Expire(t) \/ Timeout(t)
  BY <1>5 DEF Expire, Timeout, Closed
<1>6. CASE UNCHANGED vars
  BY <1>6 DEF vars
<1> QED
  BY <1>1, <1>2, <1>3, <1>4, <1>5, <1>6 DEF Next, Network

\* The peer has everything if nothing is queued, and also if the last
\* message has just been taken.
LEMMA EverythingTaken ==
  ASSUME WriteInv, peer, socketOpen,
         queue = <<>> \/ (writeDone > 0 /\ queue # <<>> /\ Tail(queue) = <<>>)
  PROVE  received = accepted
<1>1. received \in Nat /\ accepted \in Nat /\ First + Len(queue) = accepted + 1
  BY DEF WriteInv
<1>2. CASE queue = <<>>
  <2>1. writeDone = 0 /\ Len(queue) = 0
    BY <1>2, WritingTypes
  <2> QED
    BY <1>1, <2>1 DEF First
<1>3. CASE writeDone > 0 /\ queue # <<>> /\ Tail(queue) = <<>>
  <2>1. queue \in Seq(Nat)
    BY DEF WriteInv
  <2>2. Len(Tail(queue)) = Len(queue) - 1 /\ Len(<<>>) = 0 /\ Len(queue) \in Nat
    BY <1>3, <2>1
  <2>3. Len(queue) = 1
    BY <1>3, <2>2
  <2>4. writeDone = 1
    BY <1>3, WritingTypes
  <2> QED
    BY <1>1, <2>3, <2>4 DEF First
<1> QED
  BY <1>2, <1>3

\* Who is disconnected, or whose connection is closed already, gets all that
\* was sent before the socket closes, unless the peer goes.
THEOREM LastWordsAlwaysArrive == Spec => LastWordsArrive
<1>1. WriteInv /\ Forgotten /\ [Next]_vars =>
        [/\ state = "CLOSED" \/ DisconnectLocked
         /\ socketOpen /\ ~socketOpen' /\ peer
         => received' = accepted]_vars
  <2> SUFFICES ASSUME WriteInv, Forgotten, Next, state = "CLOSED" \/ DisconnectLocked,
                      socketOpen, ~socketOpen', peer
               PROVE  received' = accepted
    BY DEF vars, life, reads, writes, world
  <2>1. CASE DisconnectLocked
    <3>1. queue = <<>> /\ received' = received
      BY <2>1 DEF DisconnectLocked, Closed, world
    <3> QED
      BY <3>1, EverythingTaken
  <2>2. CASE state = "CLOSED"
    <3> USE DEF Kept, Closed, life
    <3>1. CASE Dispatcher
      BY <2>1, <2>2, <3>1 DEF Dispatcher, Send, Disconnect, CloseAll, Forgotten
    <3>2. CASE PeerActs
      BY <3>2 DEF PeerActs, PeerSends, PeerTakes, PeerGone
    <3>3. CASE (\E single \in BOOLEAN : Accept(single)) \/ Reject
      BY <2>2, <3>3 DEF Accept, Reject
    <3>4. CASE ReadError \/ ParseHeader \/ ParsePacket \/ WriteError
      BY <2>2, <3>4 DEF ReadError, ParseHeader, ParsePacket, WriteError
    <3>5. CASE \E t \in Timer : Expire(t) \/ Timeout(t)
      BY <2>2, <3>5 DEF Expire, Timeout
    <3>6. CASE Written
      <4>1. writeDone > 0 /\ queue # <<>> /\ Tail(queue) = <<>> /\ received' = received
        BY <3>6, WritingTypes DEF Written, NextWrite, world
      <4> QED
        BY <4>1, EverythingTaken
    <3>7. CASE Destroy
      <4>1. queue = <<>> /\ received' = received
        BY <3>7, WritingTypes DEF Destroy, Held, world
      <4> QED
        BY <4>1, EverythingTaken
    <3> QED
      BY <3>1, <3>2, <3>3, <3>4, <3>5, <3>6, <3>7 DEF Next, Network
  <2> QED
    BY <2>1, <2>2
<1>2. Init => Forgotten
  BY DEF Init, Forgotten
<1> QED
  BY <1>1, <1>2, ForgottenStep, WriteInvariance, PTL DEF Spec, LastWordsArrive

-----------------------------------------------------------------------------
(* Types *)

\* The numbers in the queue are those of messages.
QueueTyped == queue \in Seq(1..MaxSends) /\ accepted \in 0..MaxSends /\ received \in 0..MaxSends

\* A message enters the queue below the bound, and leaves it for the peer.
LEMMA QueueTypedStep == QueueTyped /\ WriteInv /\ [Next]_vars => QueueTyped'
<1> SUFFICES ASSUME QueueTyped, WriteInv, [Next]_vars PROVE QueueTyped'
  OBVIOUS
<1> USE ConnectionAssumption DEF QueueTyped
<1>1. ASSUME Queued, accepted < MaxSends, received' = received PROVE QueueTyped'
  <2>1. accepted + 1 \in 1..MaxSends
    BY <1>1
  <2> QED
    BY <1>1, <2>1 DEF Queued
<1>2. CASE UNCHANGED <<queue, accepted, received>>
  BY <1>2
<1>3. CASE Send
  BY <1>1, <1>3 DEF Send, world
<1>4. CASE ParsePacket
  BY <1>1, <1>2, <1>4 DEF ParsePacket, writes, world
<1>5. CASE WriteError
  BY <1>5 DEF WriteError, world
<1>6. CASE Written
  <2>1. queue # <<>> /\ queue' = Tail(queue) /\ UNCHANGED <<accepted, received>>
    BY <1>6, WritingTypes DEF Written, NextWrite, world
  <2> QED
    BY <2>1
<1>7. CASE PeerTakes
  <2>1. queue # <<>> /\ received' = Head(queue) /\ UNCHANGED <<accepted, queue>>
    <3>1. PICK i \in DOMAIN writing : received' = writing[i]
      BY <1>7 DEF PeerTakes
    <3>2. queue # <<>> /\ writing[i] = Head(queue)
      BY LastWrite DEF WriteInv
    <3> QED
      BY <1>7, <3>1, <3>2 DEF PeerTakes
  <2>2. Head(queue) \in 1..MaxSends
    BY <2>1
  <2> QED
    BY <2>1, <2>2
<1>8. CASE Disconnect \/ DisconnectLocked \/ CloseAll \/ PeerSends \/ PeerGone
  BY <1>2, <1>8 DEF Disconnect, DisconnectLocked, CloseAll, PeerSends, PeerGone, writes, world
<1>9. CASE (\E single \in BOOLEAN : Accept(single)) \/ Reject \/ ReadError \/ ParseHeader \/ Destroy
  BY <1>2, <1>9 DEF Accept, Reject, ReadError, ParseHeader, Destroy, writes, world
<1>10. CASE \E t \in Timer : Expire(t) \/ Timeout(t)
  BY <1>2, <1>10 DEF Expire, Timeout, writes, world
<1>11. CASE UNCHANGED vars
  BY <1>2, <1>11 DEF vars, writes, world
<1> QED
  BY <1>3, <1>4, <1>5, <1>6, <1>7, <1>8, <1>9, <1>10, <1>11
     DEF Next, Dispatcher, PeerActs, Network

\* The types of what is neither in the queue nor counted.
FlagsTyped ==
  /\ registered \in BOOLEAN /\ socketOpen \in BOOLEAN
  /\ reading \in {"none", "header", "body"} /\ readDone \in BOOLEAN
  /\ armed \subseteq Timer /\ due \subseteq Timer
  /\ closing \in BOOLEAN /\ peer \in BOOLEAN

\* The other variables are set to values of their types.
LEMMA FlagsTypedStep == FlagsTyped /\ [Next]_vars => FlagsTyped'
<1> SUFFICES ASSUME FlagsTyped, [Next]_vars PROVE FlagsTyped'
  OBVIOUS
<1> USE DEF FlagsTyped, Kept, SendTimers, ReadHandled, Timer, life, reads, writes, world
<1>1. CASE Send \/ Disconnect \/ CloseAll
  BY <1>1 DEF Send, Disconnect, CloseAll
<1>2. CASE DisconnectLocked
  BY <1>2 DEF DisconnectLocked, Closed
<1>3. CASE PeerActs
  BY <1>3 DEF PeerActs, PeerSends, PeerTakes, PeerGone
<1>4. CASE (\E single \in BOOLEAN : Accept(single)) \/ Reject \/ Destroy
  BY <1>4 DEF Accept, Reject, Destroy
<1>5. CASE ReadError
  BY <1>5 DEF ReadError, Closed
<1>6. CASE ParseHeader
  BY <1>6 DEF ParseHeader, Closed
<1>7. CASE ParsePacket
  BY <1>7 DEF ParsePacket, Closed
<1>8. CASE WriteError
  BY <1>8 DEF WriteError, Closed
<1>9. CASE Written
  BY <1>9 DEF Written
<1>10. CASE \E t \in Timer : Expire(t)
  BY <1>10 DEF Expire
<1>11. CASE \E t \in Timer : Timeout(t)
  BY <1>11 DEF Timeout, Closed
<1>12. CASE UNCHANGED vars
  BY <1>12 DEF vars
<1> QED
  BY <1>1, <1>2, <1>3, <1>4, <1>5, <1>6, <1>7, <1>8, <1>9, <1>10, <1>11, <1>12
     DEF Next, Dispatcher, Network

\* The variables keep their types; a connection is released at most once, and
\* no number of a message is beyond the bound.
THEOREM TypeCorrect == Spec => []ConnTypeOK
<1>1. Init => QueueTyped /\ FlagsTyped
  <2>1. 0 \in 0..MaxSends /\ <<>> \in Seq(1..MaxSends)
    BY ConnectionAssumption
  <2> QED
    BY <2>1 DEF Init, QueueTyped, FlagsTyped
<1>2. QueueTyped /\ FlagsTyped /\ ReleaseInv /\ WriteInv => ConnTypeOK
  <2> SUFFICES ASSUME QueueTyped, FlagsTyped, ReleaseInv, WriteInv
               PROVE  ConnTypeOK
    OBVIOUS
  <2> DEFINE M == 1..MaxSends
  <2>1. queue \in Seq(M) /\ writeDone \in Nat
    BY WritingTypes DEF QueueTyped
  <2>2. writing \in Seq(M)
    <3>1. writing = <<>> \/ (queue # <<>> /\ writing = <<Head(queue)>>)
      BY DEF WriteInv, Writing
    <3> HIDE DEF M
    <3>2. queue # <<>> => Head(queue) \in M
      BY <2>1
    <3>3. \A m \in M : <<m>> \in Seq(M)
      OBVIOUS
    <3>4. CASE writing = <<>>
      BY <3>4
    <3>5. CASE queue # <<>> /\ writing = <<Head(queue)>>
      BY <3>2, <3>3, <3>5
    <3> QED
      BY <3>1, <3>4, <3>5
  <2> QED
    BY <2>1, <2>2 DEF QueueTyped, FlagsTyped, ReleaseInv, ConnTypeOK
<1> QED
  BY <1>1, <1>2, QueueTypedStep, FlagsTypedStep, ReleaseInvariance, WriteInvariance, PTL DEF Spec
=============================================================================
