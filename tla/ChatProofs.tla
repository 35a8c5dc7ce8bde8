----------------------------- MODULE ChatProofs ------------------------------
(***************************************************************************)
(* Session.tla and Chat.tla for any connections, characters and channels:  *)
(* Player objects are counted exactly, their clients agree with them, no   *)
(* character is in the game twice, output is sent; channels point to       *)
(* players in the game, and private ones stay so.                          *)
(*                                                                         *)
(* A step of Chat is a step of Session, after which some leave their       *)
(* channels, or leaves the variables of Session alone: what is shown of    *)
(* Session first holds here too.                                           *)
(***************************************************************************)
EXTENDS Chat, Recursion, FiniteSetTheorems, SequenceTheorems

One(b) == IF b THEN 1 ELSE 0

-----------------------------------------------------------------------------
(* The invariant of the Player objects *)

BodyType ==
  /\ player \in [Protocol -> Object \cup {None}]
  /\ who \in [Object -> Character \cup {None}]
  /\ client \in [Object -> Protocol \cup {None}]
  /\ refs \in [Object -> Int]
  /\ ingame \in SUBSET Object /\ thinking \in SUBSET Object /\ toRelease \in SUBSET Object

\* What a protocol, the game, its list to release and the check hold.
Counted ==
  \A o \in Object :
    refs[o] = One(client[o] # None) + One(o \in ingame) + One(o \in toRelease)
                + One(o \in thinking)

Existing == \A o \in Object : who[o] = None <=> refs[o] = 0

Apart == ingame \cap toRelease = {}

Once == \A o1, o2 \in ingame : who[o1] = who[o2] => o1 = o2

Body == BodyType /\ ClientsAgree /\ Counted /\ Existing /\ Apart /\ Once

-----------------------------------------------------------------------------
(* The invariant of the protocols *)

NetType ==
  /\ stage \in [Protocol -> {"new", "posted", "ran"}]
  /\ asks \in [Protocol -> Character \cup {None}]
  /\ conn \in [Protocol -> {"open", "closed", "gone"}]
  /\ event \in [Protocol -> Protocol \cup {None}]
  /\ released \in SUBSET Protocol /\ buffered \in SUBSET Protocol
  /\ chains \in Nat

\* Before its task of login has run a protocol has nothing but a name.
Begun ==
  \A p \in Protocol :
    /\ stage[p] # "new" => asks[p] \in Character
    /\ stage[p] # "ran" => who[p] = None /\ player[p] = None /\ event[p] = None

\* Who waits for the event of connect() has no player yet.
Waiting == \A p \in Protocol : event[p] # None => player[p] = None

Done ==
  \A p \in released : stage[p] # "posted" /\ conn[p] # "open" /\ p \notin buffered

Sending == buffered # {} => chains > 0

Net == NetType /\ Begun /\ Waiting /\ Done /\ Sending

SessionInv == Body /\ Net

\* An object that does not exist is nowhere.
LEMMA Missing ==
  ASSUME Body, NEW o \in Object, who[o] = None
  PROVE  /\ refs[o] = 0 /\ client[o] = None
         /\ o \notin ingame /\ o \notin toRelease /\ o \notin thinking
         /\ \A p \in Protocol : player[p] # o
<1>1. refs[o] = 0
  BY DEF Body, Existing
<1>2. /\ client[o] = None /\ o \notin ingame /\ o \notin toRelease /\ o \notin thinking
  BY <1>1 DEF Body, Counted, One
<1>3. \A p \in Protocol : player[p] # o
  BY <1>2, SessionAssumption DEF Body, ClientsAgree, Object
<1> QED
  BY <1>1, <1>2, <1>3

-----------------------------------------------------------------------------
(* The tasks, for the Player objects *)

\* login() makes a player who stays with the client, or enters the game too.
LEMMA NewPlayerKeeps ==
  ASSUME SessionInv, NEW p \in Protocol, NEW n \in {1, 3}, NewPlayer(p, n), stage[p] = "posted",
         n = 1 => ingame' = ingame /\ thinking' = thinking,
         n = 3 => ingame' = ingame \cup {p} /\ thinking' = thinking \cup {p}
  PROVE  Body'
<1>1. who[p] = None /\ player[p] = None /\ asks[p] \in Character
  BY DEF SessionInv, Net, Begun
<1>2. /\ refs[p] = 0 /\ client[p] = None
      /\ p \notin ingame /\ p \notin toRelease /\ p \notin thinking
      /\ \A q \in Protocol : player[q] # p
  BY <1>1, Missing DEF SessionInv, Object
<1>3. /\ player' = [player EXCEPT ![p] = p] /\ client' = [client EXCEPT ![p] = p]
      /\ who' = [who EXCEPT ![p] = asks[p]] /\ refs' = [refs EXCEPT ![p] = n]
      /\ toRelease' = toRelease /\ Found(asks[p]) = {}
  BY DEF NewPlayer
<1>4. /\ BodyType /\ ClientsAgree /\ Counted /\ Existing /\ Apart /\ Once
  BY DEF SessionInv, Body
<1>5. BodyType'
  BY <1>1, <1>3, <1>4 DEF BodyType, Object
<1>6. ClientsAgree'
  BY <1>1, <1>2, <1>3, <1>4, SessionAssumption DEF ClientsAgree, BodyType, Object
<1>7. Counted'
  <2> SUFFICES ASSUME NEW o \in Object
               PROVE  refs'[o] = One(client'[o] # None) + One(o \in ingame') + One(o \in toRelease')
                                   + One(o \in thinking')
    BY DEF Counted
  <2>1. refs[o] = One(client[o] # None) + One(o \in ingame) + One(o \in toRelease) + One(o \in thinking)
    BY <1>4 DEF Counted
  <2>2. CASE o = p
    BY <1>2, <1>3, <1>4, <2>2, SessionAssumption DEF One, BodyType, Object
  <2>3. CASE o # p
    BY <1>3, <1>4, <2>1, <2>3 DEF One, BodyType, Object
  <2> QED
    BY <2>2, <2>3
<1>8. Existing'
  BY <1>1, <1>3, <1>4, SessionAssumption DEF Existing, BodyType, Object
<1>9. Apart'
  BY <1>2, <1>3, <1>4 DEF Apart
<1>10. Once'
  BY <1>2, <1>3, <1>4 DEF Once, Found, BodyType, Object
<1> QED
  BY <1>5, <1>6, <1>7, <1>8, <1>9, <1>10 DEF Body

\* connect() gives a player without a client to a protocol without a player.
LEMMA ConnectKeeps ==
  ASSUME SessionInv, NEW p \in Protocol, NEW c \in Character, ConnectTo(p, c), player[p] = None
  PROVE  Body'
<1> DEFINE free == {o \in Found(c) : client[o] = None}
           O == IF conn[p] # "gone" THEN free ELSE {}
<1>1. /\ BodyType /\ ClientsAgree /\ Counted /\ Existing /\ Apart /\ Once
  BY DEF SessionInv, Body
<1>2. /\ player' = [player EXCEPT ![p] = IF O = {} THEN @ ELSE CHOOSE o \in O : TRUE]
      /\ client' = [o \in Object |-> IF o \in O THEN p ELSE client[o]]
      /\ refs' = [o \in Object |-> IF o \in O THEN refs[o] + 1 ELSE refs[o]]
      /\ who' = who /\ ingame' = ingame /\ thinking' = thinking /\ toRelease' = toRelease
  BY DEF ConnectTo
<1>3. \A o \in O : o \in Object /\ o \in ingame /\ client[o] = None /\ who[o] = c
  BY <1>1 DEF Found, BodyType
<1> HIDE DEF O
<1>4. CASE O = {}
  <2>1. player' = player /\ client' = client /\ refs' = refs
    BY <1>1, <1>2, <1>4 DEF BodyType
  <2> QED
    BY <1>1, <1>2, <2>1 DEF Body, BodyType, ClientsAgree, Counted, Existing, Apart, Once
<1>5. CASE O # {}
  <2>1. PICK o \in O : o = CHOOSE x \in O : TRUE
    BY <1>5
  <2>2. O = {o} /\ o \in Object /\ client[o] = None
    BY <1>1, <1>3, <2>1 DEF Once
  <2>3. /\ player' = [player EXCEPT ![p] = o]
        /\ client' = [client EXCEPT ![o] = p]
        /\ refs' = [refs EXCEPT ![o] = refs[o] + 1]
    BY <1>1, <1>2, <1>5, <2>1, <2>2 DEF BodyType
  <2>4. BodyType'
    BY <1>1, <1>2, <2>2, <2>3 DEF BodyType, Object
  <2>5. ClientsAgree'
    BY <1>1, <2>2, <2>3, SessionAssumption DEF ClientsAgree, BodyType, Object
  <2>6. Counted' /\ \A x \in Object : refs'[x] = 0 <=> refs[x] = 0
    <3> SUFFICES ASSUME NEW x \in Object
                 PROVE  /\ refs'[x] = One(client'[x] # None) + One(x \in ingame') + One(x \in toRelease')
                                        + One(x \in thinking')
                        /\ refs'[x] = 0 <=> refs[x] = 0
      BY DEF Counted
    <3>1. refs[x] = One(client[x] # None) + One(x \in ingame) + One(x \in toRelease) + One(x \in thinking)
      BY <1>1 DEF Counted
    <3>2. CASE x = o
      BY <1>1, <1>2, <1>3, <2>2, <2>3, <3>1, <3>2, SessionAssumption DEF One, BodyType, Object
    <3>3. CASE x # o
      BY <1>1, <1>2, <2>2, <2>3, <3>1, <3>3 DEF One, BodyType, Object
    <3> QED
      BY <3>2, <3>3
  <2> QED
    BY <1>1, <1>2, <2>4, <2>5, <2>6 DEF Body, Existing, Apart, Once
<1> QED
  BY <1>4, <1>5

\* release() gives back what the protocol held.
LEMMA ReleaseKeeps ==
  ASSUME SessionInv, NEW p \in Protocol, Release(p)
  PROVE  /\ Body' /\ player'[p] = None
         /\ \A q \in Protocol \ {p} : player'[q] = player[q]
         /\ \A o \in Object : who[o] = None => who'[o] = None
<1> DEFINE O == {o \in Object : player[p] = o /\ client[o] = p}
<1>1. /\ BodyType /\ ClientsAgree /\ Counted /\ Existing /\ Apart /\ Once
  BY DEF SessionInv, Body
<1>2. /\ client' = [o \in Object |-> IF o \in O THEN None ELSE client[o]]
      /\ player' = [player EXCEPT ![p] = IF O = {} THEN @ ELSE None]
      /\ refs' = [o \in Object |-> IF o \in O THEN refs[o] - 1 ELSE refs[o]]
      /\ who' = [o \in Object |-> IF o \in O /\ refs[o] = 1 THEN None ELSE who[o]]
      /\ ingame' = ingame /\ thinking' = thinking /\ toRelease' = toRelease
  BY DEF Release, Returned, Deleted
<1>3. O = IF player[p] = None THEN {} ELSE {player[p]}
  BY <1>1, SessionAssumption DEF BodyType, ClientsAgree, Object
<1>4. \A o \in O : client[o] = p /\ o \in Object
  OBVIOUS
<1> HIDE DEF O
<1>5. /\ player' = [player EXCEPT ![p] = None]
      /\ \A o \in Object : client'[o] = IF o \in O THEN None ELSE client[o]
      /\ \A o \in Object : refs'[o] = IF o \in O THEN refs[o] - 1 ELSE refs[o]
      /\ \A o \in Object : who'[o] = IF o \in O /\ refs[o] = 1 THEN None ELSE who[o]
  BY <1>1, <1>2, <1>3 DEF BodyType
<1>6. BodyType'
  BY <1>1, <1>2, <1>5 DEF BodyType, Object
<1>7. ClientsAgree'
  BY <1>1, <1>3, <1>4, <1>5, SessionAssumption DEF ClientsAgree, BodyType, Object
<1>8. ASSUME NEW o \in Object
      PROVE  /\ refs'[o] = One(client'[o] # None) + One(o \in ingame') + One(o \in toRelease')
                             + One(o \in thinking')
             /\ who'[o] = None <=> refs'[o] = 0
             /\ o \in ingame => who'[o] = who[o]
  <2>1. refs[o] = One(client[o] # None) + One(o \in ingame) + One(o \in toRelease) + One(o \in thinking)
    BY <1>1 DEF Counted
  <2>2. who[o] = None <=> refs[o] = 0
    BY <1>1 DEF Existing
  <2>3. CASE o \in O
    BY <1>2, <1>4, <1>5, <2>1, <2>2, <2>3, SessionAssumption DEF One
  <2>4. CASE o \notin O
    BY <1>2, <1>5, <2>1, <2>2, <2>4 DEF One
  <2> QED
    BY <2>3, <2>4
<1>9. Counted' /\ Existing' /\ Apart' /\ Once'
  BY <1>1, <1>2, <1>8 DEF Counted, Existing, Apart, Once, BodyType
<1> QED
  BY <1>1, <1>5, <1>6, <1>7, <1>9 DEF Body, BodyType

\* Who leaves the game waits to be released instead.
LEMMA RemoveKeeps ==
  ASSUME SessionInv, NEW o \in Object, RemoveCreature(o)
  PROVE  Body'
<1>1. /\ BodyType /\ ClientsAgree /\ Counted /\ Existing /\ Apart /\ Once
  BY DEF SessionInv, Body
<1>2. /\ o \in ingame /\ ingame' = ingame \ {o} /\ toRelease' = toRelease \cup {o}
      /\ UNCHANGED <<player, who, client, refs, thinking>>
  BY DEF RemoveCreature
<1>3. Counted'
  <2> SUFFICES ASSUME NEW x \in Object
               PROVE  refs'[x] = One(client'[x] # None) + One(x \in ingame') + One(x \in toRelease')
                                   + One(x \in thinking')
    BY DEF Counted
  <2>1. refs[x] = One(client[x] # None) + One(x \in ingame) + One(x \in toRelease) + One(x \in thinking)
    BY <1>1 DEF Counted
  <2> QED
    BY <1>1, <1>2, <2>1 DEF One, Apart
<1> QED
  BY <1>1, <1>2, <1>3 DEF Body, BodyType, ClientsAgree, Existing, Apart, Once

\* The check and the cleanup after it give back one reference each.
LEMMA CheckKeeps ==
  ASSUME SessionInv, CheckCreatures
  PROVE  Body' /\ \A o \in Object : who[o] = None => who'[o] = None
<1>1. /\ BodyType /\ ClientsAgree /\ Counted /\ Existing /\ Apart /\ Once
  BY DEF SessionInv, Body
<1> DEFINE left(O) == [o \in Object |-> refs[o] - Cardinality({o} \cap toRelease)
                                               - Cardinality({o} \cap O)]
<1>2. PICK O \in SUBSET (thinking \ ingame) :
        /\ thinking' = thinking \ O /\ toRelease' = {} /\ refs' = left(O)
        /\ who' = [o \in Object |-> IF o \in {x \in O \cup toRelease : left(O)[x] = 0}
                                      THEN None ELSE who[o]]
        /\ UNCHANGED <<player, ingame, client>>
  BY DEF CheckCreatures
<1>3. ASSUME NEW o, NEW S PROVE Cardinality({o} \cap S) = One(o \in S)
  <2>1. {o} \cap S = IF o \in S THEN {o} ELSE {}
    OBVIOUS
  <2> QED
    BY <2>1, FS_EmptySet, FS_Singleton DEF One
<1>4. \A o \in Object : refs'[o] = refs[o] - One(o \in toRelease) - One(o \in O)
  BY <1>2, <1>3
<1>5. \A o \in Object :
        who'[o] = IF o \in O \cup toRelease /\ refs'[o] = 0 THEN None ELSE who[o]
  BY <1>1, <1>2 DEF BodyType
<1>6. BodyType'
  <2>1. refs' \in [Object -> Int]
    <3>1. \A o \in Object : refs[o] - One(o \in toRelease) - One(o \in O) \in Int
      BY <1>1 DEF BodyType, One
    <3> QED
      BY <1>2, <1>4, <3>1
  <2> QED
    BY <1>1, <1>2, <2>1 DEF BodyType
<1>7. ASSUME NEW o \in Object
      PROVE  /\ refs'[o] = One(client'[o] # None) + One(o \in ingame') + One(o \in toRelease')
                             + One(o \in thinking')
             /\ who'[o] = None <=> refs'[o] = 0
             /\ o \in ingame => who'[o] = who[o]
  <2>1. refs[o] = One(client[o] # None) + One(o \in ingame) + One(o \in toRelease) + One(o \in thinking)
    BY <1>1 DEF Counted
  <2>2. who[o] = None <=> refs[o] = 0
    BY <1>1 DEF Existing
  <2>3. o \in O => o \in thinking /\ o \notin ingame
    BY <1>2
  <2>4. o \in toRelease => o \notin ingame
    BY <1>1 DEF Apart
  <2> QED
    BY <1>2, <1>4, <1>5, <2>1, <2>2, <2>3, <2>4 DEF One
<1>8. ClientsAgree'
  BY <1>1, <1>2 DEF ClientsAgree
<1> QED
  BY <1>1, <1>2, <1>5, <1>6, <1>7, <1>8 DEF Body, Counted, Existing, Apart, Once, BodyType

-----------------------------------------------------------------------------
(* The tasks, for the protocols *)

\* The task of login, whatever comes of it: the protocol may get the player o
\* or wait for an event of connect(), not both.
LEMMA LoginNet ==
  ASSUME SessionInv, NEW p \in Protocol, Begin(p), NetType', Sending',
         buffered' \subseteq buffered \cup {p},
         \A q \in Protocol : conn[q] # "open" => conn'[q] # "open",
         \A q \in Protocol \ {p} : player'[q] = player[q] /\ event'[q] = event[q] /\ who'[q] = who[q],
         event'[p] = None \/ player'[p] = None
  PROVE  Net'
<1>1. /\ NetType /\ Begun /\ Waiting /\ Done
  BY DEF SessionInv, Net
<1>2. /\ stage[p] = "posted" /\ stage' = [stage EXCEPT ![p] = "ran"]
      /\ asks' = asks /\ released' = released
  BY DEF Begin
<1>3. stage'[p] = "ran" /\ \A q \in Protocol \ {p} : stage'[q] = stage[q]
  BY <1>1, <1>2 DEF NetType
<1>4. Begun'
  BY <1>1, <1>2, <1>3 DEF Begun
<1>5. Waiting'
  BY <1>1 DEF Waiting
<1>6. Done'
  BY <1>1, <1>2, <1>3 DEF Done, NetType
<1> QED
  BY <1>4, <1>5, <1>6 DEF Net

\* addProtocolToAutosend starts a chain for the first protocol.
LEMMA AddSends ==
  ASSUME SessionInv, NEW p \in Protocol, AddToAutosend(p)
  PROVE  /\ buffered' \in SUBSET Protocol /\ chains' \in Nat
         /\ buffered' = buffered \cup {p} /\ Sending'
BY DEF SessionInv, Net, NetType, AddToAutosend, Sending

\* Disconnecting closes what is open.
LEMMA DisconnectCloses ==
  ASSUME SessionInv, NEW P, Disconnect(P)
  PROVE  /\ conn' \in [Protocol -> {"open", "closed", "gone"}]
         /\ \A q \in Protocol : conn[q] # "open" => conn'[q] # "open"
BY DEF SessionInv, Net, NetType, Disconnect, Closed

\* What Net says is kept where only what follows changes, and so far.
LEMMA NetKeeps ==
  ASSUME SessionInv, UNCHANGED <<stage, asks, released, chains>>,
         buffered' = buffered,
         conn' \in [Protocol -> {"open", "closed", "gone"}],
         event' \in [Protocol -> Protocol \cup {None}],
         \A q \in Protocol : conn[q] # "open" => conn'[q] # "open",
         \A q \in Protocol : stage[q] # "ran" =>
            who'[q] = None /\ player'[q] = None /\ event'[q] = None,
         \A q \in Protocol : event'[q] # None => player'[q] = None
  PROVE  Net'
<1>1. /\ NetType /\ Begun /\ Waiting /\ Done /\ Sending
  BY DEF SessionInv, Net
<1>2. NetType' /\ Begun' /\ Waiting' /\ Sending'
  BY <1>1 DEF NetType, Begun, Waiting, Sending
<1>3. Done'
  BY <1>1 DEF Done, NetType
<1> QED
  BY <1>2, <1>3 DEF Net

-----------------------------------------------------------------------------
(* All steps *)

\* Nothing has happened yet.
LEMMA InitInv == Init => SessionInv
<1> SUFFICES ASSUME Init PROVE SessionInv
  OBVIOUS
<1>1. BodyType /\ ClientsAgree /\ Existing /\ Apart /\ Once
  BY SessionAssumption DEF Init, BodyType, ClientsAgree, Existing, Apart, Once, Object
<1>2. Counted
  BY DEF Init, Counted, One
<1>3. NetType /\ Begun /\ Waiting /\ Done /\ Sending
  BY DEF Init, NetType, Begun, Waiting, Done, Sending, Object
<1> QED
  BY <1>1, <1>2, <1>3 DEF SessionInv, Body, Net

\* Steps that leave the Player objects alone.
LEMMA BodyUnchanged ==
  ASSUME SessionInv, UNCHANGED <<player, who, ingame, client, refs, thinking, toRelease>>
  PROVE  Body'
BY DEF SessionInv, Body, BodyType, ClientsAgree, Counted, Existing, Apart, Once

\* The tasks of login().
LEMMA LoginInv ==
  ASSUME SessionInv, NEW p \in Protocol,
         LoginRefused(p) \/ LoginWaits(p) \/ LoginEnters(p) \/ LoginConnects(p) \/ LoginReplaces(p)
  PROVE  SessionInv'
<1> USE DEF Object
<1>1. /\ BodyType /\ NetType /\ Begun /\ Sending
  BY DEF SessionInv, Body, Net
<1>2. /\ Begin(p) /\ stage[p] = "posted" /\ stage' = [stage EXCEPT ![p] = "ran"]
      /\ asks' = asks /\ released' = released
  BY DEF LoginRefused, LoginWaits, LoginEnters, LoginConnects, LoginReplaces, Begin
<1>3. player[p] = None /\ event[p] = None /\ asks[p] \in Character
  BY <1>1, <1>2 DEF Begun
<1>4. CASE LoginRefused(p) \/ LoginWaits(p)
  <2>1. /\ NewPlayer(p, 1) /\ Disconnect({p})
        /\ UNCHANGED <<ingame, thinking, buffered, chains>>
    BY <1>4 DEF LoginRefused, LoginWaits, sendVars
  <2>2. Body'
    BY <1>2, <2>1, NewPlayerKeeps
  <2>3. /\ event' = event /\ who' = [who EXCEPT ![p] = asks[p]]
        /\ player' = [player EXCEPT ![p] = p]
    BY <2>1 DEF NewPlayer
  <2>4. NetType' /\ Sending' /\ \A q \in Protocol : conn[q] # "open" => conn'[q] # "open"
    BY <1>1, <1>2, <2>1, <2>3, DisconnectCloses DEF NetType, Sending
  <2>5. Net'
    BY <1>1, <1>2, <1>3, <2>1, <2>3, <2>4, LoginNet DEF BodyType
  <2> QED
    BY <2>2, <2>5 DEF SessionInv
<1>5. CASE LoginEnters(p)
  <2>1. /\ NewPlayer(p, 3) /\ conn' = conn /\ AddToAutosend(p)
        /\ ingame' = ingame \cup {p} /\ thinking' = thinking \cup {p}
    BY <1>5 DEF LoginEnters
  <2>2. Body'
    BY <1>2, <2>1, NewPlayerKeeps
  <2>3. /\ event' = event /\ who' = [who EXCEPT ![p] = asks[p]]
        /\ player' = [player EXCEPT ![p] = p]
    BY <2>1 DEF NewPlayer
  <2>4. NetType' /\ Sending' /\ buffered' = buffered \cup {p}
    BY <1>1, <1>2, <2>1, <2>3, AddSends DEF NetType
  <2>5. Net'
    BY <1>1, <1>2, <1>3, <2>1, <2>3, <2>4, LoginNet DEF BodyType
  <2> QED
    BY <2>2, <2>5 DEF SessionInv
<1>6. CASE LoginConnects(p)
  <2>1. ConnectTo(p, asks[p]) /\ AddToAutosend(p) /\ event' = event
    BY <1>6 DEF LoginConnects
  <2>2. Body'
    BY <1>3, <2>1, ConnectKeeps
  <2>3. /\ who' = who /\ \A q \in Protocol \ {p} : player'[q] = player[q]
        /\ \E P : Disconnect(P)
    BY <1>1, <2>1 DEF ConnectTo, BodyType
  <2>4. /\ NetType' /\ Sending' /\ buffered' = buffered \cup {p}
        /\ \A q \in Protocol : conn[q] # "open" => conn'[q] # "open"
    BY <1>1, <1>2, <2>1, <2>3, AddSends, DisconnectCloses DEF NetType
  <2>5. Net'
    BY <1>1, <1>2, <1>3, <2>1, <2>3, <2>4, LoginNet
  <2> QED
    BY <2>2, <2>5 DEF SessionInv
<1>7. CASE LoginReplaces(p)
  <2>1. PICK o \in Found(asks[p]) : /\ client[o] # None /\ Disconnect({client[o]})
                                    /\ event' = [event EXCEPT ![p] = client[o]]
    BY <1>7 DEF LoginReplaces
  <2>2. /\ AddToAutosend(p)
        /\ UNCHANGED <<player, who, ingame, client, refs, thinking, toRelease>>
    BY <1>7 DEF LoginReplaces
  <2>3. Body'
    BY <2>2, BodyUnchanged
  <2>4. client[o] \in Protocol
    BY <1>1, <2>1 DEF Found, BodyType
  <2>5. /\ NetType' /\ Sending' /\ buffered' = buffered \cup {p}
        /\ \A q \in Protocol : conn[q] # "open" => conn'[q] # "open"
    BY <1>1, <1>2, <2>1, <2>2, <2>4, AddSends, DisconnectCloses DEF NetType
  <2>6. \A q \in Protocol \ {p} : event'[q] = event[q]
    BY <1>1, <2>1 DEF NetType
  <2>7. Net'
    BY <1>1, <1>2, <1>3, <2>2, <2>5, <2>6, LoginNet
  <2> QED
    BY <2>3, <2>7 DEF SessionInv
<1> QED
  BY <1>4, <1>5, <1>6, <1>7

\* connect() and the ends of connections and of players.
LEMMA OtherInv ==
  ASSUME SessionInv, NEW p \in Protocol,
         Connect(p) \/ Close(p) \/ Destroy(p) \/ Release(p)
  PROVE  SessionInv'
<1> USE DEF Object
<1>1. /\ BodyType /\ NetType /\ Begun /\ Waiting /\ Done /\ Sending
  BY DEF SessionInv, Body, Net
<1>2. CASE Connect(p)
  <2>1. /\ event[p] \in released /\ event' = [event EXCEPT ![p] = None]
        /\ ConnectTo(p, asks[p])
        /\ UNCHANGED <<stage, asks, released, buffered, chains>>
    BY <1>2 DEF Connect, sendVars
  <2>2. event[p] # None /\ event[p] \in Protocol
    BY <1>1, <2>1, SessionAssumption DEF NetType
  <2>3. stage[p] = "ran" /\ player[p] = None /\ asks[p] \in Character
    BY <1>1, <2>2 DEF Begun, Waiting
  <2>4. Body'
    BY <2>1, <2>3, ConnectKeeps
  <2>5. /\ who' = who /\ \A q \in Protocol \ {p} : player'[q] = player[q]
        /\ \E P : Disconnect(P)
    BY <1>1, <2>1 DEF ConnectTo, BodyType
  <2>6. /\ conn' \in [Protocol -> {"open", "closed", "gone"}]
        /\ \A q \in Protocol : conn[q] # "open" => conn'[q] # "open"
    BY <2>5, DisconnectCloses
  <2>7. /\ event' \in [Protocol -> Protocol \cup {None}] /\ event'[p] = None
        /\ \A q \in Protocol \ {p} : event'[q] = event[q]
    BY <1>1, <2>1 DEF NetType
  <2>8. Net'
    BY <1>1, <2>1, <2>3, <2>5, <2>6, <2>7, NetKeeps DEF Begun, Waiting
  <2> QED
    BY <2>4, <2>8 DEF SessionInv
<1>3. CASE Close(p) \/ Destroy(p)
  <2>1. /\ UNCHANGED <<stage, asks, released, bodyVars, buffered, chains>>
        /\ conn' \in [Protocol -> {"open", "closed", "gone"}]
        /\ \A q \in Protocol : conn[q] # "open" => conn'[q] # "open"
    BY <1>1, <1>3, DisconnectCloses DEF Close, Destroy, NetType, sendVars
  <2>2. Body'
    BY <2>1, BodyUnchanged DEF bodyVars
  <2>3. Net'
    BY <1>1, <2>1, NetKeeps DEF bodyVars, NetType, Begun, Waiting
  <2> QED
    BY <2>2, <2>3 DEF SessionInv
<1>4. CASE Release(p)
  <2>1. /\ conn[p] # "open" /\ stage[p] # "posted" /\ released' = released \cup {p}
        /\ buffered' = buffered \ {p}
        /\ UNCHANGED <<stage, asks, conn, event, chains>>
    BY <1>4 DEF Release
  <2>2. /\ Body' /\ player'[p] = None
        /\ \A q \in Protocol \ {p} : player'[q] = player[q]
        /\ \A o \in Object : who[o] = None => who'[o] = None
    BY <1>4, ReleaseKeeps
  <2>3. NetType' /\ Begun' /\ Waiting' /\ Done' /\ Sending'
    BY <1>1, <2>1, <2>2 DEF NetType, Begun, Waiting, Done, Sending
  <2> QED
    BY <2>2, <2>3 DEF SessionInv, Net
<1> QED
  BY <1>2, <1>3, <1>4

\* Players who leave the game.
LEMMA LeaveInv ==
  ASSUME SessionInv, NEW o \in Object, RemoveCreature(o), UNCHANGED conn \/ \E P : Disconnect(P)
  PROVE  SessionInv'
<1>1. NetType /\ Begun /\ Waiting
  BY DEF SessionInv, Net
<1>2. UNCHANGED <<stage, asks, released, buffered, chains, player, who, event>>
  BY DEF RemoveCreature, sendVars
<1>3. /\ conn' \in [Protocol -> {"open", "closed", "gone"}]
      /\ \A q \in Protocol : conn[q] # "open" => conn'[q] # "open"
  BY <1>1, DisconnectCloses DEF NetType
<1>4. Net'
  BY <1>1, <1>2, <1>3, NetKeeps DEF NetType, Begun, Waiting
<1> QED
  BY <1>4, RemoveKeeps DEF SessionInv

\* Every step of Session.
LEMMA NextInv == SessionInv /\ [Next]_vars => SessionInv'
<1> SUFFICES ASSUME SessionInv, [Next]_vars PROVE SessionInv'
  OBVIOUS
<1>1. BodyType /\ NetType /\ Begun /\ Waiting /\ Done /\ Sending
  BY DEF SessionInv, Body, Net
<1>2. ASSUME NEW p \in Protocol, NEW c \in Character, FirstMessage(p, c)
      PROVE  SessionInv'
  <2>1. /\ stage[p] = "new" /\ conn[p] = "open" /\ stage' = [stage EXCEPT ![p] = "posted"]
        /\ asks' = [asks EXCEPT ![p] = c]
        /\ UNCHANGED <<conn, released, bodyVars, buffered, chains>>
    BY <1>2 DEF FirstMessage, sendVars
  <2>2. Body'
    BY <2>1, BodyUnchanged DEF bodyVars
  <2>3. NetType' /\ Begun' /\ Waiting' /\ Done' /\ Sending'
    BY <1>1, <2>1 DEF bodyVars, NetType, Begun, Waiting, Done, Sending
  <2> QED
    BY <2>2, <2>3 DEF SessionInv, Net
<1>3. ASSUME NEW p \in Protocol, Logout(p)
      PROVE  SessionInv'
  <2>1. player[p] \in Object /\ RemoveCreature(player[p]) /\ Disconnect({p})
    BY <1>1, <1>3 DEF Logout, BodyType
  <2> QED
    BY <2>1, LeaveInv
<1>4. ASSUME NEW o \in Object, Kick(o) \/ PingOut(o) \/ Die(o)
      PROVE  SessionInv'
  BY <1>4, LeaveInv DEF Kick, PingOut, Die
<1>5. CASE CheckCreatures
  <2>1. /\ Body' /\ \A o \in Object : who[o] = None => who'[o] = None
    BY <1>5, CheckKeeps
  <2>2. UNCHANGED <<stage, asks, conn, released, player, event, buffered, chains>>
    BY <1>5 DEF CheckCreatures, netVars, sendVars
  <2>3. Net'
    BY <1>1, <2>1, <2>2, NetKeeps DEF NetType, Begun, Waiting, Object
  <2> QED
    BY <2>1, <2>3 DEF SessionInv
<1>6. CASE SendAll \/ UNCHANGED vars
  <2>1. /\ UNCHANGED <<netVars, bodyVars, buffered>>
        /\ chains' = chains \/ (buffered = {} /\ chains' \in Nat)
    BY <1>1, <1>6 DEF SendAll, vars, sendVars, NetType
  <2>2. Body'
    BY <2>1, BodyUnchanged DEF bodyVars
  <2>3. NetType' /\ Begun' /\ Waiting' /\ Done' /\ Sending'
    BY <1>1, <2>1 DEF netVars, bodyVars, NetType, Begun, Waiting, Done, Sending
  <2> QED
    BY <2>2, <2>3 DEF SessionInv, Net
<1> QED
  BY <1>2, <1>3, <1>4, <1>5, <1>6, LoginInv, OtherInv DEF Next

-----------------------------------------------------------------------------
(* What the invariant is for *)

\* The invariant says with sets what PlayersSound counts.
LEMMA SessionSound == SessionInv => PlayersSound
<1> SUFFICES ASSUME SessionInv PROVE PlayersSound
  OBVIOUS
<1>1. /\ BodyType /\ ClientsAgree /\ Counted /\ Existing /\ Once
  BY DEF SessionInv, Body
<1>2. ASSUME NEW o, NEW S
      PROVE  Cardinality({o} \cap S) = One(o \in S)
  <2>1. {o} \cap S = IF o \in S THEN {o} ELSE {}
    OBVIOUS
  <2> QED
    BY <2>1, FS_EmptySet, FS_Singleton DEF One
<1>3. ASSUME NEW o \in Object
      PROVE  Cardinality({p \in Protocol : player[p] = o}) = One(client[o] # None)
  <2>1. {p \in Protocol : player[p] = o} = IF client[o] # None THEN {client[o]} ELSE {}
    BY <1>1, SessionAssumption DEF BodyType, ClientsAgree
  <2> QED
    BY <2>1, FS_EmptySet, FS_Singleton DEF One
<1>4. ReferencesExact
  <2> SUFFICES ASSUME NEW o \in Object
               PROVE  /\ refs[o] = Cardinality({p \in Protocol : player[p] = o})
                                     + Cardinality({o} \cap ingame)
                                     + Cardinality({o} \cap toRelease)
                                     + Cardinality({o} \cap thinking)
                      /\ who[o] = None <=> refs[o] = 0
    BY DEF ReferencesExact
  <2> QED
    BY <1>1, <1>2, <1>3 DEF Counted, Existing
<1>5. ASSUME NEW c \in Character
      PROVE  Cardinality(Found(c)) <= 1
  <2>1. CASE Found(c) = {}
    BY <2>1, FS_EmptySet
  <2>2. CASE Found(c) # {}
    <3>1. PICK o \in Found(c) : TRUE
      BY <2>2
    <3>2. \A x \in Found(c) : x \in ingame /\ who[x] = c
      BY DEF Found
    <3>3. \A x \in Found(c) : x = o
      BY <1>1, <3>1, <3>2 DEF Once
    <3>4. Found(c) = {o}
      BY <3>1, <3>3
    <3>5. Cardinality(Found(c)) = 1
      BY <3>4, FS_Singleton
    <3> QED
      BY <3>5
  <2> QED
    BY <2>1, <2>2
<1> QED
  BY <1>1, <1>4, <1>5 DEF PlayersSound

\* And what OutputServed says is part of it.
LEMMA SessionServed == SessionInv => OutputServed
BY DEF SessionInv, Net, Sending, Done, OutputServed

-----------------------------------------------------------------------------
(* The channels *)

ChatInv == SessionInv /\ ChatTypeOK /\ HearersInGame /\ PrivateStaysPrivate

\* A player in the game exists.
LEMMA InGame ==
  ASSUME Body, NEW o \in ingame
  PROVE  o \in Object /\ who[o] \in Character
<1>1. o \in Object /\ who[o] \in Character \cup {None}
  BY DEF Body, BodyType
<1> QED
  BY <1>1, Missing

\* Nobody becomes another, and who stays in the game stays who he is.
LEMMA Staying ==
  ASSUME SessionInv, SessionInv', [Next]_vars, NEW o \in ingame, o \in ingame'
  PROVE  who'[o] = who[o]
<1> USE DEF Object
<1>1. who[o] \in Character /\ who'[o] \in Character /\ o \in Object
  <2>1. who[o] \in Character /\ o \in Object
    BY InGame DEF SessionInv
  <2>2. /\ who'[o] \in Character \cup {None}
        /\ who'[o] = None <=> refs'[o] = 0
        /\ refs'[o] = One(client'[o] # None) + 1 + One(o \in toRelease') + One(o \in thinking')
    BY <2>1 DEF SessionInv, Body, BodyType, Counted, Existing, One
  <2> QED
    BY <2>1, <2>2 DEF One
<1>2. BodyType /\ NetType /\ Begun
  BY DEF SessionInv, Body, Net
<1>3. ASSUME NEW p \in Protocol, Begin(p)
      PROVE  who[p] = None
  BY <1>2, <1>3 DEF Begin, Begun
<1>4. ASSUME NEW p \in Protocol,
             LoginRefused(p) \/ LoginWaits(p) \/ LoginEnters(p)
      PROVE  who'[o] = who[o]
  <2>1. Begin(p) /\ who' = [who EXCEPT ![p] = asks[p]]
    BY <1>4 DEF LoginRefused, LoginWaits, LoginEnters, NewPlayer
  <2> QED
    BY <1>1, <1>2, <1>3, <2>1, SessionAssumption DEF BodyType
<1>5. ASSUME NEW p \in Protocol, Release(p)
      PROVE  who'[o] = who[o]
  <2>1. who'[o] \in {None, who[o]}
    BY <1>1, <1>2, <1>5 DEF Release, Deleted, BodyType
  <2> QED
    BY <1>1, <2>1, SessionAssumption
<1>6. CASE CheckCreatures
  <2>1. who'[o] \in {None, who[o]}
    BY <1>1, <1>2, <1>6 DEF CheckCreatures, BodyType
  <2> QED
    BY <1>1, <2>1, SessionAssumption
<1>7. ASSUME who' = who
      PROVE  who'[o] = who[o]
  BY <1>7
<1>8. ASSUME NEW p \in Protocol,
             \/ \E c \in Character : FirstMessage(p, c)
             \/ LoginConnects(p) \/ LoginReplaces(p) \/ Connect(p)
             \/ Close(p) \/ Destroy(p) \/ Logout(p)
      PROVE  who' = who
  BY <1>8 DEF FirstMessage, LoginConnects, LoginReplaces, Connect, ConnectTo, Close, Destroy,
              Logout, RemoveCreature, bodyVars
<1>9. ASSUME NEW x \in Object, Kick(x) \/ PingOut(x) \/ Die(x)
      PROVE  who' = who
  BY <1>9 DEF Kick, PingOut, Die, RemoveCreature
<1>10. CASE SendAll \/ UNCHANGED vars
  BY <1>10 DEF SendAll, vars, bodyVars
<1> QED
  BY <1>4, <1>5, <1>6, <1>7, <1>8, <1>9, <1>10 DEF Next

\* A step of Session, after which some characters leave their channels.
LEMMA SessionStepInv ==
  ASSUME ChatInv, SessionInv', SessionStep
  PROVE  ChatInv'
<1> DEFINE C == {who[o] : o \in (ingame \ ingame') \cup
                    {x \in ingame : client[x] = None /\ client'[x] # None}}
           ends == {h \in Private : owner[h] \in C}
<1>1. /\ SessionInv /\ ChatTypeOK /\ HearersInGame /\ PrivateStaysPrivate
      /\ Next /\ LeaveAllChannels(C)
  BY DEF ChatInv, SessionStep
<1>2. /\ users' = [h \in Channel |-> IF h \in ends THEN Nobody
                     ELSE [c \in Character |-> IF c \in C THEN None ELSE users[h][c]]]
      /\ invites' = [h \in Private |-> IF h \in ends THEN Nobody
                       ELSE [c \in Character |-> IF c \in C THEN None ELSE invites[h][c]]]
      /\ owner' = [h \in Private |-> IF h \in ends THEN None ELSE owner[h]]
  BY <1>1 DEF LeaveAllChannels
<1>3. ASSUME NEW c \in Character, c \notin C, NEW o \in Found(c)
      PROVE  o \in Found(c)'
  <2>1. o \in ingame /\ who[o] = c
    BY <1>3 DEF Found
  <2>2. o \in ingame'
    BY <1>3, <2>1
  <2>3. who'[o] = c
    BY <1>1, <2>1, <2>2, Staying
  <2> QED
    BY <2>2, <2>3 DEF Found
<1> HIDE DEF C
<1>4. \A h \in Private : h \in Channel
  BY DEF Channel
<1>5. Nobody \in [Character -> Object \cup {None}] /\ \A c \in Character : Nobody[c] = None
  BY DEF Nobody
<1>6. ChatTypeOK'
  <2>1. \A h \in Channel : users'[h] \in [Character -> Object \cup {None}]
    BY <1>1, <1>2, <1>5 DEF ChatTypeOK
  <2>2. \A h \in Private : invites'[h] \in [Character -> Object \cup {None}]
    BY <1>1, <1>2, <1>5 DEF ChatTypeOK
  <2>3. owner' \in [Private -> Character \cup {None}]
    BY <1>1, <1>2 DEF ChatTypeOK
  <2> QED
    BY <1>2, <2>1, <2>2, <2>3 DEF ChatTypeOK
<1>7. ASSUME NEW h \in Channel, NEW c \in Character
      PROVE  /\ users'[h][c] = IF h \in ends \/ c \in C THEN None ELSE users[h][c]
             /\ h \in Private =>
                  invites'[h][c] = IF h \in ends \/ c \in C THEN None ELSE invites[h][c]
  BY <1>2, <1>5
<1>8. HearersInGame'
  <2>1. ASSUME NEW h \in Channel, NEW c \in In(users'[h])
        PROVE  users'[h][c] \in Found(c)'
    <3>1. c \in Character /\ users'[h][c] # None
      BY <2>1 DEF In
    <3>2. c \notin C /\ users'[h][c] = users[h][c] /\ c \in In(users[h])
      BY <1>7, <3>1 DEF In
    <3> QED
      BY <1>1, <1>3, <3>1, <3>2 DEF HearersInGame
  <2>2. ASSUME NEW h \in Private, NEW c \in In(invites'[h])
        PROVE  invites'[h][c] \in Found(c)'
    <3>1. c \in Character /\ invites'[h][c] # None
      BY <2>2 DEF In
    <3>2. c \notin C /\ invites'[h][c] = invites[h][c] /\ c \in In(invites[h])
      BY <1>4, <1>7, <3>1 DEF In
    <3> QED
      BY <1>1, <1>3, <3>1, <3>2 DEF HearersInGame
  <2> QED
    BY <2>1, <2>2 DEF HearersInGame
<1>9. PrivateStaysPrivate'
  <2> SUFFICES ASSUME NEW h \in Private
               PROVE  /\ In(users'[h]) \subseteq Invited(h)'
                      /\ owner'[h] = None => In(invites'[h]) = {}
                      /\ \A c \in Character : c = owner'[h] => Found(c)' # {} /\ Own(c)' = {h}
    BY <1>6 DEF PrivateStaysPrivate, ChatTypeOK
  <2>1. /\ In(users[h]) \subseteq In(invites[h]) \cup {owner[h]}
        /\ owner[h] = None => In(invites[h]) = {}
        /\ owner[h] # None => Found(owner[h]) # {} /\ Own(owner[h]) = {h}
        /\ owner[h] \in Character \cup {None}
    BY <1>1 DEF PrivateStaysPrivate, Invited, ChatTypeOK
  <2>2. CASE h \in ends
    <3>1. In(users'[h]) = {} /\ In(invites'[h]) = {} /\ owner'[h] = None
      BY <1>2, <1>4, <1>7, <2>2 DEF In
    <3> QED
      BY <3>1, SessionAssumption
  <2>3. CASE h \notin ends
    <3>1. owner'[h] = owner[h] /\ owner[h] \notin C
      BY <1>2, <2>3
    <3>2. In(users'[h]) = In(users[h]) \ C /\ In(invites'[h]) = In(invites[h]) \ C
      BY <1>4, <1>7, <2>3 DEF In
    <3>3. In(users'[h]) \subseteq Invited(h)'
      BY <2>1, <3>1, <3>2 DEF Invited
    <3>4. ASSUME NEW c \in Character, c = owner'[h]
          PROVE  Found(c)' # {} /\ Own(c)' = {h}
      <4>1. c = owner[h] /\ c # None /\ Found(c) # {} /\ Own(c) = {h}
        BY <2>1, <3>1, <3>4, SessionAssumption
      <4>2. Found(c)' # {}
        BY <1>3, <3>1, <4>1
      <4>3. Own(c)' = {h}
        BY <1>2, <3>1, <4>1 DEF Own
      <4> QED
        BY <4>2, <4>3
    <3> QED
      BY <2>1, <3>1, <3>2, <3>3, <3>4
  <2> QED
    BY <2>2, <2>3
<1> QED
  BY <1>6, <1>8, <1>9 DEF ChatInv

\* A map of a channel leads to players in the game, under their characters.
MapFine(map) ==
  /\ map \in [Character -> Object \cup {None}]
  /\ \A c \in Character : map[c] # None => map[c] \in Found(c)

\* The channel h may have the users u, the invitations v and the owner w.
PrivateFine(h, u, v, w) ==
  /\ MapFine(v) /\ w \in Character \cup {None}
  /\ \A c \in Character : u[c] # None => v[c] # None \/ c = w
  /\ w = None => \A c \in Character : v[c] = None
  /\ w # None => Found(w) # {} /\ Own(w) \subseteq {h}

\* Only the channel h changes.
Changed(h, u, v, w) ==
  /\ users' = [users EXCEPT ![h] = u]
  /\ IF h \in Private
       THEN /\ invites' = [invites EXCEPT ![h] = v]
            /\ owner' = [owner EXCEPT ![h] = w]
       ELSE UNCHANGED <<invites, owner>>

\* Entries of players in the game may be made, and any may be removed.
LEMMA MapChanges ==
  ASSUME SessionInv, NEW map, MapFine(map)
  PROVE  /\ \A o \in ingame : MapFine([map EXCEPT ![who[o]] = o])
         /\ \A c \in Character : MapFine([map EXCEPT ![c] = None])
<1>1. ASSUME NEW o \in ingame
      PROVE  MapFine([map EXCEPT ![who[o]] = o])
  <2>1. o \in Object /\ who[o] \in Character /\ o \in Found(who[o])
    BY InGame DEF SessionInv, Found
  <2> QED
    BY <2>1 DEF MapFine
<1>2. ASSUME NEW c \in Character
      PROVE  MapFine([map EXCEPT ![c] = None])
  BY DEF MapFine
<1> QED
  BY <1>1, <1>2

\* What the invariant says of one channel.
LEMMA ChannelParts ==
  ASSUME ChatInv, NEW h \in Channel
  PROVE  /\ MapFine(users[h])
         /\ h \in Private => PrivateFine(h, users[h], invites[h], owner[h])
<1>1. ChatTypeOK /\ HearersInGame /\ PrivateStaysPrivate
  BY DEF ChatInv
<1>2. MapFine(users[h])
  BY <1>1 DEF ChatTypeOK, HearersInGame, MapFine, In
<1>3. ASSUME h \in Private
      PROVE  PrivateFine(h, users[h], invites[h], owner[h])
  <2>1. MapFine(invites[h])
    BY <1>1, <1>3 DEF ChatTypeOK, HearersInGame, MapFine, In
  <2> QED
    BY <1>1, <1>3, <2>1 DEF ChatTypeOK, PrivateStaysPrivate, PrivateFine, Invited, In
<1> QED
  BY <1>2, <1>3

\* A channel that changes as it may keeps the invariant.
LEMMA ChangedKeeps ==
  ASSUME ChatInv, NEW h \in Channel, NEW u, NEW v, NEW w, Changed(h, u, v, w), MapFine(u),
         h \in Private => PrivateFine(h, u, v, w), UNCHANGED <<who, ingame>>
  PROVE  ChatTypeOK' /\ HearersInGame' /\ PrivateStaysPrivate'
<1>1. /\ ChatTypeOK /\ \A g \in Private : g \in Channel
      /\ \A g \in Private, c \in Character : owner[g] = c => Own(c) = {g}
  BY SessionAssumption DEF ChatInv, Channel, PrivateStaysPrivate
<1>2. \A c \in Character : Found(c)' = Found(c)
  BY DEF Found
<1>3. /\ users'[h] = u /\ \A g \in Channel \ {h} : users'[g] = users[g]
      /\ h \in Private => invites'[h] = v /\ owner'[h] = w
      /\ \A g \in Private \ {h} : invites'[g] = invites[g] /\ owner'[g] = owner[g]
      /\ users' = [g \in Channel |-> users'[g]]
      /\ invites' = [g \in Private |-> invites'[g]] /\ owner' = [g \in Private |-> owner'[g]]
  BY <1>1 DEF Changed, ChatTypeOK
<1>4. \A g \in Channel : MapFine(users'[g])
  BY <1>3, ChannelParts
<1>5. ASSUME NEW g \in Private
      PROVE  /\ MapFine(invites'[g]) /\ owner'[g] \in Character \cup {None}
             /\ \A c \in Character : users'[g][c] # None => invites'[g][c] # None \/ c = owner'[g]
             /\ owner'[g] = None => \A c \in Character : invites'[g][c] = None
             /\ \A c \in Character : c = owner'[g] => Found(c) # {} /\ Own(c) \subseteq {g}
  <2>1. PrivateFine(g, users'[g], invites'[g], owner'[g])
    BY <1>1, <1>3, ChannelParts
  <2> QED
    BY <2>1, SessionAssumption DEF PrivateFine
<1>6. ASSUME NEW g \in Private, NEW c \in Character, c = owner'[g]
      PROVE  Own(c)' = {g}
  <2>1. \A k \in Private : owner'[k] = c => k = g
    <3> TAKE k \in Private
    <3> SUFFICES ASSUME owner'[k] = c PROVE k = g
      OBVIOUS
    <3>1. Own(c) \subseteq {g} /\ Own(c) \subseteq {k}
      BY <1>5, <1>6
    <3>2. g = h \/ k = h \/ (owner[g] = c /\ owner[k] = c)
      BY <1>3, <1>6
    <3>3. g # h => g \in Own(c)
      BY <1>3, <1>6 DEF Own
    <3>4. k # h => k \in Own(c)
      BY <1>3 DEF Own
    <3> QED
      BY <3>1, <3>3, <3>4
  <2> QED
    BY <1>6, <2>1 DEF Own
<1>7. ChatTypeOK'
  BY <1>3, <1>4, <1>5 DEF ChatTypeOK, MapFine
<1>8. HearersInGame'
  BY <1>2, <1>4, <1>5 DEF HearersInGame, MapFine, In
<1>9. PrivateStaysPrivate'
  <2> SUFFICES ASSUME NEW g \in Private
               PROVE  /\ In(users'[g]) \subseteq Invited(g)'
                      /\ owner'[g] = None => In(invites'[g]) = {}
                      /\ \A c \in Character : c = owner'[g] => Found(c)' # {} /\ Own(c)' = {g}
    BY <1>5 DEF PrivateStaysPrivate
  <2>1. In(users'[g]) \subseteq Invited(g)'
    BY <1>5 DEF In, Invited
  <2>2. owner'[g] = None => In(invites'[g]) = {}
    BY <1>5 DEF In
  <2>3. \A c \in Character : c = owner'[g] => Found(c)' # {} /\ Own(c)' = {g}
    BY <1>2, <1>5, <1>6
  <2> QED
    BY <2>1, <2>2, <2>3
<1> QED
  BY <1>7, <1>8, <1>9

\* What the players do with their channels, and a reload of the scripts.
LEMMA ChannelInv ==
  ASSUME ChatInv, NEW o,
         \/ CreatePrivateChannel(o) \/ Reload
         \/ \E x \in Object : ChannelInvite(o, x) \/ ChannelExclude(o, x)
         \/ \E h \in Channel : OpenChannel(o, h) \/ CloseChannel(o, h)
  PROVE  ChatTypeOK' /\ HearersInGame' /\ PrivateStaysPrivate'
<1>1. SessionInv /\ ChatTypeOK /\ Body
  BY DEF ChatInv, SessionInv
<1>2. /\ \A x \in ingame : x \in Object /\ who[x] \in Character /\ who[x] # None /\ x # None
                           /\ x \in Found(who[x])
      /\ \A h \in Private : h \in Channel
  BY <1>1, InGame, SessionAssumption DEF Found, Channel, Object
<1>3. UNCHANGED <<who, ingame>>
  BY DEF CreatePrivateChannel, Reload, ChannelInvite, ChannelExclude, OpenChannel,
         CloseChannel, Stay, vars, bodyVars
<1>4. /\ invites \in [Private -> [Character -> Object \cup {None}]]
      /\ users \in [Channel -> [Character -> Object \cup {None}]]
      /\ owner \in [Private -> Character \cup {None}]
  BY <1>1 DEF ChatTypeOK
<1>5. MapFine(Nobody) /\ \A c \in Character : Nobody[c] = None
  BY DEF MapFine, Nobody
<1>6. CASE CreatePrivateChannel(o)
  <2>1. PICK h \in Private : /\ owner[h] = None /\ o \in ingame /\ Own(who[o]) = {}
                             /\ owner' = [owner EXCEPT ![h] = who[o]]
                             /\ users' = [users EXCEPT ![h][who[o]] = o] /\ invites' = invites
    BY <1>6 DEF CreatePrivateChannel
  <2> DEFINE u == [users[h] EXCEPT ![who[o]] = o]
  <2>2. h \in Channel /\ MapFine(users[h]) /\ PrivateFine(h, users[h], invites[h], owner[h])
    BY <1>2, ChannelParts
  <2>3. MapFine(u)
    BY <1>1, <2>1, <2>2, MapChanges
  <2>4. PrivateFine(h, u, invites[h], who[o])
    BY <1>2, <1>4, <2>1, <2>2, SessionAssumption DEF PrivateFine
  <2>5. Changed(h, u, invites[h], who[o])
    BY <1>4, <2>1 DEF Changed
  <2> HIDE DEF u
  <2> QED
    BY <1>3, <2>2, <2>3, <2>4, <2>5, ChangedKeeps
<1>7. ASSUME NEW x \in Object, ChannelInvite(o, x)
      PROVE  ChatTypeOK' /\ HearersInGame' /\ PrivateStaysPrivate'
  <2>1. PICK h \in Own(who[o]) : /\ x \in ingame /\ UNCHANGED <<owner, users>>
                                 /\ invites' = [invites EXCEPT ![h][who[x]] = x]
    BY <1>7 DEF ChannelInvite
  <2> DEFINE v == [invites[h] EXCEPT ![who[x]] = x]
  <2>2. h \in Private /\ h \in Channel /\ owner[h] = who[o] /\ o \in ingame
    BY <1>2, <1>7 DEF Own, ChannelInvite
  <2>3. MapFine(users[h]) /\ PrivateFine(h, users[h], invites[h], owner[h])
    BY <2>2, ChannelParts
  <2>4. MapFine(v)
    BY <1>1, <2>1, <2>3, MapChanges DEF PrivateFine
  <2>5. PrivateFine(h, users[h], v, owner[h])
    BY <1>2, <1>4, <2>1, <2>2, <2>3, <2>4 DEF PrivateFine
  <2>6. Changed(h, users[h], v, owner[h])
    BY <1>4, <2>1, <2>2 DEF Changed
  <2> HIDE DEF v
  <2> QED
    BY <1>3, <2>2, <2>3, <2>5, <2>6, ChangedKeeps
<1>8. ASSUME NEW x \in Object, ChannelExclude(o, x)
      PROVE  ChatTypeOK' /\ HearersInGame' /\ PrivateStaysPrivate'
  <2>1. PICK h \in Own(who[o]) : /\ owner' = owner
                                 /\ users' = [users EXCEPT ![h][who[x]] = None]
                                 /\ invites' = [invites EXCEPT ![h][who[x]] = None]
    BY <1>8 DEF ChannelExclude
  <2> DEFINE u == [users[h] EXCEPT ![who[x]] = None]
             v == [invites[h] EXCEPT ![who[x]] = None]
  <2>2. /\ h \in Private /\ h \in Channel /\ owner[h] = who[o]
        /\ who[o] \in Character /\ who[x] \in Character /\ who[o] # None
    BY <1>2, <1>8 DEF Own, ChannelExclude
  <2>3. MapFine(users[h]) /\ PrivateFine(h, users[h], invites[h], owner[h])
    BY <2>2, ChannelParts
  <2>4. MapFine(u) /\ MapFine(v)
    BY <1>1, <2>2, <2>3, MapChanges DEF PrivateFine
  <2>5. PrivateFine(h, u, v, owner[h])
    BY <1>4, <2>2, <2>3, <2>4 DEF PrivateFine
  <2>6. Changed(h, u, v, owner[h])
    BY <1>4, <2>1, <2>2 DEF Changed
  <2> HIDE DEF u, v
  <2> QED
    BY <1>3, <2>2, <2>4, <2>5, <2>6, ChangedKeeps
<1>9. ASSUME NEW h \in Channel, OpenChannel(o, h)
      PROVE  ChatTypeOK' /\ HearersInGame' /\ PrivateStaysPrivate'
  <2> DEFINE u == [users[h] EXCEPT ![who[o]] = o]
  <2>1. /\ o \in ingame /\ (h \in Private => who[o] \in Invited(h))
        /\ users' = [users EXCEPT ![h][who[o]] = o] /\ UNCHANGED <<owner, invites>>
    BY <1>9 DEF OpenChannel
  <2>2. /\ MapFine(users[h])
        /\ h \in Private => PrivateFine(h, users[h], invites[h], owner[h])
    BY ChannelParts
  <2>3. MapFine(u)
    BY <1>1, <2>1, <2>2, MapChanges
  <2>4. h \in Private => PrivateFine(h, u, invites[h], owner[h])
    <3>1. h \in Private => invites[h][who[o]] # None \/ who[o] = owner[h]
      BY <2>1 DEF Invited, In
    <3> QED
      BY <1>4, <2>2, <3>1 DEF PrivateFine
  <2>5. Changed(h, u, invites[h], owner[h])
    BY <1>4, <2>1 DEF Changed
  <2> HIDE DEF u
  <2> QED
    BY <1>3, <2>3, <2>4, <2>5, ChangedKeeps
<1>10. ASSUME NEW h \in Channel, CloseChannel(o, h)
       PROVE  ChatTypeOK' /\ HearersInGame' /\ PrivateStaysPrivate'
  <2> DEFINE ends == h \in Private /\ owner[h] = who[o]
             u == [users[h] EXCEPT ![who[o]] = None]
  <2>1. /\ o \in ingame
        /\ users' = [users EXCEPT ![h] = IF ends THEN Nobody ELSE u]
        /\ invites' = IF ends THEN [invites EXCEPT ![h] = Nobody] ELSE invites
        /\ owner' = IF ends THEN [owner EXCEPT ![h] = None] ELSE owner
    BY <1>4, <1>10 DEF CloseChannel
  <2>2. /\ MapFine(users[h])
        /\ h \in Private => PrivateFine(h, users[h], invites[h], owner[h])
    BY ChannelParts
  <2>3. CASE ends
    <3>1. PrivateFine(h, Nobody, Nobody, None)
      BY <1>5 DEF PrivateFine
    <3>2. Changed(h, Nobody, Nobody, None)
      BY <2>1, <2>3 DEF Changed
    <3> QED
      BY <1>3, <1>5, <3>1, <3>2, ChangedKeeps
  <2>4. CASE ~ends
    <3>1. MapFine(u)
      BY <1>1, <1>2, <2>1, <2>2, MapChanges
    <3>2. h \in Private => PrivateFine(h, u, invites[h], owner[h])
      BY <1>2, <1>4, <2>1, <2>2 DEF PrivateFine
    <3>3. Changed(h, u, invites[h], owner[h])
      BY <1>4, <2>1, <2>4 DEF Changed
    <3> HIDE DEF u
    <3> QED
      BY <1>3, <3>1, <3>2, <3>3, ChangedKeeps
  <2> QED
    BY <2>3, <2>4
<1>11. CASE Reload
  <2>1. PICK h \in Normal, C \in SUBSET Character :
          users' = [users EXCEPT ![h] = [c \in Character |-> IF c \in C THEN None ELSE @[c]]]
    BY <1>11 DEF Reload
  <2> DEFINE u == [c \in Character |-> IF c \in C THEN None ELSE users[h][c]]
  <2>2. UNCHANGED <<owner, invites>> /\ h \in Channel /\ h \notin Private
    BY <1>11, ChatAssumption DEF Reload, Channel
  <2>3. MapFine(users[h])
    BY <2>2, ChannelParts
  <2>4. MapFine(u)
    BY <2>3 DEF MapFine
  <2>5. Changed(h, u, Nobody, None)
    BY <1>4, <2>1, <2>2 DEF Changed
  <2> HIDE DEF u
  <2> QED
    BY <1>3, <2>2, <2>4, <2>5, ChangedKeeps
<1> QED
  BY <1>6, <1>7, <1>8, <1>9, <1>10, <1>11

\* There are no channels to begin with.
LEMMA ChatInitInv == ChatInit => ChatInv
<1> SUFFICES ASSUME ChatInit PROVE ChatInv
  OBVIOUS
<1>1. SessionInv
  BY InitInv DEF ChatInit
<1>2. In(Nobody) = {} /\ Nobody \in [Character -> Object \cup {None}]
  BY DEF In, Nobody
<1>3. /\ owner = [h \in Private |-> None] /\ invites = [h \in Private |-> Nobody]
      /\ users = [h \in Channel |-> Nobody] /\ \A h \in Private : h \in Channel
  BY DEF ChatInit, Channel
<1>4. ChatTypeOK
  BY <1>2, <1>3 DEF ChatTypeOK
<1>5. HearersInGame
  BY <1>2, <1>3 DEF HearersInGame
<1>6. PrivateStaysPrivate
  BY <1>2, <1>3 DEF PrivateStaysPrivate
<1> QED
  BY <1>1, <1>4, <1>5, <1>6 DEF ChatInv

\* Every step of Chat.
LEMMA ChatNextInv == ChatInv /\ [ChatNext]_chatAll => ChatInv'
<1> SUFFICES ASSUME ChatInv, [ChatNext]_chatAll PROVE ChatInv'
  OBVIOUS
<1>1. SessionInv
  BY DEF ChatInv
<1>2. CASE SessionStep
  <2>1. SessionInv'
    BY <1>1, <1>2, NextInv DEF SessionStep
  <2> QED
    BY <1>2, <2>1, SessionStepInv
<1>3. ASSUME NEW o,
             \/ CreatePrivateChannel(o) \/ Reload
             \/ \E x \in Object : ChannelInvite(o, x) \/ ChannelExclude(o, x)
             \/ \E h \in Channel : OpenChannel(o, h) \/ CloseChannel(o, h)
      PROVE  ChatInv'
  <2>1. UNCHANGED vars
    BY <1>3 DEF CreatePrivateChannel, Reload, ChannelInvite, ChannelExclude, OpenChannel,
                CloseChannel, Stay
  <2>2. SessionInv'
    BY <1>1, <2>1, NextInv
  <2>3. ChatTypeOK' /\ HearersInGame' /\ PrivateStaysPrivate'
    BY <1>3, ChannelInv
  <2> QED
    BY <2>2, <2>3 DEF ChatInv
<1>4. CASE UNCHANGED chatAll
  <2>1. UNCHANGED vars /\ UNCHANGED <<owner, invites, users, who, ingame>>
    BY <1>4 DEF chatAll, chatVars, vars, bodyVars
  <2>2. SessionInv'
    BY <1>1, <2>1, NextInv
  <2>3. ChatTypeOK' /\ HearersInGame' /\ PrivateStaysPrivate'
    BY <2>1 DEF ChatInv, ChatTypeOK, HearersInGame, PrivateStaysPrivate, Found, Own, Invited
  <2> QED
    BY <2>2, <2>3 DEF ChatInv
<1> QED
  BY <1>2, <1>3, <1>4 DEF ChatNext

-----------------------------------------------------------------------------
(* The waiting list *)

Distinct(s) == \A i, j \in 1..Len(s) : s[i] = s[j] => i = j

Members(s) == {s[i] : i \in 1..Len(s)}

\* What cleanupList has kept, as s, of the first n entries of list.
Filtered(list, E, n, s) ==
  /\ s \in Seq(Character)
  /\ \A x \in 1..Len(s) : s[x] \notin E /\ \E i \in 1..n : s[x] = list[i]
  /\ Distinct(list) => Distinct(s)

\* The next entry is kept or not.
LEMMA FilterOneMore ==
  ASSUME NEW list \in Seq(Character), NEW E, NEW n \in 1..Len(list), NEW s, Filtered(list, E, n - 1, s)
  PROVE  Filtered(list, E, n, IF list[n] \in E THEN s ELSE Append(s, list[n]))
<1>1. /\ s \in Seq(Character) /\ Len(s) \in Nat /\ Len(list) \in Nat /\ list[n] \in Character
      /\ \A x \in 1..Len(s) : s[x] \notin E /\ \E i \in 1..(n - 1) : s[x] = list[i]
      /\ Distinct(list) => Distinct(s)
  BY DEF Filtered
<1>2. \A i \in 1..(n - 1) : i \in 1..n /\ i # n /\ i \in 1..Len(list)
  BY <1>1
<1>3. \A x \in 1..Len(s) : s[x] \notin E /\ \E i \in 1..n : s[x] = list[i]
  BY <1>1, <1>2
<1>4. CASE list[n] \in E
  BY <1>1, <1>3, <1>4 DEF Filtered
<1>5. CASE list[n] \notin E
  <2> DEFINE t == Append(s, list[n])
             m == Len(s)
  <2>1. /\ t \in Seq(Character) /\ Len(t) = m + 1 /\ t[m + 1] = list[n]
        /\ \A x \in 1..m : t[x] = s[x]
    BY <1>1
  <2>2. \A x \in 1..Len(t) : x \in 1..m \/ x = m + 1
    BY <1>1, <2>1
  <2> HIDE DEF t, m
  <2>3. \A x \in 1..Len(t) : t[x] \notin E /\ \E i \in 1..n : t[x] = list[i]
    <3>1. TAKE x \in 1..Len(t)
    <3>2. CASE x \in 1..m
      BY <1>3, <2>1, <3>2 DEF m
    <3>3. CASE x = m + 1
      <4>1. n \in 1..n
        BY <1>1
      <4> QED
        BY <1>5, <2>1, <3>3, <4>1
    <3> QED
      BY <2>2, <3>2, <3>3
  <2>4. ASSUME Distinct(list)
        PROVE  Distinct(t)
    <3>1. \A x \in 1..m : s[x] # list[n]
      BY <1>1, <1>2, <2>4 DEF Distinct, m
    <3>2. \A x, y \in 1..m : s[x] = s[y] => x = y
      BY <1>1, <2>4 DEF Distinct, m
    <3>3. \A x, y \in 1..Len(t) : t[x] = t[y] => x = y
      BY <2>1, <2>2, <3>1, <3>2
    <3> QED
      BY <3>3 DEF Distinct
  <2>5. Filtered(list, E, n, t)
    BY <2>1, <2>3, <2>4 DEF Filtered
  <2> QED
    BY <1>5, <2>5 DEF t
<1> QED
  BY <1>4, <1>5

\* cleanupList, and taking an entry out, leave what is not in E, once each.
LEMMA KeptIs ==
  ASSUME NEW list \in Seq(Character), NEW E
  PROVE  /\ Kept(list, E) \in Seq(Character)
         /\ Members(Kept(list, E)) \subseteq Members(list) \ E
         /\ Distinct(list) => Distinct(Kept(list, E))
<1> DEFINE n == Len(list)
           Filter(s, i) == IF list[i] \in E THEN s ELSE Append(s, list[i])
           step == [s \in Seq(Character) |-> [i \in 1..n |-> Filter(s, i)]]
           Runs(g) == g = [i \in 0..n |-> IF i = 0 THEN <<>> ELSE Filter(g[i - 1], i)]
<1>1. <<>> \in Seq(Character) /\ n \in Nat
  OBVIOUS
<1>2. \A s \in Seq(Character), i \in 1..n : Filter(s, i) \in Seq(Character)
  OBVIOUS
<1>3. PICK f : f = CHOOSE g : Runs(g)
  OBVIOUS
<1>4. Kept(list, E) = f[n]
  BY <1>3 DEF Kept
<1>5. step \in Steppers(n, Seq(Character))
  BY <1>2 DEF Steppers
<1>6. \A s \in Seq(Character), i \in 1..n : step[s][i] = Filter(s, i)
  OBVIOUS
<1> HIDE DEF n, step, Filter
<1>7. PICK g : IsRun(g, n, Seq(Character), <<>>, step)
  BY <1>1, <1>5, Steps
<1>8. g \in [0..n -> Seq(Character)] /\ g[0] = <<>> /\ \A i \in 1..n : g[i] = step[g[i - 1]][i]
  BY <1>7 DEF IsRun
<1>9. \A i \in 1..n : g[i] = Filter(g[i - 1], i)
  <2> SUFFICES ASSUME NEW i \in 1..n
               PROVE  g[i] = Filter(g[i - 1], i)
    OBVIOUS
  <2>1. i - 1 \in 0..n
    BY <1>1
  <2>2. g[i - 1] \in Seq(Character)
    BY <1>8, <2>1
  <2> QED
    BY <1>6, <1>8, <2>2
<1>10. Runs(g)
  BY <1>1, <1>8, <1>9
<1>11. Runs(f)
  <2> HIDE DEF Runs
  <2> QED
    BY <1>3, <1>10
<1>12. f[0] = <<>> /\ \A i \in 1..n : f[i] = Filter(f[i - 1], i)
  BY <1>1, <1>11
<1> HIDE DEF Runs
<1> DEFINE W == {i \in 0..n : Filtered(list, E, i, f[i])}
<1>13. \A i \in 0..n : i \in W
  <2>1. 0 \in W
    <3>1. Filtered(list, E, 0, <<>>)
      BY DEF Filtered, Distinct
    <3> QED
      BY <1>1, <1>12, <3>1
  <2>2. ASSUME NEW i \in 1..n, i - 1 \in W
        PROVE  i \in W
    <3>1. Filtered(list, E, i - 1, f[i - 1]) /\ i \in 0..n /\ i \in 1..Len(list)
      BY <1>1, <2>2 DEF n
    <3>2. Filtered(list, E, i, Filter(f[i - 1], i))
      BY <3>1, FilterOneMore DEF Filter
    <3> QED
      BY <1>12, <3>1, <3>2
  <2> HIDE DEF W
  <2> QED
    BY <1>1, <2>1, <2>2, UpTo
<1>14. n \in 0..n
  BY <1>1
<1>15. Filtered(list, E, n, f[n])
  BY <1>13, <1>14
<1> DEFINE K == Kept(list, E)
<1> HIDE DEF K
<1>16. Filtered(list, E, Len(list), K)
  BY <1>4, <1>15 DEF n, K
<1>17. /\ K \in Seq(Character) /\ (Distinct(list) => Distinct(K))
       /\ \A x \in 1..Len(K) : K[x] \notin E /\ \E i \in 1..Len(list) : K[x] = list[i]
  BY <1>16 DEF Filtered
<1>18. Members(K) \subseteq Members(list) \ E
  BY <1>17 DEF Members
<1> QED
  BY <1>17, <1>18 DEF K

\* The two lists behind one another.
LEMMA LineIs ==
  ASSUME NEW pr \in Seq(Character), NEW or \in Seq(Character)
  PROVE  /\ Range(pr \o or) = Members(pr) \cup Members(or)
         /\ IsInjective(pr \o or)
              <=> Distinct(pr) /\ Distinct(or) /\ Members(pr) \cap Members(or) = {}
         /\ \A c \in Range(pr \o or) : Slot(pr, or, c) \in Nat \ {0}
<1> DEFINE line == pr \o or
           n == Len(pr)
           m == Len(or)
<1>1. /\ n \in Nat /\ m \in Nat /\ DOMAIN line = 1..(n + m)
      /\ \A i \in 1..n : line[i] = pr[i]
      /\ \A j \in 1..m : line[n + j] = or[j]
  OBVIOUS
<1>2. \A c : Slot(pr, or, c) = CHOOSE i \in DOMAIN line : line[i] = c
  BY DEF Slot
<1> HIDE DEF line, n, m
<1>3. \A i \in 1..n : i \in 1..(n + m)
  BY <1>1
<1>4. \A j \in 1..m : n + j \in 1..(n + m)
  BY <1>1
<1>5. \A i \in 1..(n + m) : i \in 1..n \/ (i - n \in 1..m /\ n + (i - n) = i)
  BY <1>1
<1>6. \A i \in 1..(n + m) : i \in Nat \ {0}
  BY <1>1
<1>7. Range(line) = Members(pr) \cup Members(or)
  <2>1. Range(line) = {line[i] : i \in 1..(n + m)}
    BY <1>1 DEF Range
  <2>2. Members(pr) = {pr[i] : i \in 1..n} /\ Members(or) = {or[j] : j \in 1..m}
    BY DEF Members, n, m
  <2>3. \A i \in 1..(n + m) : line[i] \in Members(pr) \cup Members(or)
    BY <1>1, <1>5, <2>2, ZenonT(60)
  <2>4. \A i \in 1..n : pr[i] \in Range(line)
    BY <1>1, <1>3, <2>1
  <2>5. \A j \in 1..m : or[j] \in Range(line)
    BY <1>1, <1>4, <2>1
  <2> QED
    BY <2>1, <2>2, <2>3, <2>4, <2>5
<1>8. ASSUME IsInjective(line)
      PROVE  Distinct(pr) /\ Distinct(or) /\ Members(pr) \cap Members(or) = {}
  <2>1. \A a, b \in 1..(n + m) : line[a] = line[b] => a = b
    BY <1>1, <1>8 DEF IsInjective
  <2>2. \A i, j \in 1..n : pr[i] = pr[j] => i = j
    BY <1>1, <1>3, <2>1
  <2>3. \A i, j \in 1..m : or[i] = or[j] => i = j
    <3> SUFFICES ASSUME NEW i \in 1..m, NEW j \in 1..m, or[i] = or[j]
                 PROVE  i = j
      OBVIOUS
    <3>1. n + i = n + j
      BY <1>1, <1>4, <2>1
    <3> QED
      BY <1>1, <3>1
  <2>4. \A i \in 1..n, j \in 1..m : pr[i] # or[j]
    <3> SUFFICES ASSUME NEW i \in 1..n, NEW j \in 1..m, pr[i] = or[j]
                 PROVE  FALSE
      OBVIOUS
    <3>1. i = n + j
      BY <1>1, <1>3, <1>4, <2>1
    <3> QED
      BY <1>1, <3>1
  <2> QED
    BY <2>2, <2>3, <2>4 DEF Distinct, Members, n, m
<1>9. ASSUME Distinct(pr), Distinct(or), Members(pr) \cap Members(or) = {}
      PROVE  IsInjective(line)
  <2>1. /\ \A i, j \in 1..n : pr[i] = pr[j] => i = j
        /\ \A i, j \in 1..m : or[i] = or[j] => i = j
    BY <1>9 DEF Distinct, n, m
  <2>2. \A i \in 1..n, j \in 1..m : pr[i] # or[j]
    BY <1>9 DEF Members, n, m
  <2> SUFFICES ASSUME NEW a \in 1..(n + m), NEW b \in 1..(n + m), line[a] = line[b]
               PROVE  a = b
    BY <1>1 DEF IsInjective
  <2>3. a \in Nat /\ b \in Nat
    BY <1>6
  <2>4. CASE a \in 1..n /\ b \in 1..n
    BY <1>1, <2>1, <2>4
  <2>5. CASE a \in 1..n /\ b - n \in 1..m /\ n + (b - n) = b
    BY <1>1, <2>2, <2>5, SMTT(30)
  <2>6. CASE b \in 1..n /\ a - n \in 1..m /\ n + (a - n) = a
    BY <1>1, <2>2, <2>6
  <2>7. CASE a - n \in 1..m /\ n + (a - n) = a /\ b - n \in 1..m /\ n + (b - n) = b
    <3>1. or[a - n] = or[b - n]
      BY <1>1, <2>7
    <3>2. a - n = b - n
      BY <2>1, <2>7, <3>1
    <3> QED
      BY <2>7, <3>2
  <2> QED
    BY <1>5, <2>4, <2>5, <2>6, <2>7
<1>10. \A c \in Range(line) : Slot(pr, or, c) \in Nat \ {0}
  <2>1. TAKE c \in Range(line)
  <2>2. \E i \in DOMAIN line : line[i] = c
    BY DEF Range
  <2>3. Slot(pr, or, c) \in DOMAIN line
    BY <1>2, <2>2
  <2> QED
    BY <1>1, <1>6, <2>3
<1> QED
  BY <1>7, <1>8, <1>9, <1>10 DEF line

\* Everybody waits at one place only.
Lists(pr, or) ==
  /\ pr \in Seq(Character) /\ or \in Seq(Character)
  /\ Distinct(pr) /\ Distinct(or) /\ Members(pr) \cap Members(or) = {}

Waits == Members(priority) \cup Members(ordinary)

\* The players whom the limit is for.
Limited == {o \in ingame : who[o] \notin Always}

\* Who waits is not one of those who never wait, so that nobody who enters
\* without a look at the list is in it.
LineInv ==
  /\ Lists(priority, ordinary)
  /\ \A c \in Waits : c \notin Always /\ Found(c) = {}
  /\ Cardinality(Limited) <= MaxPlayers

\* A sequence with one more entry.
LEMMA Appended ==
  ASSUME NEW s \in Seq(Character), NEW c \in Character
  PROVE  /\ Append(s, c) \in Seq(Character)
         /\ Members(Append(s, c)) = Members(s) \cup {c}
         /\ Distinct(s) /\ c \notin Members(s) => Distinct(Append(s, c))
<1> DEFINE t == Append(s, c)
           n == Len(s)
<1>1. /\ t \in Seq(Character) /\ n \in Nat /\ Len(t) = n + 1 /\ t[n + 1] = c
      /\ \A i \in 1..n : t[i] = s[i]
  OBVIOUS
<1>2. \A i \in 1..Len(t) : i \in 1..n \/ i = n + 1
  BY <1>1
<1>3. n + 1 \in 1..Len(t) /\ \A i \in 1..n : i \in 1..Len(t)
  BY <1>1
<1>4. Members(s) = {s[i] : i \in 1..n}
  BY DEF Members
<1>5. Distinct(s) => \A i, j \in 1..n : s[i] = s[j] => i = j
  BY DEF Distinct
<1> HIDE DEF t, n
<1>6. Members(t) = Members(s) \cup {c}
  BY <1>1, <1>2, <1>3, <1>4 DEF Members
<1>7. ASSUME Distinct(s), c \notin Members(s)
      PROVE  Distinct(t)
  <2>1. \A i, j \in 1..Len(t) : t[i] = t[j] => i = j
    BY <1>1, <1>2, <1>4, <1>5, <1>7
  <2> QED
    BY <2>1 DEF Distinct
<1> QED
  BY <1>1, <1>6, <1>7 DEF t

\* After the cleanup of the lists everybody still waits at one place.
LEMMA ListsKept ==
  ASSUME NEW pr, NEW or, Lists(pr, or), NEW E
  PROVE  /\ Lists(Kept(pr, E), Kept(or, E))
         /\ Members(Kept(pr, E)) \cup Members(Kept(or, E)) \subseteq (Members(pr) \cup Members(or)) \ E
<1>1. /\ pr \in Seq(Character) /\ or \in Seq(Character)
      /\ Distinct(pr) /\ Distinct(or) /\ Members(pr) \cap Members(or) = {}
  BY DEF Lists
<1>2. /\ Kept(pr, E) \in Seq(Character) /\ Distinct(Kept(pr, E))
      /\ Members(Kept(pr, E)) \subseteq Members(pr) \ E
  BY <1>1, KeptIs
<1>3. /\ Kept(or, E) \in Seq(Character) /\ Distinct(Kept(or, E))
      /\ Members(Kept(or, E)) \subseteq Members(or) \ E
  BY <1>1, KeptIs
<1> QED
  BY <1>1, <1>2, <1>3 DEF Lists

\* clientLogin keeps that, and who enters waits no more.
LEMMA WaitingListIs ==
  ASSUME NEW pr, NEW or, Lists(pr, or), NEW c \in Character, WaitingList(pr, or, c)
  PROVE  /\ Lists(priority', ordinary')
         /\ Waits' \subseteq Members(pr) \cup Members(or) \cup {c}
         /\ MayEnter(pr, or, c) => c \notin Waits'
<1>1. /\ pr \in Seq(Character) /\ or \in Seq(Character)
      /\ Distinct(pr) /\ Distinct(or) /\ Members(pr) \cap Members(or) = {}
  BY DEF Lists
<1>2. Range(pr \o or) = Members(pr) \cup Members(or)
  BY <1>1, LineIs
<1>3. Waits' = Members(priority') \cup Members(ordinary')
  BY DEF Waits
<1>4. CASE MayEnter(pr, or, c)
  <2>1. priority' = Kept(pr, {c}) /\ ordinary' = Kept(or, {c})
    BY <1>4 DEF WaitingList
  <2>2. /\ Lists(Kept(pr, {c}), Kept(or, {c}))
        /\ Members(Kept(pr, {c})) \cup Members(Kept(or, {c})) \subseteq (Members(pr) \cup Members(or)) \ {c}
    BY ListsKept
  <2> QED
    BY <1>3, <2>1, <2>2
<1>5. CASE ~MayEnter(pr, or, c) /\ c \in Range(pr \o or)
  <2>1. priority' = pr /\ ordinary' = or
    BY <1>5 DEF WaitingList
  <2> QED
    BY <1>3, <1>5, <2>1
<1>6. CASE ~MayEnter(pr, or, c) /\ c \notin Range(pr \o or)
  <2>1. \/ priority' = Append(pr, c) /\ ordinary' = or
        \/ priority' = pr /\ ordinary' = Append(or, c)
    BY <1>6 DEF WaitingList
  <2>2. c \notin Members(pr) /\ c \notin Members(or)
    BY <1>2, <1>6
  <2>3. /\ Append(pr, c) \in Seq(Character) /\ Distinct(Append(pr, c))
        /\ Members(Append(pr, c)) = Members(pr) \cup {c}
    BY <1>1, <2>2, Appended
  <2>4. /\ Append(or, c) \in Seq(Character) /\ Distinct(Append(or, c))
        /\ Members(Append(or, c)) = Members(or) \cup {c}
    BY <1>1, <2>2, Appended
  <2>5. Lists(Append(pr, c), or) /\ Lists(pr, Append(or, c))
    BY <1>1, <2>2, <2>3, <2>4 DEF Lists
  <2> QED
    BY <1>3, <1>6, <2>1, <2>3, <2>4, <2>5
<1> QED
  BY <1>4, <1>5, <1>6

\* Only with room for one more is anybody let in.
LEMMA MayEnterIs ==
  ASSUME BodyType, NEW pr, NEW or, Lists(pr, or), NEW c, MayEnter(pr, or, c)
  PROVE  IsFiniteSet(ingame) /\ Cardinality(ingame) + 1 <= MaxPlayers
<1>1. IsFiniteSet(ingame)
  BY SessionAssumption, FS_Subset DEF BodyType, Object
<1>2. Cardinality(ingame) \in Nat /\ MaxPlayers \in Nat
  BY <1>1, FS_CardinalityType, SessionAssumption
<1>3. CASE Online < MaxPlayers
  BY <1>1, <1>2, <1>3 DEF Online
<1>4. CASE c \in Range(pr \o or) /\ Online + Slot(pr, or, c) <= MaxPlayers
  <2>1. Slot(pr, or, c) \in Nat \ {0}
    BY <1>4, LineIs DEF Lists
  <2> QED
    BY <1>1, <1>2, <1>4, <2>1 DEF Online
<1> QED
  BY <1>3, <1>4 DEF MayEnter

\* Nobody enters, and the lists stay.
LEMMA NobodyEnters ==
  ASSUME SessionInv, SessionInv', [Next]_vars, LineInv, UNCHANGED waitVars, ingame' \subseteq ingame
  PROVE  LineInv'
<1>1. \A o \in ingame' : o \in ingame /\ who'[o] = who[o]
  BY Staying
<1>2. Lists(priority', ordinary') /\ Waits' = Waits
  BY DEF LineInv, waitVars, Waits
<1>3. \A c : Found(c) = {} => Found(c)' = {}
  BY <1>1 DEF Found
<1>4. \A c \in Waits' : c \notin Always /\ Found(c)' = {}
  BY <1>2, <1>3 DEF LineInv
<1>5. Limited' \subseteq Limited
  BY <1>1 DEF Limited
<1>6. IsFiniteSet(Limited)
  <2>1. Limited \subseteq Protocol
    BY DEF Limited, SessionInv, Body, BodyType, Object
  <2> QED
    BY <2>1, SessionAssumption, FS_Subset
<1>7. Cardinality(Limited') <= MaxPlayers
  <2>1. /\ IsFiniteSet(Limited') /\ Cardinality(Limited') <= Cardinality(Limited)
    BY <1>5, <1>6, FS_Subset
  <2>2. Cardinality(Limited') \in Nat /\ Cardinality(Limited) \in Nat /\ MaxPlayers \in Nat
    BY <1>6, <2>1, FS_CardinalityType, SessionAssumption
  <2> QED
    BY <2>1, <2>2 DEF LineInv
<1> QED
  BY <1>2, <1>4, <1>7 DEF LineInv

\* login() after the cleanup of the lists: of who may not always enter,
\* clientLogin has been asked.
LEMMA ListsAtLogin ==
  ASSUME SessionInv, LineInv, NEW p \in Protocol, asks[p] \in Character, Found(asks[p]) = {},
         NEW E, IF asks[p] \in Always THEN UNCHANGED waitVars
                ELSE WaitingList(Kept(priority, E), Kept(ordinary, E), asks[p])
  PROVE  /\ Lists(priority', ordinary')
         /\ \A c \in Waits' : c \notin Always /\ Found(c) = {}
         /\ asks[p] \in Always => asks[p] \notin Waits'
         /\ asks[p] \notin Always /\ MayEnter(Kept(priority, E), Kept(ordinary, E), asks[p])
              => asks[p] \notin Waits'
<1>1. Lists(priority, ordinary) /\ \A c \in Waits : c \notin Always /\ Found(c) = {}
  BY DEF LineInv
<1>2. CASE asks[p] \in Always
  BY <1>1, <1>2 DEF waitVars, Waits
<1>3. CASE asks[p] \notin Always
  <2> DEFINE pr == Kept(priority, E)
             or == Kept(ordinary, E)
  <2>1. Lists(pr, or) /\ Members(pr) \cup Members(or) \subseteq Waits
    BY <1>1, ListsKept DEF Waits
  <2>2. WaitingList(pr, or, asks[p])
    BY <1>3
  <2> HIDE DEF pr, or
  <2>3. /\ Lists(priority', ordinary')
        /\ Waits' \subseteq Members(pr) \cup Members(or) \cup {asks[p]}
        /\ MayEnter(pr, or, asks[p]) => asks[p] \notin Waits'
    BY <2>1, <2>2, WaitingListIs
  <2> QED
    BY <1>1, <1>3, <2>1, <2>3 DEF pr, or
<1> QED
  BY <1>2, <1>3

\* login() of who waits, or enters.
LEMMA LoginLine ==
  ASSUME SessionInv, LineInv, NEW p \in Protocol, LoginWaits(p) \/ LoginEnters(p)
  PROVE  LineInv'
<1>1. BodyType /\ NetType /\ Begun
  BY DEF SessionInv, Body, Net
<1>2. stage[p] = "posted" /\ who[p] = None /\ asks[p] \in Character
  BY <1>1 DEF LoginWaits, LoginEnters, Begin, Begun
<1>3. p \notin ingame
  BY <1>2, Missing DEF SessionInv, Object
<1>4. Found(asks[p]) = {} /\ who' = [who EXCEPT ![p] = asks[p]]
  BY DEF LoginWaits, LoginEnters, NewPlayer
<1>5. \A o \in ingame : o # p /\ who'[o] = who[o]
  BY <1>1, <1>3, <1>4 DEF BodyType, Object
<1>6. who'[p] = asks[p]
  BY <1>1, <1>4 DEF BodyType, Object
<1>7. CASE LoginWaits(p)
  <2>1. PICK E \in SUBSET Character :
          IF asks[p] \in Always THEN UNCHANGED waitVars
          ELSE WaitingList(Kept(priority, E), Kept(ordinary, E), asks[p])
    BY <1>7 DEF LoginWaits
  <2>2. ingame' = ingame
    BY <1>7 DEF LoginWaits
  <2>3. Lists(priority', ordinary') /\ \A c \in Waits' : c \notin Always /\ Found(c) = {}
    BY <1>2, <1>4, <2>1, ListsAtLogin
  <2>4. \A c : Found(c)' = Found(c)
    BY <1>5, <2>2 DEF Found
  <2>5. Limited' = Limited
    BY <1>5, <2>2 DEF Limited
  <2> QED
    BY <2>3, <2>4, <2>5 DEF LineInv
<1>8. CASE LoginEnters(p)
  <2>1. PICK E \in SUBSET Character :
          IF asks[p] \in Always THEN UNCHANGED waitVars
          ELSE /\ MayEnter(Kept(priority, E), Kept(ordinary, E), asks[p])
               /\ WaitingList(Kept(priority, E), Kept(ordinary, E), asks[p])
    BY <1>8 DEF LoginEnters
  <2>2. ingame' = ingame \cup {p}
    BY <1>8 DEF LoginEnters
  <2>3. /\ Lists(priority', ordinary') /\ \A c \in Waits' : c \notin Always /\ Found(c) = {}
        /\ asks[p] \notin Waits'
    BY <1>2, <1>4, <2>1, ListsAtLogin
  <2>4. \A c : c # asks[p] /\ Found(c) = {} => Found(c)' = {}
    BY <1>5, <1>6, <2>2 DEF Found
  <2>5. \A c \in Waits' : c \notin Always /\ Found(c)' = {}
    BY <2>3, <2>4
  <2>6. Cardinality(Limited') <= MaxPlayers
    <3>1. CASE asks[p] \in Always
      <4>1. Limited' = Limited
        BY <1>5, <1>6, <2>2, <3>1 DEF Limited
      <4> QED
        BY <4>1 DEF LineInv
    <3>2. CASE asks[p] \notin Always
      <4>1. Lists(Kept(priority, E), Kept(ordinary, E))
        BY ListsKept DEF LineInv
      <4>2. IsFiniteSet(ingame) /\ Cardinality(ingame) + 1 <= MaxPlayers
        BY <1>1, <2>1, <3>2, <4>1, MayEnterIs
      <4>3. IsFiniteSet(ingame') /\ Cardinality(ingame') = Cardinality(ingame) + 1
        BY <1>3, <2>2, <4>2, FS_AddElement
      <4>4. Limited' \subseteq ingame'
        BY DEF Limited
      <4>5. IsFiniteSet(Limited') /\ Cardinality(Limited') <= Cardinality(ingame')
        BY <4>3, <4>4, FS_Subset
      <4>6. Cardinality(Limited') \in Nat /\ Cardinality(ingame') \in Nat /\ MaxPlayers \in Nat
        BY <4>3, <4>5, FS_CardinalityType, SessionAssumption
      <4> QED
        BY <4>2, <4>3, <4>5, <4>6
    <3> QED
      BY <3>1, <3>2
  <2> QED
    BY <2>3, <2>5, <2>6 DEF LineInv
<1> QED
  BY <1>7, <1>8

\* All other steps leave the lists alone, and let nobody in.
LEMMA NextLine ==
  SessionInv /\ SessionInv' /\ LineInv /\ [Next]_vars => LineInv'
<1> SUFFICES ASSUME SessionInv, SessionInv', LineInv, [Next]_vars
             PROVE  LineInv'
  OBVIOUS
<1>1. ASSUME UNCHANGED waitVars, ingame' \subseteq ingame
      PROVE  LineInv'
  BY <1>1, NobodyEnters
<1>2. ASSUME NEW p \in Protocol, LoginWaits(p) \/ LoginEnters(p)
      PROVE  LineInv'
  BY <1>2, LoginLine
<1>3. ASSUME NEW p \in Protocol,
             \/ \E c \in Character : FirstMessage(p, c)
             \/ LoginRefused(p) \/ LoginConnects(p) \/ LoginReplaces(p) \/ Connect(p)
             \/ Close(p) \/ Destroy(p) \/ Release(p) \/ Logout(p)
      PROVE  UNCHANGED waitVars /\ ingame' \subseteq ingame
  BY <1>3 DEF FirstMessage, LoginRefused, LoginConnects, LoginReplaces, Connect, ConnectTo, Close,
              Destroy, Release, Logout, RemoveCreature, bodyVars
<1>4. ASSUME NEW o \in Object, Kick(o) \/ PingOut(o) \/ Die(o)
      PROVE  UNCHANGED waitVars /\ ingame' \subseteq ingame
  BY <1>4 DEF Kick, PingOut, Die, RemoveCreature
<1>5. ASSUME CheckCreatures \/ SendAll \/ UNCHANGED vars
      PROVE  UNCHANGED waitVars /\ ingame' \subseteq ingame
  BY <1>5 DEF CheckCreatures, SendAll, vars, bodyVars
<1> QED
  BY <1>1, <1>2, <1>3, <1>4, <1>5 DEF Next

\* At the start nobody waits and nobody is there.
LEMMA InitLine == Init => LineInv
<1> SUFFICES ASSUME Init PROVE LineInv
  OBVIOUS
<1>1. priority = <<>> /\ ordinary = <<>> /\ ingame = {}
  BY DEF Init
<1>2. Members(<<>>) = {} /\ Distinct(<<>>) /\ <<>> \in Seq(Character)
  BY DEF Members, Distinct
<1>3. Limited = {}
  BY <1>1 DEF Limited
<1>4. Cardinality(Limited) <= MaxPlayers
  BY <1>3, FS_EmptySet, SessionAssumption
<1> QED
  BY <1>1, <1>2, <1>4 DEF LineInv, Lists, Waits

\* This is what WaitingListKept says.
LEMMA LineKept == LineInv => WaitingListKept
<1> SUFFICES ASSUME LineInv PROVE WaitingListKept
  OBVIOUS
<1>1. Range(priority \o ordinary) = Waits /\ IsInjective(priority \o ordinary)
  BY LineIs DEF LineInv, Lists, Waits
<1> QED
  BY <1>1 DEF LineInv, WaitingListKept, Limited

-----------------------------------------------------------------------------
(* The bounds of the type invariant *)

\* The protocols whose task of login has run: each starts one chain of sendAll
\* at most.
Started == {p \in Protocol : stage[p] = "ran"}

Bounds == connecting \in SUBSET Object /\ chains <= Cardinality(Started)

\* A step that starts no protocol starts no chain, and one that does starts
\* one at most.
LEMMA BoundsKept ==
  ASSUME NetType, NetType', Bounds, connecting' \in SUBSET Object,
         \/ Started' = Started /\ chains' <= chains
         \/ \E p \in Protocol : Begin(p) /\ chains' <= chains + 1
  PROVE  Bounds'
<1>1. IsFiniteSet(Started)
  BY SessionAssumption, FS_Subset DEF Started
<1>2. Cardinality(Started) \in Nat /\ chains \in Nat /\ chains' \in Nat
  BY <1>1, FS_CardinalityType DEF NetType
<1>3. CASE Started' = Started /\ chains' <= chains
  BY <1>2, <1>3 DEF Bounds
<1>4. CASE \E p \in Protocol : Begin(p) /\ chains' <= chains + 1
  <2>1. PICK p \in Protocol : Begin(p) /\ chains' <= chains + 1
    BY <1>4
  <2>2. p \notin Started /\ Started' = Started \cup {p}
    BY <2>1 DEF Begin, Started, NetType
  <2>3. Cardinality(Started') = Cardinality(Started) + 1
    BY <1>1, <2>2, FS_AddElement
  <2> QED
    BY <1>2, <2>1, <2>3 DEF Bounds
<1> QED
  BY <1>3, <1>4

\* Only a login starts a chain; nobody else is left connecting but who was.
LEMMA NextBounds ==
  SessionInv /\ SessionInv' /\ Bounds /\ [Next]_vars => Bounds'
<1> SUFFICES ASSUME SessionInv, SessionInv', Bounds, [Next]_vars
             PROVE  Bounds'
  OBVIOUS
<1>1. BodyType /\ NetType /\ NetType' /\ connecting \in SUBSET Object /\ chains \in Nat
  BY DEF SessionInv, Body, Net, Bounds, NetType
<1>2. chains <= chains /\ chains <= chains + 1 /\ chains + 1 <= chains + 1 /\ chains - 1 <= chains
  BY <1>1
<1>3. ASSUME NEW p \in Protocol,
             LoginRefused(p) \/ LoginWaits(p) \/ LoginEnters(p) \/ LoginConnects(p) \/ LoginReplaces(p)
      PROVE  Bounds'
  <2>1. Begin(p) /\ chains' \in {chains, chains + 1}
    BY <1>3 DEF LoginRefused, LoginWaits, LoginEnters, LoginConnects, LoginReplaces, AddToAutosend,
                sendVars
  <2>2. connecting' \in SUBSET Object
    <3>1. CASE LoginReplaces(p)
      BY <1>1, <3>1 DEF LoginReplaces, Found, BodyType
    <3>2. CASE LoginRefused(p) \/ LoginWaits(p) \/ LoginEnters(p)
      BY <1>1, <3>2 DEF LoginRefused, LoginWaits, LoginEnters, NewPlayer
    <3>3. CASE LoginConnects(p)
      BY <1>1, <3>3 DEF LoginConnects, ConnectTo
    <3> QED
      BY <1>3, <3>1, <3>2, <3>3
  <2> QED
    BY <1>1, <1>2, <2>1, <2>2, BoundsKept
<1>4. ASSUME Started' = Started, chains' \in {chains, chains - 1}, connecting' \subseteq connecting
      PROVE  Bounds'
  BY <1>1, <1>2, <1>4, BoundsKept
<1>5. ASSUME NEW p \in Protocol,
             \/ \E c \in Character : FirstMessage(p, c)
             \/ Connect(p) \/ Close(p) \/ Destroy(p) \/ Release(p) \/ Logout(p)
      PROVE  Bounds'
  <2>1. Started' = Started
    BY <1>1, <1>5 DEF FirstMessage, Connect, Close, Destroy, Release, Logout, RemoveCreature, Started,
                      NetType
  <2>2. chains' = chains /\ connecting' \subseteq connecting
    BY <1>5 DEF FirstMessage, Connect, ConnectTo, Close, Destroy, Release, Logout, RemoveCreature,
                bodyVars, sendVars
  <2> QED
    BY <1>4, <2>1, <2>2
<1>6. ASSUME NEW o \in Object, Kick(o) \/ PingOut(o) \/ Die(o)
      PROVE  Bounds'
  <2>1. Started' = Started /\ chains' = chains /\ connecting' = connecting
    BY <1>6 DEF Kick, PingOut, Die, RemoveCreature, Started, sendVars
  <2> QED
    BY <1>4, <2>1
<1>7. CASE CheckCreatures \/ SendAll \/ UNCHANGED vars
  <2>1. Started' = Started /\ chains' \in {chains, chains - 1} /\ connecting' \subseteq connecting
    BY <1>7 DEF CheckCreatures, SendAll, vars, netVars, bodyVars, sendVars, Started
  <2> QED
    BY <1>4, <2>1
<1> QED
  BY <1>3, <1>5, <1>6, <1>7 DEF Next

\* No task of login has run at the start.
LEMMA InitBounds == Init => Bounds
<1> SUFFICES ASSUME Init PROVE Bounds
  OBVIOUS
<1>1. Started = {}
  BY DEF Init, Started
<1>2. chains <= Cardinality(Started)
  BY <1>1, FS_EmptySet DEF Init
<1> QED
  BY <1>2 DEF Init, Bounds

\* A Player object has three references at most: one that left the game is no
\* longer in it.
LEMMA SessionTyped == SessionInv /\ LineInv /\ Bounds => SessionTypeOK
<1> SUFFICES ASSUME SessionInv, LineInv, Bounds PROVE SessionTypeOK
  OBVIOUS
<1>1. BodyType /\ NetType /\ Counted /\ Apart
  BY DEF SessionInv, Body, Net
<1>2. refs \in [Object -> 0..3]
  <2>1. ASSUME NEW o \in Object
        PROVE  refs[o] \in 0..3
    <3>1. refs[o] = One(client[o] # None) + One(o \in ingame) + One(o \in toRelease) + One(o \in thinking)
      BY <1>1 DEF Counted
    <3>2. ~(o \in ingame /\ o \in toRelease)
      BY <1>1 DEF Apart
    <3> QED
      BY <3>1, <3>2 DEF One
  <2> QED
    BY <1>1, <2>1 DEF BodyType
<1>3. chains \in 0..Cardinality(Protocol)
  <2>1. Started \subseteq Protocol
    BY DEF Started
  <2>2. IsFiniteSet(Protocol) /\ IsFiniteSet(Started) /\ Cardinality(Started) <= Cardinality(Protocol)
    BY <2>1, SessionAssumption, FS_Subset
  <2>3. Cardinality(Started) \in Nat /\ Cardinality(Protocol) \in Nat /\ chains \in Nat
    BY <1>1, <2>2, FS_CardinalityType DEF NetType
  <2> QED
    BY <2>2, <2>3 DEF Bounds
<1>4. priority \in Seq(Character) /\ ordinary \in Seq(Character)
  BY DEF LineInv, Lists
<1> QED
  BY <1>1, <1>2, <1>3, <1>4 DEF SessionTypeOK, BodyType, NetType, Bounds

\* The lists and the bounds, together with the invariant of Session, are kept
\* by the steps of Chat.
LEMMA ChatWaitInv ==
  SessionInv /\ LineInv /\ Bounds /\ [ChatNext]_chatAll => (SessionInv /\ LineInv /\ Bounds)'
<1> SUFFICES ASSUME SessionInv, LineInv, Bounds, [ChatNext]_chatAll
             PROVE  (SessionInv /\ LineInv /\ Bounds)'
  OBVIOUS
<1>1. [Next]_vars
  BY DEF ChatNext, SessionStep, CreatePrivateChannel, Reload, ChannelInvite, ChannelExclude,
         OpenChannel, CloseChannel, Stay, chatAll, vars
<1>2. SessionInv'
  BY <1>1, NextInv
<1> QED
  BY <1>1, <1>2, NextLine, NextBounds

-----------------------------------------------------------------------------
(* Theorems *)

\* The invariant holds in every state of every behaviour.
THEOREM Invariance == ChatSpec => []ChatInv
BY ChatInitInv, ChatNextInv, PTL DEF ChatSpec

\* However logins, takeovers, kicks, deaths and logouts interleave, Player
\* objects are counted exactly, their clients agree with them, and no
\* character is in the game twice.
THEOREM PlayersAlwaysSound == ChatSpec => []PlayersSound
<1>1. ChatInv => PlayersSound
  BY SessionSound DEF ChatInv
<1> QED
  BY <1>1, Invariance, PTL

\* A protocol with output has an event of sendAll, and none has that was
\* released.
THEOREM OutputAlwaysServed == ChatSpec => []OutputServed
<1>1. ChatInv => OutputServed
  BY SessionServed DEF ChatInv
<1> QED
  BY <1>1, Invariance, PTL

\* Channels point to players in the game only, under their characters.
THEOREM HearersAlwaysInGame == ChatSpec => []HearersInGame
<1>1. ChatInv => HearersInGame
  BY DEF ChatInv
<1> QED
  BY <1>1, Invariance, PTL

\* Private channels are heard by those invited and end with their owner.
THEOREM PrivateAlwaysPrivate == ChatSpec => []PrivateStaysPrivate
<1>1. ChatInv => PrivateStaysPrivate
  BY DEF ChatInv
<1> QED
  BY <1>1, Invariance, PTL

\* Who waits has one place in one of the two lists and is not in the game
\* beside it; whoever is let in found room for one more, or always may enter.
THEOREM WaitingListAlwaysKept == ChatSpec => []WaitingListKept
<1>1. ChatInit => SessionInv /\ LineInv /\ Bounds
  BY InitInv, InitLine, InitBounds DEF ChatInit
<1>2. LineInv => WaitingListKept
  BY LineKept
<1> QED
  BY <1>1, <1>2, ChatWaitInv, PTL DEF ChatSpec

\* Login keeps its types: a Player object has three references at most, and
\* there are no more chains of sendAll than protocols that logged in.
THEOREM SessionTypesKept == ChatSpec => []SessionTypeOK
<1>1. ChatInit => SessionInv /\ LineInv /\ Bounds
  BY InitInv, InitLine, InitBounds DEF ChatInit
<1>2. SessionInv /\ LineInv /\ Bounds => SessionTypeOK
  BY SessionTyped
<1> QED
  BY <1>1, <1>2, ChatWaitInv, PTL DEF ChatSpec

\* A client that takes a player over, or gets one back, has no channel open.
THEOREM NewClientNeverHears == ChatSpec => NewClientHearsNothing
<1> DEFINE Silent == \A o \in ingame :
                       client[o] = None /\ client'[o] # None =>
                         \A h \in Channel : users'[h][who[o]] = None
<1>1. ChatInv /\ [ChatNext]_chatAll => [Silent]_chatAll
  <2> SUFFICES ASSUME ChatInv, ChatNext,
                      NEW o \in ingame, client[o] = None, client'[o] # None,
                      NEW h \in Channel
               PROVE  users'[h][who[o]] = None
    BY DEF chatAll
  <2>1. SessionStep
    BY DEF ChatNext, CreatePrivateChannel, Reload, ChannelInvite, ChannelExclude, OpenChannel,
           CloseChannel, Stay, vars, bodyVars
  <2>2. who[o] \in Character
    BY InGame DEF ChatInv, SessionInv
  <2>3. \E C : who[o] \in C /\ LeaveAllChannels(C)
    BY <2>1 DEF SessionStep
  <2> QED
    BY <2>2, <2>3 DEF LeaveAllChannels, Nobody
<1> QED
  BY <1>1, Invariance, PTL DEF ChatSpec, NewClientHearsNothing
=============================================================================
