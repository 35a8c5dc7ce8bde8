------------------------------ MODULE Session -------------------------------
(***************************************************************************)
(* How players come and go: the game protocol (protocolgame.cpp), from the *)
(* first message to release(), taking over a character that is in the game *)
(* already, the waiting list (waitlist.cpp), the list of protocols whose   *)
(* output is sent from time to time (outputmessage.cpp), and the life of a *)
(* Player object, which is counted by those who hold it (game.cpp): the    *)
(* game, the protocol, and the list of creatures to think.  (Monsters and  *)
(* tiles count players for a while too, which only delays their end.)      *)
(*                                                                         *)
(* A Player object is made by a protocol, one at most, and bears its name. *)
(* Close and Destroy are steps of the network thread, all others are tasks *)
(* of the dispatcher.  The task of release() is posted by Close, after the *)
(* one of login() was: it never overtakes it.  The configuration is that   *)
(* of config.lua: no clones, and a second login takes the character over.  *)
(* Every character has an account of its own.                              *)
(***************************************************************************)
EXTENDS Integers, FiniteSets, Sequences, SequencesExt

CONSTANTS Protocol,
          Character,
          Premium,    \* the characters that wait in the priority list
          Always,     \* those that PlayerFlag_CanAlwaysLogin lets in
          MaxPlayers, \* ConfigManager::MAX_PLAYERS
          None

ASSUME SessionAssumption ==
  /\ Premium \cup Always \subseteq Character /\ None \notin Protocol \cup Character
  /\ MaxPlayers \in Nat \ {0}
  /\ IsFiniteSet(Protocol) /\ IsFiniteSet(Character)

Object == Protocol

VARIABLES
  \* of each protocol
  stage,      \* "new", "posted" (the task of login is in the queue), "ran"
  asks,       \* the character of the first message
  conn,       \* its Connection: "open", "closed" and at last "gone"
  released,   \* release() has run
  player,     \* ProtocolGame::player
  event,      \* eventConnect: connect() is to come in a second; it is the
              \* client that was disconnected for it
  \* of each Player object
  who,        \* the character it is, None while there is no such object
  ingame,     \* it is in Game::players
  client,     \* Player::client
  connecting, \* Player::isConnecting
  refs,       \* Creature::referenceCounter
  \* of the game
  thinking,   \* Creature::inCheckCreaturesVector
  toRelease,  \* Game::ToReleaseCreatures
  priority,   \* WaitListInfo::priorityWaitList
  ordinary,   \* WaitListInfo::waitList
  buffered,   \* OutputMessagePool::bufferedProtocols
  chains      \* how many events of sendAll are pending

netVars == <<stage, asks, conn, released>>
bodyVars == <<player, event, who, ingame, client, connecting, refs, thinking,
              toRelease>>
waitVars == <<priority, ordinary>>
sendVars == <<buffered, chains>>
vars == <<netVars, bodyVars, waitVars, sendVars>>

SessionTypeOK ==
  /\ stage \in [Protocol -> {"new", "posted", "ran"}]
  /\ asks \in [Protocol -> Character \cup {None}]
  /\ conn \in [Protocol -> {"open", "closed", "gone"}]
  /\ released \in SUBSET Protocol
  /\ event \in [Protocol -> Protocol \cup {None}]
  /\ player \in [Protocol -> Object \cup {None}]
  /\ who \in [Object -> Character \cup {None}]
  /\ ingame \in SUBSET Object /\ connecting \in SUBSET Object
  /\ client \in [Object -> Protocol \cup {None}]
  /\ refs \in [Object -> 0..3]
  /\ thinking \in SUBSET Object /\ toRelease \in SUBSET Object
  /\ priority \in Seq(Character) /\ ordinary \in Seq(Character)
  /\ buffered \in SUBSET Protocol /\ chains \in 0..Cardinality(Protocol)

Init ==
  /\ stage = [p \in Protocol |-> "new"]
  /\ asks = [p \in Protocol |-> None]
  /\ conn = [p \in Protocol |-> "open"]
  /\ released = {}
  /\ event = [p \in Protocol |-> None]
  /\ player = [p \in Protocol |-> None]
  /\ who = [o \in Object |-> None]
  /\ ingame = {} /\ connecting = {}
  /\ client = [o \in Object |-> None]
  /\ refs = [o \in Object |-> 0]
  /\ thinking = {} /\ toRelease = {}
  /\ priority = <<>> /\ ordinary = <<>>
  /\ buffered = {} /\ chains = 0

-----------------------------------------------------------------------------
(* What the tasks are made of *)

\* getPlayerByName, getPlayerByID: the identity of a player is his GUID's.
Found(c) == {o \in ingame : who[o] = c}

\* The connections after close() of those in P.
Closed(P) == [p \in Protocol |-> IF p \in P /\ conn[p] = "open" THEN "closed" ELSE conn[p]]
Disconnect(P) == conn' = Closed(P \ {None})

\* addProtocolToAutosend
AddToAutosend(p) ==
  /\ chains' = IF buffered = {} THEN chains + 1 ELSE chains
  /\ buffered' = buffered \cup {p}

\* Reference counters after one reference to each object in O is given back;
\* an object nobody refers to is deleted.
Returned(O) == [o \in Object |-> IF o \in O THEN refs[o] - 1 ELSE refs[o]]
Deleted(O) == [o \in Object |-> IF o \in O /\ refs[o] = 1 THEN None ELSE who[o]]

-----------------------------------------------------------------------------
(* The waiting list *)

Online == Cardinality(ingame)

\* cleanupList: any entries may have timed out.
Kept(list, E) ==
  LET kept[i \in 0..Len(list)] ==
        IF i = 0 THEN <<>>
        ELSE IF list[i] \in E THEN kept[i - 1] ELSE Append(kept[i - 1], list[i])
  IN kept[Len(list)]

\* findClient: the slot of c in the two lists behind one another.
Slot(pr, or, c) ==
  LET line == pr \o or IN CHOOSE i \in DOMAIN line : line[i] = c

\* Mutant: the slot is counted from zero.
RashMayEnter(pr, or, c) ==
  \/ pr = <<>> /\ or = <<>> /\ Online < MaxPlayers
  \/ c \in Range(pr \o or) /\ Online + Slot(pr, or, c) - 1 <= MaxPlayers

\* clientLogin lets c in, who may not always enter, when the lists are pr and or after the cleanup.
MayEnter(pr, or, c) ==
  \/ pr = <<>> /\ or = <<>> /\ Online < MaxPlayers
  \/ c \in Range(pr \o or) /\ Online + Slot(pr, or, c) <= MaxPlayers

\* clientLogin: who enters leaves the list, who is not in it is appended.
WaitingList(pr, or, c) ==
  IF MayEnter(pr, or, c) THEN priority' = Kept(pr, {c}) /\ ordinary' = Kept(or, {c})
  ELSE IF c \in Range(pr \o or) THEN priority' = pr /\ ordinary' = or
  ELSE IF c \in Premium THEN priority' = Append(pr, c) /\ ordinary' = or
  ELSE priority' = pr /\ ordinary' = Append(or, c)

-----------------------------------------------------------------------------
(* login and connect *)

\* onRecvFirstMessage posts the task of login; when it refuses, it closes the
\* connection.
FirstMessage(p, c) ==
  /\ stage[p] = "new" /\ conn[p] = "open"
  /\ stage' = [stage EXCEPT ![p] = "posted"]
  /\ asks' = [asks EXCEPT ![p] = c]
  /\ UNCHANGED <<conn, released, bodyVars, waitVars, sendVars>>

Begin(p) ==
  /\ stage[p] = "posted"
  /\ stage' = [stage EXCEPT ![p] = "ran"]
  /\ UNCHANGED <<asks, released>>

\* new Player(getThis())
NewPlayer(p, references) ==
  /\ Found(asks[p]) = {}
  /\ who' = [who EXCEPT ![p] = asks[p]]
  /\ player' = [player EXCEPT ![p] = p]
  /\ client' = [client EXCEPT ![p] = p]
  /\ refs' = [refs EXCEPT ![p] = references]
  /\ UNCHANGED <<event, connecting, toRelease>>

\* login() of a character that cannot be loaded, is banned or locked out.
LoginRefused(p) ==
  /\ Begin(p) /\ NewPlayer(p, 1) /\ Disconnect({p})
  /\ UNCHANGED <<ingame, thinking, waitVars, sendVars>>

\* login() of a character that has to wait, or is let in and cannot be loaded
\* or placed then.
LoginWaits(p) ==
  /\ Begin(p) /\ NewPlayer(p, 1) /\ Disconnect({p})
  /\ \E E \in SUBSET Character :
       IF asks[p] \in Always THEN UNCHANGED waitVars
       ELSE WaitingList(Kept(priority, E), Kept(ordinary, E), asks[p])
  /\ UNCHANGED <<ingame, thinking, sendVars>>

\* login() that places the character: placeCreature, addCreatureCheck.
LoginEnters(p) ==
  /\ Begin(p) /\ NewPlayer(p, 3)
  /\ \E E \in SUBSET Character :
       IF asks[p] \in Always THEN UNCHANGED waitVars
       ELSE /\ MayEnter(Kept(priority, E), Kept(ordinary, E), asks[p])
            /\ WaitingList(Kept(priority, E), Kept(ordinary, E), asks[p])
  /\ ingame' = ingame \cup {p} /\ thinking' = thinking \cup {p}
  /\ AddToAutosend(p)
  /\ UNCHANGED conn

\* Mutant: connect() does not look whether another client was faster.
RashConnectTo(p, c) ==
  /\ IF Found(c) = {} THEN Disconnect({p}) ELSE UNCHANGED conn
  /\ LET O == IF conn[p] # "gone" THEN Found(c) ELSE {} IN
       /\ player' = [player EXCEPT ![p] = IF O = {} THEN @ ELSE CHOOSE o \in O : TRUE]
       /\ client' = [o \in Object |-> IF o \in O THEN p ELSE client[o]]
       /\ refs' = [o \in Object |-> IF o \in O THEN refs[o] + 1 ELSE refs[o]]
       /\ connecting' = connecting \ O
  /\ UNCHANGED <<who, ingame, thinking, toRelease>>

\* connect(): the character must be in the game without a client, and the
\* Connection object must not be gone.
ConnectTo(p, c) ==
  LET free == {o \in Found(c) : client[o] = None}
      O == IF conn[p] # "gone" THEN free ELSE {}
  IN /\ Disconnect(IF free = {} THEN {p} ELSE {})
     /\ player' = [player EXCEPT ![p] = IF O = {} THEN @ ELSE CHOOSE o \in O : TRUE]
     /\ client' = [o \in Object |-> IF o \in O THEN p ELSE client[o]]
     /\ refs' = [o \in Object |-> IF o \in O THEN refs[o] + 1 ELSE refs[o]]
     /\ connecting' = connecting \ O
     /\ UNCHANGED <<who, ingame, thinking, toRelease>>

\* login() of a character in the game that has no client.
LoginConnects(p) ==
  /\ \E o \in Found(asks[p]) : client[o] = None
  /\ Begin(p)
  /\ ConnectTo(p, asks[p])
  /\ AddToAutosend(p)
  /\ UNCHANGED <<event, waitVars>>

\* login() of a character in the game that has one: the old client goes.
LoginReplaces(p) ==
  /\ \E o \in Found(asks[p]) :
       /\ client[o] # None
       /\ Disconnect({client[o]})
       /\ connecting' = connecting \cup {o}
       /\ event' = [event EXCEPT ![p] = client[o]]
  /\ Begin(p)
  /\ AddToAutosend(p)
  /\ UNCHANGED <<player, who, ingame, client, refs, thinking, toRelease, waitVars>>

\* The event of connect(), whose task is posted a second after that of the
\* other client's release().
Connect(p) ==
  /\ event[p] \in released
  /\ event' = [event EXCEPT ![p] = None]
  /\ ConnectTo(p, asks[p])
  /\ UNCHANGED <<stage, asks, released, waitVars, sendVars>>

-----------------------------------------------------------------------------
(* The end of connections *)

\* close(), for any reason of the network or of the client.
Close(p) ==
  /\ conn[p] = "open"
  /\ Disconnect({p})
  /\ UNCHANGED <<stage, asks, released, bodyVars, waitVars, sendVars>>

\* The last handler that held the Connection is done.
Destroy(p) ==
  /\ conn[p] = "closed"
  /\ conn' = [conn EXCEPT ![p] = "gone"]
  /\ UNCHANGED <<stage, asks, released, bodyVars, waitVars, sendVars>>

\* Mutant: a protocol without a player has nothing to release.
ForgetfulRelease(p) ==
  LET O == {o \in Object : player[p] = o /\ client[o] = p} IN
    /\ conn[p] # "open" /\ p \notin released /\ stage[p] # "posted"
    /\ released' = released \cup {p}
    /\ client' = [o \in Object |-> IF o \in O THEN None ELSE client[o]]
    /\ player' = [player EXCEPT ![p] = IF O = {} THEN @ ELSE None]
    /\ refs' = Returned(O) /\ who' = Deleted(O)
    /\ connecting' = connecting \ {o \in O : refs[o] = 1}
    /\ buffered' = IF O = {} THEN buffered ELSE buffered \ {p}
    /\ UNCHANGED <<stage, asks, conn, event, ingame, thinking, toRelease,
                   waitVars, chains>>

\* release()
Release(p) ==
  LET O == {o \in Object : player[p] = o /\ client[o] = p} IN
    /\ conn[p] # "open" /\ p \notin released /\ stage[p] # "posted"
    /\ released' = released \cup {p}
    /\ client' = [o \in Object |-> IF o \in O THEN None ELSE client[o]]
    /\ player' = [player EXCEPT ![p] = IF O = {} THEN @ ELSE None]
    /\ refs' = Returned(O) /\ who' = Deleted(O)
    /\ connecting' = connecting \ {o \in O : refs[o] = 1}
    /\ buffered' = buffered \ {p}
    /\ UNCHANGED <<stage, asks, conn, event, ingame, thinking, toRelease,
                   waitVars, chains>>

-----------------------------------------------------------------------------
(* The end of players *)

\* removeCreature
RemoveCreature(o) ==
  /\ o \in ingame
  /\ ingame' = ingame \ {o}
  /\ toRelease' = toRelease \cup {o}
  /\ UNCHANGED <<stage, asks, released, player, event, who, client, connecting,
                 refs, thinking, waitVars, sendVars>>

\* logout() on the player's wish, if the tile, a fight and scripts allow it;
\* of a player who is dead it only disconnects, which Close does.
Logout(p) ==
  /\ player[p] # None /\ RemoveCreature(player[p])
  /\ Disconnect({p})

\* kickPlayer, also of an idle player.
Kick(o) == RemoveCreature(o) /\ Disconnect({client[o]})

\* Player::sendPing: no answer for a minute, and canLogout().
PingOut(o) == o \notin connecting /\ Kick(o)

\* A player who dies leaves the game, not the client.
Die(o) == RemoveCreature(o) /\ UNCHANGED conn

\* Mutant: the list of those to release is not emptied.
RepeatingCheckCreatures ==
  /\ toRelease # {}
  /\ refs' = Returned(toRelease) /\ who' = Deleted(toRelease)
  /\ UNCHANGED <<netVars, player, event, ingame, client, connecting, thinking,
                 toRelease, waitVars, sendVars>>

\* checkCreatures of one list: those in it that left the game are taken out,
\* which releases them once more; then cleanup() works off what was released.
CheckCreatures ==
  \E O \in SUBSET (thinking \ ingame) :
    LET left == [o \in Object |-> refs[o] - Cardinality({o} \cap toRelease)
                                         - Cardinality({o} \cap O)]
        gone == {o \in O \cup toRelease : left[o] = 0}
    IN /\ O \cup toRelease # {}
       /\ thinking' = thinking \ O /\ toRelease' = {}
       /\ refs' = left
       /\ who' = [o \in Object |-> IF o \in gone THEN None ELSE who[o]]
       /\ connecting' = connecting \ gone
       /\ UNCHANGED <<netVars, player, event, ingame, client, waitVars, sendVars>>

\* OutputMessagePool::sendAll; with something to send it plans the next one.
SendAll ==
  /\ chains > 0 /\ buffered = {}
  /\ chains' = chains - 1
  /\ UNCHANGED <<netVars, bodyVars, waitVars, buffered>>

Next ==
  \/ \E p \in Protocol :
       \/ \E c \in Character : FirstMessage(p, c)
       \/ LoginRefused(p) \/ LoginWaits(p) \/ LoginEnters(p)
       \/ LoginConnects(p) \/ LoginReplaces(p) \/ Connect(p)
       \/ Close(p) \/ Destroy(p) \/ Release(p) \/ Logout(p)
  \/ \E o \in Object : Kick(o) \/ PingOut(o) \/ Die(o)
  \/ CheckCreatures \/ SendAll

Spec == Init /\ [][Next]_vars
-----------------------------------------------------------------------------
(* Properties *)

\* Whoever refers to a Player object is counted, and the object is there as
\* long as one is.
ReferencesExact ==
  \A o \in Object :
    /\ refs[o] = Cardinality({p \in Protocol : player[p] = o})
                   + Cardinality({o} \cap ingame) + Cardinality({o} \cap toRelease)
                   + Cardinality({o} \cap thinking)
    /\ who[o] = None <=> refs[o] = 0

\* A protocol that has a player is that player's client.
ClientsAgree == \A p \in Protocol, o \in Object : player[p] = o <=> client[o] = p

\* However logins, takeovers, kicks, deaths and logouts interleave, nobody is
\* left with a pointer to a deleted player and none is kept for ever by a
\* reference that was not given back; no two connections act for the same
\* player; and a character is in the game once at most.
PlayersSound ==
  /\ ReferencesExact
  /\ ClientsAgree
  /\ \A c \in Character : Cardinality(Found(c)) <= 1

\* The server is never fuller than it may be but for those who may always
\* enter, and who waits is not in the game and waits at one place only.
WaitingListKept ==
  /\ Cardinality({o \in ingame : who[o] \notin Always}) <= MaxPlayers
  /\ \A c \in Range(priority \o ordinary) : Found(c) = {}
  /\ IsInjective(priority \o ordinary)

\* As long as a protocol has output to be sent, an event of sendAll is
\* pending, and what is released is not in that list any more.
OutputServed == (buffered # {} => chains > 0) /\ buffered \cap released = {}

\* connect() says: when the Connection is expired, "release() has been called
\* at this point and the Connection object no longer exists, so we return to
\* prevent leakage of the Player".  So a protocol that has been released has
\* no player, who would keep it as a dead client for ever.
ReleasedLetsGo == \A p \in released : player[p] = None

Symmetry == Permutations(Protocol)
=============================================================================
