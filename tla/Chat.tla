-------------------------------- MODULE Chat ---------------------------------
(***************************************************************************)
(* Chat channels (chat.cpp) together with the players who come and go in   *)
(* Session: the channels of chatchannels.xml, which scripts let players    *)
(* into, and the private ones, which end with their owner.  (The channel   *)
(* of a party is in Party; that of a guild differs from it in its key.)    *)
(*                                                                         *)
(* A channel finds its users by their ids, its owner and who is invited by *)
(* their GUIDs; both outlive the Player object and are the character's.    *)
(* Beside them it keeps pointers to the objects.                           *)
(***************************************************************************)
EXTENDS Session

CONSTANTS Normal,  \* Chat::normalChannels
          Private  \* the ids of private channels; a bound on their number

ASSUME ChatAssumption == Normal \cap Private = {}

Channel == Normal \cup Private

VARIABLES
  owner,   \* PrivateChatChannel::owner, None for an id that is free
  invites, \* PrivateChatChannel::invites, a map from characters to objects
  users    \* ChatChannel::users, a map from characters to objects

chatVars == <<owner, invites, users>>
chatAll == <<vars, chatVars>>

\* The maps are functions to None where there is no entry.
Nobody == [c \in Character |-> None]
In(map) == {c \in Character : map[c] # None}

ChatTypeOK ==
  /\ owner \in [Private -> Character \cup {None}]
  /\ invites \in [Private -> [Character -> Object \cup {None}]]
  /\ users \in [Channel -> [Character -> Object \cup {None}]]

ChatInit ==
  /\ Init
  /\ owner = [h \in Private |-> None]
  /\ invites = [h \in Private |-> Nobody]
  /\ users = [h \in Channel |-> Nobody]

\* The private channel of c, if there is one: getPrivateChannel
Own(c) == {h \in Private : owner[h] = c}

\* isInvited
Invited(h) == In(invites[h]) \cup {owner[h]}

-----------------------------------------------------------------------------
(* What players do; the object o stands for getPlayerByID *)

Stay == UNCHANGED vars

\* playerCreatePrivateChannel, for one who has none yet.
CreatePrivateChannel(o) ==
  LET c == who[o] IN
    /\ o \in ingame /\ c \in Premium /\ Own(c) = {}
    /\ \E h \in Private :
         /\ owner[h] = None
         /\ owner' = [owner EXCEPT ![h] = c]
         /\ users' = [users EXCEPT ![h][c] = o]
    /\ UNCHANGED invites /\ Stay

\* playerChannelInvite
ChannelInvite(o, i) ==
  /\ {o, i} \subseteq ingame /\ o # i
  /\ \E h \in Own(who[o]) :
       /\ who[i] \notin In(invites[h])
       /\ invites' = [invites EXCEPT ![h][who[i]] = i]
  /\ UNCHANGED <<owner, users>> /\ Stay

\* Mutant: who is excluded can no longer join, but still hears.
SoftChannelExclude(o, x) ==
  /\ {o, x} \subseteq ingame /\ o # x
  /\ \E h \in Own(who[o]) :
       /\ who[x] \in In(invites[h])
       /\ invites' = [invites EXCEPT ![h][who[x]] = None]
  /\ UNCHANGED <<owner, users>> /\ Stay

\* playerChannelExclude
ChannelExclude(o, x) ==
  /\ {o, x} \subseteq ingame /\ o # x
  /\ \E h \in Own(who[o]) :
       /\ who[x] \in In(invites[h])
       /\ invites' = [invites EXCEPT ![h][who[x]] = None]
       /\ users' = [users EXCEPT ![h][who[x]] = None]
  /\ UNCHANGED owner /\ Stay

\* playerOpenChannel, addUserToChannel: a script may refuse.
OpenChannel(o, h) ==
  /\ o \in ingame /\ who[o] \notin In(users[h])
  /\ h \in Private => who[o] \in Invited(h)
  /\ users' = [users EXCEPT ![h][who[o]] = o]
  /\ UNCHANGED <<owner, invites>> /\ Stay

\* playerCloseChannel, removeUserFromChannel: of the owner the channel is
\* deleted.
CloseChannel(o, h) ==
  LET c == who[o]
      ends == h \in Private /\ owner[h] = c
  IN /\ o \in ingame /\ c \in In(users[h])
     /\ h \in Private => c \in Invited(h)
     /\ users' = [users EXCEPT ![h] = IF ends THEN Nobody ELSE [@ EXCEPT ![c] = None]]
     /\ invites' = IF ends THEN [invites EXCEPT ![h] = Nobody] ELSE invites
     /\ owner' = IF ends THEN [owner EXCEPT ![h] = None] ELSE owner
     /\ Stay

\* Chat::load, a reload: who is in a channel joins it again, if scripts allow.
Reload ==
  /\ \E h \in Normal, C \in SUBSET Character :
       users' = [users EXCEPT ![h] = [c \in Character |-> IF c \in C THEN None ELSE @[c]]]
  /\ UNCHANGED <<owner, invites>> /\ Stay

-----------------------------------------------------------------------------
(* Coming and going *)

\* Mutant: the channels of one who leaves stay, with those he had invited.
HalfLeave(C) ==
  /\ users' = [h \in Channel |-> [c \in Character |-> IF c \in C THEN None ELSE users[h][c]]]
  /\ UNCHANGED <<owner, invites>>

\* removeUserFromAllChannels, for the characters in C.
LeaveAllChannels(C) ==
  LET ends == {h \in Private : owner[h] \in C}
      Without(map) == [c \in Character |-> IF c \in C THEN None ELSE map[c]]
  IN /\ users' = [h \in Channel |-> IF h \in ends THEN Nobody ELSE Without(users[h])]
     /\ invites' = [h \in Private |-> IF h \in ends THEN Nobody ELSE Without(invites[h])]
     /\ owner' = [h \in Private |-> IF h \in ends THEN None ELSE owner[h]]

\* Mutant: a new client does not close the channels of the old one.
CarelessSessionStep ==
  /\ Next
  /\ LeaveAllChannels({who[o] : o \in ingame \ ingame'})

\* Every step of Session: who leaves the game (onRemoveCreature) and who gets
\* a new client (connect) leaves the channels.
SessionStep ==
  /\ Next
  /\ LeaveAllChannels({who[o] : o \in (ingame \ ingame') \cup
                         {x \in ingame : client[x] = None /\ client'[x] # None}})

ChatNext ==
  \/ SessionStep
  \/ \E o \in Object :
       \/ CreatePrivateChannel(o)
       \/ \E x \in Object : ChannelInvite(o, x) \/ ChannelExclude(o, x)
       \/ \E h \in Channel : OpenChannel(o, h) \/ CloseChannel(o, h)
  \/ Reload

ChatSpec == ChatInit /\ [][ChatNext]_chatAll

-----------------------------------------------------------------------------
(* Properties *)

\* The pointers of a channel lead to players in the game, and to those of the
\* id they are found under: nothing is sent to a player object that is gone
\* or that a new login has replaced.
HearersInGame ==
  /\ \A h \in Channel : \A c \in In(users[h]) : users[h][c] \in Found(c)
  /\ \A h \in Private : \A c \in In(invites[h]) : invites[h][c] \in Found(c)

\* A private channel is its owner's: he has one at most and is in the game,
\* and nobody hears it who is not invited, also after an exclusion or after a
\* logout and another login.
PrivateStaysPrivate ==
  \A h \in Private :
    /\ In(users[h]) \subseteq Invited(h)
    /\ owner[h] = None => In(invites[h]) = {}
    /\ owner[h] # None => Found(owner[h]) # {} /\ Own(owner[h]) = {h}

\* A client has its channels open from its own time: who takes a character
\* over does not find those of the client before, which it does not show.
NewClientHearsNothing ==
  [][ \A o \in ingame :
        client[o] = None /\ client'[o] # None =>
          \A h \in Channel : users'[h][who[o]] = None ]_chatAll

=============================================================================
