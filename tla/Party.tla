------------------------------- MODULE Party --------------------------------
(***************************************************************************)
(* Parties of players (party.cpp), the handlers that drive them            *)
(* (Game::player...Party), the invitations each player keeps and the chat  *)
(* channel of a party (chat.cpp).                                          *)
(*                                                                         *)
(* A party object is named by its address: an address is free again when   *)
(* the party is deleted, and Chat::partyChannels is indexed by it.  Lists  *)
(* whose order decides nothing are sets; a leader who leaves is followed   *)
(* by any member where the code takes the one who joined first.  The       *)
(* scripts onJoin, onLeave and onDisband are those of data/events: they    *)
(* allow everything.                                                       *)
(***************************************************************************)
EXTENDS FiniteSets, TLC

CONSTANTS Player,
          PartyId, \* the addresses of party objects; a bound on their number
          Range,   \* where a player stands and how high the level is, as far
                   \* as sharing experience tells players apart
          None

ASSUME PartyAssumption == None \notin Player \cup PartyId

VARIABLES
  online,      \* Game::players
  range,
  party,       \* Player::party
  invitations, \* Player::invitePartyList
  leader,      \* Party::leader, None at a free address
  members,     \* Party::memberList
  invitees,    \* Party::inviteList
  active,      \* Party::sharedExpActive
  enabled,     \* Party::sharedExpEnabled
  fought,      \* Party::ticksMap, the entries younger than PZ_LOCKED
  channels,    \* the keys of Chat::partyChannels
  users        \* ChatChannel::users of those

vars == <<online, range, party, invitations, leader, members, invitees,
          active, enabled, fought, channels, users>>

PartyTypeOK ==
  /\ online \in SUBSET Player
  /\ range \in [Player -> Range]
  /\ party \in [Player -> PartyId \cup {None}]
  /\ invitations \in [Player -> SUBSET PartyId]
  /\ leader \in [PartyId -> Player \cup {None}]
  /\ members \in [PartyId -> SUBSET Player]
  /\ invitees \in [PartyId -> SUBSET Player]
  /\ active \in SUBSET PartyId /\ enabled \in SUBSET PartyId
  /\ fought \in [PartyId -> SUBSET Player]
  /\ channels \in SUBSET PartyId
  /\ users \in [PartyId -> SUBSET Player]

Init ==
  /\ online = {}
  /\ range \in [Player -> Range]
  /\ party = [p \in Player |-> None]
  /\ invitations = [p \in Player |-> {}]
  /\ leader = [q \in PartyId |-> None]
  /\ members = [q \in PartyId |-> {}]
  /\ invitees = [q \in PartyId |-> {}]
  /\ active = {} /\ enabled = {}
  /\ fought = [q \in PartyId |-> {}]
  /\ channels = {}
  /\ users = [q \in PartyId |-> {}]

-----------------------------------------------------------------------------
(* What the functions of Party and Player do to the state S of the parties *)

Now == [party |-> party, invitations |-> invitations, leader |-> leader,
        members |-> members, invitees |-> invitees, active |-> active,
        enabled |-> enabled, fought |-> fought]

Become(S) ==
  /\ party' = S.party /\ invitations' = S.invitations
  /\ leader' = S.leader /\ members' = S.members /\ invitees' = S.invitees
  /\ active' = S.active /\ enabled' = S.enabled /\ fought' = S.fought

Company(S, q) == S.members[q] \cup {S.leader[q]}

\* canEnableSharedExperience: everybody is near the leader, has a level that
\* goes with the highest, and has fought or healed lately.
CanEnable(S, q, at) ==
  /\ S.members[q] # {}
  /\ \A p \in Company(S, q) :
       at[p] = at[S.leader[q]] /\ p \in S.fought[q]

\* updateSharedExperience, with the players at their places "at".
Updated(S, q, at) ==
  [S EXCEPT !.enabled =
     IF q \notin S.active THEN @
     ELSE IF CanEnable(S, q, at) THEN @ \cup {q} ELSE @ \ {q}]

\* disband() of the parties Q, which are deleted.  The players' party is
\* None before sendClosePrivate looks the channel up by it: nobody is taken
\* out of the channel, which stays in partyChannels.
Disbanded(S, Q) ==
  [party |-> [p \in Player |-> IF \E q \in Q : p \in Company(S, q)
                                 THEN None ELSE S.party[p]],
   invitations |-> [p \in Player |->
      S.invitations[p] \ {q \in Q : p \in S.invitees[q]}],
   leader |-> [q \in PartyId |-> IF q \in Q THEN None ELSE S.leader[q]],
   members |-> [q \in PartyId |-> IF q \in Q THEN {} ELSE S.members[q]],
   invitees |-> [q \in PartyId |-> IF q \in Q THEN {} ELSE S.invitees[q]],
   active |-> S.active \ Q,
   enabled |-> S.enabled \ Q,
   fought |-> [q \in PartyId |-> IF q \in Q THEN {} ELSE S.fought[q]]]

\* empty()
Empty(S, q) == S.members[q] = {} /\ S.invitees[q] = {}

\* Mutant: a party whose last invitation goes stays.
KeepingCleared(S, p) ==
  [S EXCEPT !.invitations[p] = {},
            !.invitees = [q \in PartyId |-> IF q \in S.invitations[p]
                                              THEN @[q] \ {p} ELSE @[q]]]

\* clearPartyInvitations, with the removeInvite of every party in the list.
Cleared(S, p) ==
  LET C == [S EXCEPT
              !.invitations[p] = {},
              !.invitees = [q \in PartyId |-> IF q \in S.invitations[p]
                                                THEN @[q] \ {p} ELSE @[q]]]
  IN Disbanded(C, {q \in S.invitations[p] : Empty(C, q)})

\* joinParty: the party is formed by the first who joins; its leader can no
\* longer take invitations of others.
Joined(S, q, p) ==
  LET L == IF S.members[q] = {} THEN Cleared(S, S.leader[q]) ELSE S
      J == Cleared([L EXCEPT !.members[q] = @ \cup {p}, !.party[p] = q], p)
  IN Updated(J, q, range)

\* removeInvite
Uninvited(S, q, p) ==
  LET U == [S EXCEPT !.invitees[q] = @ \ {p}, !.invitations[p] = @ \ {q}]
  IN IF Empty(U, q) THEN Disbanded(U, {q}) ELSE U

\* passPartyLeadership
Passed(S, q, n) ==
  Updated([S EXCEPT !.leader[q] = n,
                    !.members[q] = (@ \ {n}) \cup {S.leader[q]}], q, range)

\* leaveParty, where n would follow p as the leader.
Left(S, q, p, n) ==
  LET missing == /\ S.leader[q] = p
                 /\ \/ S.members[q] = {}
                    \/ S.members[q] = {n} /\ S.invitees[q] = {}
      P == IF S.leader[q] = p /\ ~missing THEN Passed(S, q, n) ELSE S
      L == Updated([P EXCEPT !.members[q] = @ \ {p}, !.party[p] = None,
                             !.fought[q] = @ \ {p}], q, range)
  IN IF missing \/ Empty(L, q) THEN Disbanded(L, {q}) ELSE L

Followers(S, q) == IF S.members[q] = {} THEN {None} ELSE S.members[q]

-----------------------------------------------------------------------------
(* The handlers of messages *)

InTheGame == UNCHANGED <<online, range>>
Silent == UNCHANGED <<channels, users>>

IsInviting(l, p) ==
  /\ party[l] # None
  /\ leader[party[l]] = l /\ p \in invitees[party[l]]

\* playerInviteToParty: the first invitation makes the party, at any address
\* that is free.
InviteToParty(p, i) ==
  /\ {p, i} \subseteq online /\ p # i
  /\ ~IsInviting(i, p)
  /\ party[i] = None
  /\ \E q \in PartyId :
       /\ IF party[p] = None THEN leader[q] = None
                             ELSE q = party[p] /\ leader[q] = p
       /\ i \notin invitees[q]
       /\ Become([Now EXCEPT !.party[p] = q, !.leader[q] = p,
                             !.invitees[q] = @ \cup {i},
                             !.invitations[i] = @ \cup {q}])
  /\ InTheGame /\ Silent

\* playerJoinParty
JoinParty(p, l) ==
  /\ {p, l} \subseteq online
  /\ IsInviting(l, p)
  /\ party[p] = None
  /\ Become(Joined(Now, party[l], p))
  /\ InTheGame /\ Silent

\* playerRevokePartyInvitation
RevokePartyInvitation(l, p) ==
  /\ {p, l} \subseteq online
  /\ IsInviting(l, p)
  /\ Become(Uninvited(Now, party[l], p))
  /\ InTheGame /\ Silent

\* playerPassPartyLeadership
PassPartyLeadership(l, n) ==
  /\ {l, n} \subseteq online /\ l # n
  /\ party[l] # None /\ leader[party[l]] = l
  /\ party[n] = party[l]
  /\ Become(Passed(Now, party[l], n))
  /\ InTheGame /\ Silent

\* playerLeaveParty; it is refused in a fight, which comes and goes.
LeaveParty(p) ==
  /\ p \in online /\ party[p] # None
  /\ \E n \in Followers(Now, party[p]) : Become(Left(Now, party[p], p, n))
  /\ InTheGame /\ Silent

\* playerEnableSharedPartyExperience, setSharedExperience.
EnableSharedPartyExperience(p, b) ==
  LET q == party[p] IN
    /\ p \in online /\ q # None
    /\ leader[q] = p /\ (q \in active) # b
    /\ active' = IF b THEN active \cup {q} ELSE active \ {q}
    /\ enabled' = IF ~b THEN enabled
                  ELSE IF CanEnable(Now, q, range) THEN enabled \cup {q}
                  ELSE enabled \ {q}
    /\ UNCHANGED <<party, invitations, leader, members, invitees, fought>>
    /\ InTheGame /\ Silent

\* Chat::getChannelList makes the channel of a party that asks for it.
RequestChannels(p) ==
  /\ p \in online /\ party[p] \in PartyId \ channels
  /\ channels' = channels \cup {party[p]}
  /\ Become(Now) /\ InTheGame /\ UNCHANGED users

\* addUserToChannel
OpenChannel(p) ==
  LET q == party[p] IN
    /\ p \in online /\ q \in channels
    /\ p \notin users[q]
    /\ users' = [users EXCEPT ![q] = @ \cup {p}]
    /\ Become(Now) /\ InTheGame /\ UNCHANGED channels

\* removeUserFromChannel; a party channel has no owner and is not deleted.
CloseChannel(p) ==
  LET q == party[p] IN
    /\ p \in online /\ q \in channels
    /\ p \in users[q]
    /\ users' = [users EXCEPT ![q] = @ \ {p}]
    /\ Become(Now) /\ InTheGame /\ UNCHANGED channels

-----------------------------------------------------------------------------
(* What happens to players *)

\* A player enters with an object of its own, in no party.
Login(p) ==
  /\ p \notin online
  /\ online' = online \cup {p}
  /\ \E r \in Range : range' = [range EXCEPT ![p] = r]
  /\ Become(Now) /\ Silent

\* onRemoveCreature, at logout, kick or death.
Logout(p) ==
  LET C == Cleared(Now, p) IN
    /\ p \in online
    /\ online' = online \ {p}
    /\ IF C.party[p] = None THEN Become(C)
       ELSE \E n \in Followers(C, C.party[p]) : Become(Left(C, C.party[p], p, n))
    /\ users' = [q \in PartyId |-> users[q] \ {p}]
    /\ UNCHANGED <<range, channels>>

\* Mutant: a step does not have the party look at its members.
QuietMove(p, r) ==
  /\ p \in online /\ r # range[p]
  /\ range' = [range EXCEPT ![p] = r]
  /\ Become(Now)
  /\ UNCHANGED online /\ Silent

\* onCreatureMove, or a level won or lost.
Move(p, r) ==
  LET there == [range EXCEPT ![p] = r] IN
    /\ p \in online /\ r # range[p]
    /\ range' = there
    /\ Become(IF party[p] = None THEN Now ELSE Updated(Now, party[p], there))
    /\ UNCHANGED online /\ Silent

\* updatePlayerTicks: the player hits a monster or heals a partner.
Fight(p) ==
  LET q == party[p] IN
    /\ p \in online /\ q # None
    /\ Become(Updated([Now EXCEPT !.fought[q] = @ \cup {p}], q, range))
    /\ InTheGame /\ Silent

\* onIdleStatus, clearPlayerPoints.
Rest(p) ==
  LET q == party[p] IN
    /\ p \in online /\ q # None
    /\ p \in fought[q]
    /\ Become(Updated([Now EXCEPT !.fought[q] = @ \ {p}], q, range))
    /\ InTheGame /\ Silent

\* PZ_LOCKED passes since the player's last hit; nothing looks.
Age(q, p) ==
  /\ p \in fought[q]
  /\ fought' = [fought EXCEPT ![q] = @ \ {p}]
  /\ UNCHANGED <<online, range, party, invitations, leader, members, invitees,
                 active, enabled, channels, users>>

Next ==
  \/ \E p, i \in Player :
       \/ InviteToParty(p, i) \/ JoinParty(p, i)
       \/ RevokePartyInvitation(p, i) \/ PassPartyLeadership(p, i)
  \/ \E p \in Player :
       \/ LeaveParty(p)
       \/ \E b \in BOOLEAN : EnableSharedPartyExperience(p, b)
       \/ RequestChannels(p) \/ OpenChannel(p) \/ CloseChannel(p)
       \/ Login(p) \/ Logout(p)
       \/ \E r \in Range : Move(p, r)
       \/ Fight(p) \/ Rest(p)
       \/ \E q \in PartyId : Age(q, p)

Spec == Init /\ [][Next]_vars

-----------------------------------------------------------------------------
(* Properties *)

\* Who is the leader or a member of a party says so, nobody else does, and
\* nobody is both: no player points to a party that was deleted, or that has
\* forgotten the player.
Membership ==
  \A q \in PartyId, p \in Player :
    /\ party[p] = q <=> leader[q] = p \/ p \in members[q]
    /\ leader[q] = p => p \notin members[q]

\* The two lists that hold an invitation agree.
InvitationsMutual ==
  \A q \in PartyId, p \in Player : q \in invitations[p] <=> p \in invitees[q]

\* A party has somebody beside its leader, or invites somebody: none stays
\* allocated with nobody to end it.
NoIdleParty ==
  \A q \in PartyId : leader[q] # None <=> ~Empty(Now, q)

\* Who is in a party that has been formed holds no invitation.
FormedUninvited ==
  \A p \in Player :
    party[p] # None /\ members[party[p]] # {} => invitations[p] = {}

\* Only players in the game are in parties or invited to one.
NobodyGone == \A p \in Player \ online : party[p] = None /\ invitations[p] = {}

\* A channel, also that of a party long deleted, holds no pointer to a player
\* who has left the game.
UsersOnline == \A q \in PartyId : users[q] \subseteq online

\* The pointers between players, parties and their channels stay sound through
\* every sequence of invitations, departures, successions and logouts.
PartiesSound ==
  /\ Membership /\ InvitationsMutual /\ NoIdleParty /\ FormedUninvited
  /\ NobodyGone /\ UsersOnline

\* Whenever experience is shared, the party is together: every step and every
\* level that could part it has been seen.  (Only that somebody has not
\* fought for a while goes unseen, until the next hit.)
SharingTogether ==
  \A q \in active \cap enabled :
    members[q] # {} /\ \A p \in members[q] : range[p] = range[leader[q]]

Symmetry == Permutations(Player) \cup Permutations(PartyId) \cup Permutations(Range)
=============================================================================
