----------------------------- MODULE PartyProofs -----------------------------
(***************************************************************************)
(* Party.tla for any players, addresses and places: the pointers between   *)
(* players, parties, invitations and channels are sound, and experience is *)
(* shared only by parties that are together.                               *)
(*                                                                         *)
(* The functions of Party change a record S; each has a lemma that says    *)
(* what it does to the named parts of the invariant, some of which do not  *)
(* hold between two calls of one handler.                                  *)
(***************************************************************************)
EXTENDS Party, TLAPS

State == [party : [Player -> PartyId \cup {None}],
          invitations : [Player -> SUBSET PartyId],
          leader : [PartyId -> Player \cup {None}],
          members : [PartyId -> SUBSET Player],
          invitees : [PartyId -> SUBSET Player],
          active : SUBSET PartyId, enabled : SUBSET PartyId,
          fought : [PartyId -> SUBSET Player]]

\* Membership, but for the parties Q, whose players may have left already.
MemberBut(S, Q) ==
  \A q \in PartyId, p \in Player :
    /\ S.party[p] = q => p \in Company(S, q)
    /\ p \in Company(S, q) => S.party[p] = q \/ (q \in Q /\ S.party[p] = None)
    /\ S.leader[q] = p => p \notin S.members[q]

Mutual(S) == \A q \in PartyId, p \in Player : q \in S.invitations[p] <=> p \in S.invitees[q]
Free(S) == \A q \in PartyId : S.leader[q] = None => Empty(S, q)
BusyBut(S, Q) == \A q \in PartyId \ Q : S.leader[q] # None => ~Empty(S, q)
FormedBut(S, P) ==
  \A p \in Player \ P :
    S.party[p] # None /\ S.members[S.party[p]] # {} => S.invitations[p] = {}
TogetherBut(S, at, Q) ==
  \A q \in (S.active \cap S.enabled) \ Q :
    S.members[q] # {} /\ \A p \in S.members[q] : at[p] = at[S.leader[q]]

\* What holds between two calls: the parties Q are about to be deleted, the
\* parties X to look at their members, the players P to give up invitations.
SoundBut(S, at, P, X, Q) ==
  /\ S \in State /\ MemberBut(S, Q) /\ Mutual(S) /\ Free(S)
  /\ BusyBut(S, Q) /\ FormedBut(S, P) /\ TogetherBut(S, at, X \cup Q)

\* The invariant of a state between two handlers.
Sound(S, at) == SoundBut(S, at, {}, {}, {})

\* Sound by its parts.
LEMMA SoundParts ==
  ASSUME NEW S, NEW at
  PROVE  Sound(S, at) <=>
           /\ S \in State /\ MemberBut(S, {}) /\ Mutual(S) /\ Free(S)
           /\ BusyBut(S, {}) /\ FormedBut(S, {}) /\ TogetherBut(S, at, {})
<1>1. TogetherBut(S, at, {} \cup {}) <=> TogetherBut(S, at, {})
  BY DEF TogetherBut
<1> QED
  BY <1>1 DEF Sound, SoundBut

\* The inductive invariant.
PartyInv ==
  /\ Sound(Now, range)
  /\ online \in SUBSET Player /\ range \in [Player -> Range]
  /\ channels \in SUBSET PartyId /\ users \in [PartyId -> SUBSET Player]
  /\ NobodyGone /\ UsersOnline

\* The invariant is the conjunction of what Party.tla states.
LEMMA InvSound == PartyInv <=> PartyTypeOK /\ PartiesSound /\ SharingTogether
<1>1. PartyTypeOK <=> /\ Now \in State /\ online \in SUBSET Player
                      /\ range \in [Player -> Range] /\ channels \in SUBSET PartyId
                      /\ users \in [PartyId -> SUBSET Player]
  BY DEF PartyTypeOK, State, Now
<1>2. ASSUME Now \in State
      PROVE  /\ Membership <=> MemberBut(Now, {})
             /\ InvitationsMutual <=> Mutual(Now)
             /\ NoIdleParty <=> Free(Now) /\ BusyBut(Now, {})
             /\ FormedUninvited <=> FormedBut(Now, {})
             /\ SharingTogether <=> TogetherBut(Now, range, {})
  <2>1. Membership <=> MemberBut(Now, {})
    BY <1>2, PartyAssumption DEF Membership, MemberBut, Company, Now, State
  <2>2. InvitationsMutual <=> Mutual(Now)
    BY DEF InvitationsMutual, Mutual, Now
  <2>3. NoIdleParty <=> Free(Now) /\ BusyBut(Now, {})
    BY DEF NoIdleParty, Free, BusyBut, Now
  <2>4. FormedUninvited <=> FormedBut(Now, {})
    BY DEF FormedUninvited, FormedBut, Now
  <2>5. SharingTogether <=> TogetherBut(Now, range, {})
    BY DEF SharingTogether, TogetherBut, Now
  <2> QED
    BY <2>1, <2>2, <2>3, <2>4, <2>5
<1> QED
  BY <1>1, <1>2, SoundParts DEF PartyInv, PartiesSound

-----------------------------------------------------------------------------
(* disband *)

\* Deleting parties leaves the others as they are, and nobody in the deleted
\* ones, even if their members have been taken out before.
LEMMA DisbandedKeeps ==
  ASSUME NEW S \in State, NEW Q \in SUBSET PartyId,
         MemberBut(S, Q), Mutual(S), Free(S),
         NEW D, D = Disbanded(S, Q)
  PROVE  /\ D \in State /\ MemberBut(D, {}) /\ Mutual(D) /\ Free(D)
         /\ \A q \in PartyId : D.leader[q] = IF q \in Q THEN None ELSE S.leader[q]
         /\ \A q \in PartyId : D.members[q] = IF q \in Q THEN {} ELSE S.members[q]
         /\ \A q \in PartyId : D.invitees[q] = IF q \in Q THEN {} ELSE S.invitees[q]
         /\ \A p \in Player : D.party[p] = S.party[p] \/ D.party[p] = None
         /\ \A p \in Player : S.party[p] \in PartyId \ Q => D.party[p] = S.party[p]
         /\ \A p \in Player : D.invitations[p] \subseteq S.invitations[p]
         /\ D.active = S.active \ Q /\ D.enabled = S.enabled \ Q
<1>1. D \in State
  BY DEF Disbanded, State
<1>2. /\ \A q \in PartyId : D.leader[q] = IF q \in Q THEN None ELSE S.leader[q]
      /\ \A q \in PartyId : D.members[q] = IF q \in Q THEN {} ELSE S.members[q]
      /\ \A q \in PartyId : D.invitees[q] = IF q \in Q THEN {} ELSE S.invitees[q]
      /\ D.active = S.active \ Q /\ D.enabled = S.enabled \ Q
  BY DEF Disbanded
<1>3. /\ \A p \in Player : D.party[p] = IF \E q \in Q : p \in Company(S, q)
                                           THEN None ELSE S.party[p]
      /\ \A p \in Player : D.invitations[p] = S.invitations[p] \ {q \in Q : p \in S.invitees[q]}
  BY DEF Disbanded
<1>4. \A p \in Player : S.party[p] \in PartyId \ Q => D.party[p] = S.party[p]
  <2> SUFFICES ASSUME NEW p \in Player, S.party[p] \in PartyId \ Q, NEW q \in Q, p \in Company(S, q)
               PROVE  FALSE
    BY <1>3
  <2>1. S.party[p] = q \/ S.party[p] = None
    BY DEF MemberBut
  <2> QED
    BY <2>1, PartyAssumption
<1>5. MemberBut(D, {})
  <2> SUFFICES ASSUME NEW q \in PartyId, NEW p \in Player
               PROVE  /\ D.party[p] = q => p \in Company(D, q)
                      /\ p \in Company(D, q) => D.party[p] = q
                      /\ D.leader[q] = p => p \notin D.members[q]
    BY DEF MemberBut
  <2>1. CASE q \in Q
    <3>1. D.party[p] # q
      <4> SUFFICES ASSUME D.party[p] = q PROVE FALSE
        OBVIOUS
      <4>1. S.party[p] = q
        BY <1>3, PartyAssumption
      <4>2. p \in Company(S, q)
        BY <4>1 DEF MemberBut
      <4> QED
        BY <1>3, <2>1, <4>2, PartyAssumption
    <3>2. p \notin Company(D, q)
      BY <1>2, <2>1, PartyAssumption DEF Company
    <3> QED
      BY <1>2, <2>1, <3>1, <3>2
  <2>2. CASE q \notin Q
    <3>1. Company(D, q) = Company(S, q)
      BY <1>2, <2>2 DEF Company
    <3>2. D.party[p] = q => p \in Company(D, q)
      BY <1>3, <3>1, PartyAssumption DEF MemberBut
    <3>3. p \in Company(D, q) => D.party[p] = q
      BY <1>4, <2>2, <3>1 DEF MemberBut
    <3>4. D.leader[q] = p => p \notin D.members[q]
      BY <1>2, <2>2 DEF MemberBut
    <3> QED
      BY <3>2, <3>3, <3>4
  <2> QED
    BY <2>1, <2>2
<1>6. Mutual(D)
  BY <1>2, <1>3 DEF Mutual
<1>7. Free(D)
  BY <1>2 DEF Free, Empty
<1> QED
  BY <1>1, <1>2, <1>3, <1>4, <1>5, <1>6, <1>7

\* Nobody enters a party or is invited to one.
Fewer(S, D) ==
  \A p \in Player : /\ D.party[p] = S.party[p] \/ D.party[p] = None
                    /\ D.invitations[p] \subseteq S.invitations[p]

\* What depends on who is in a party outlives disband.
LEMMA DisbandedSound ==
  ASSUME NEW S, NEW at, NEW P, NEW X, NEW Q \in SUBSET PartyId,
         SoundBut(S, at, P, X, Q)
  PROVE  SoundBut(Disbanded(S, Q), at, P, X, {}) /\ Fewer(S, Disbanded(S, Q))
<1> DEFINE D == Disbanded(S, Q)
<1>0. /\ S \in State /\ MemberBut(S, Q) /\ Mutual(S) /\ Free(S) /\ FormedBut(S, P)
      /\ TogetherBut(S, at, X \cup Q) /\ BusyBut(S, Q)
  BY DEF SoundBut
<1>k. /\ D \in State /\ MemberBut(D, {}) /\ Mutual(D) /\ Free(D)
      /\ \A q \in PartyId : D.leader[q] = IF q \in Q THEN None ELSE S.leader[q]
      /\ \A q \in PartyId : D.members[q] = IF q \in Q THEN {} ELSE S.members[q]
      /\ \A q \in PartyId : D.invitees[q] = IF q \in Q THEN {} ELSE S.invitees[q]
      /\ \A p \in Player : D.party[p] = S.party[p] \/ D.party[p] = None
      /\ \A p \in Player : S.party[p] \in PartyId \ Q => D.party[p] = S.party[p]
      /\ \A p \in Player : D.invitations[p] \subseteq S.invitations[p]
      /\ D.active = S.active \ Q /\ D.enabled = S.enabled \ Q
  BY <1>0, DisbandedKeeps
<1> HIDE DEF D
<1>1. FormedBut(D, P)
  <2> SUFFICES ASSUME NEW p \in Player \ P, D.party[p] # None, D.members[D.party[p]] # {}
               PROVE  D.invitations[p] = {}
    BY DEF FormedBut
  <2>1. D.party[p] = S.party[p] /\ D.party[p] \in PartyId
    BY <1>0, <1>k DEF State
  <2>2. S.members[S.party[p]] # {}
    BY <1>k, <2>1
  <2>3. S.invitations[p] = {}
    BY <1>0, <2>1, <2>2 DEF FormedBut
  <2> QED
    BY <1>k, <2>3
<1>2. TogetherBut(D, at, X \cup {})
  <2>1. D.active \subseteq PartyId
    BY <1>0, <1>k DEF State
  <2> QED
    BY <1>0, <1>k, <2>1 DEF TogetherBut
<1>3. BusyBut(D, {})
  BY <1>0, <1>k DEF BusyBut, Empty
<1> QED
  BY <1>k, <1>1, <1>2, <1>3 DEF SoundBut, Fewer, D

-----------------------------------------------------------------------------
(* clearPartyInvitations *)

\* Giving up all invitations of p ends only parties that nobody has joined
\* and that invite nobody else.
ClearedOnly(S, C, p) ==
  /\ C.invitations[p] = {}
  /\ \A x \in Player : /\ C.invitations[x] \subseteq S.invitations[x]
                       /\ C.party[x] = S.party[x] \/ C.party[x] = None
  /\ C.members = S.members
  /\ \A q \in PartyId :
       S.members[q] # {} \/ S.invitees[q] \ {p} # {} =>
         /\ C.leader[q] = S.leader[q]
         /\ C.invitees[q] = S.invitees[q] \ {p}
         /\ \A x \in Player : S.party[x] = q => C.party[x] = q

\* After clearPartyInvitations the player may join a party that is formed.
LEMMA ClearedSound ==
  ASSUME NEW S, NEW at, NEW p \in Player, NEW P \in SUBSET {p}, NEW X,
         SoundBut(S, at, P, X, {})
  PROVE  SoundBut(Cleared(S, p), at, {}, X, {}) /\ ClearedOnly(S, Cleared(S, p), p)
<1> DEFINE U == [S EXCEPT !.invitations[p] = {},
                          !.invitees = [q \in PartyId |-> IF q \in S.invitations[p]
                                                            THEN @[q] \ {p} ELSE @[q]]]
           Q == {q \in S.invitations[p] : Empty(U, q)}
           C == Cleared(S, p)
<1>0. /\ S \in State /\ MemberBut(S, {}) /\ Mutual(S) /\ Free(S) /\ BusyBut(S, {})
      /\ FormedBut(S, P) /\ TogetherBut(S, at, X \cup {})
  BY DEF SoundBut
<1>1. C = Disbanded(U, Q)
  BY DEF Cleared
<1> HIDE DEF C
<1>2. /\ U \in State
      /\ U.party = S.party /\ U.leader = S.leader /\ U.members = S.members
      /\ U.active = S.active /\ U.enabled = S.enabled
      /\ \A x \in Player : U.invitations[x] = IF x = p THEN {} ELSE S.invitations[x]
      /\ \A q \in PartyId : U.invitees[q] = S.invitees[q] \ {p}
  <2>1. S.invitations[p] \subseteq PartyId
    BY <1>0 DEF State
  <2>2. \A q \in PartyId : U.invitees[q] = IF q \in S.invitations[p] THEN S.invitees[q] \ {p}
                                                                    ELSE S.invitees[q]
    BY <1>0 DEF State
  <2>3. \A q \in PartyId : U.invitees[q] = S.invitees[q] \ {p}
    BY <1>0, <2>2 DEF Mutual
  <2>4. /\ U \in State
        /\ U.party = S.party /\ U.leader = S.leader /\ U.members = S.members
        /\ U.active = S.active /\ U.enabled = S.enabled
        /\ \A x \in Player : U.invitations[x] = IF x = p THEN {} ELSE S.invitations[x]
    BY <1>0 DEF State
  <2> QED
    BY <2>3, <2>4
<1>3. Q \in SUBSET PartyId
  BY <1>0 DEF State
<1> HIDE DEF U
<1>4. \A q \in PartyId : q \in Q => S.members[q] = {} /\ S.invitees[q] \ {p} = {}
  BY <1>2 DEF Empty
<1>5. MemberBut(U, Q) /\ Mutual(U) /\ Free(U) /\ FormedBut(U, {}) /\ TogetherBut(U, at, X \cup Q)
  <2>1. MemberBut(U, Q)
    BY <1>0, <1>2 DEF MemberBut, Company
  <2>2. Mutual(U)
    BY <1>0, <1>2 DEF Mutual
  <2>3. Free(U)
    BY <1>0, <1>2 DEF Free, Empty
  <2>4. FormedBut(U, {})
    BY <1>0, <1>2 DEF FormedBut
  <2>5. TogetherBut(U, at, X \cup Q)
    BY <1>0, <1>2 DEF TogetherBut
  <2> QED
    BY <2>1, <2>2, <2>3, <2>4, <2>5
<1>6. BusyBut(U, Q)
  <2> SUFFICES ASSUME NEW q \in PartyId \ Q, U.leader[q] # None, Empty(U, q)
               PROVE  FALSE
    BY DEF BusyBut
  <2>1. q \notin S.invitations[p]
    OBVIOUS
  <2>2. p \notin S.invitees[q]
    BY <1>0, <2>1 DEF Mutual
  <2>3. U.invitees[q] = S.invitees[q]
    <3>1. U.invitees[q] = S.invitees[q] \ {p}
      BY <1>2
    <3> QED
      BY <2>2, <3>1
  <2> QED
    BY <1>0, <1>2, <2>3 DEF BusyBut, Empty
<1> HIDE DEF Q
<1>7. SoundBut(U, at, {}, X, Q)
  BY <1>2, <1>5, <1>6 DEF SoundBut
<1>8. SoundBut(C, at, {}, X, {})
  BY <1>1, <1>3, <1>7, DisbandedSound
<1>k. /\ C \in State
      /\ \A q \in PartyId : C.leader[q] = IF q \in Q THEN None ELSE U.leader[q]
      /\ \A q \in PartyId : C.members[q] = IF q \in Q THEN {} ELSE U.members[q]
      /\ \A q \in PartyId : C.invitees[q] = IF q \in Q THEN {} ELSE U.invitees[q]
      /\ \A x \in Player : C.party[x] = U.party[x] \/ C.party[x] = None
      /\ \A x \in Player : U.party[x] \in PartyId \ Q => C.party[x] = U.party[x]
      /\ \A x \in Player : C.invitations[x] \subseteq U.invitations[x]
  BY <1>1, <1>2, <1>3, <1>5, DisbandedKeeps
<1>9. C.members = S.members
  <2>1. \A q \in PartyId : C.members[q] = S.members[q]
    BY <1>2, <1>4, <1>k, ZenonT(60)
  <2> QED
    BY <1>0, <1>k, <2>1 DEF State
<1>10. C.invitations[p] = {} /\ \A x \in Player : C.invitations[x] \subseteq S.invitations[x]
  BY <1>2, <1>k
<1>11. ASSUME NEW q \in PartyId, S.members[q] # {} \/ S.invitees[q] \ {p} # {}
       PROVE  /\ C.leader[q] = S.leader[q]
              /\ C.invitees[q] = S.invitees[q] \ {p}
              /\ \A x \in Player : S.party[x] = q => C.party[x] = q
  <2>1. q \notin Q
    BY <1>4, <1>11
  <2> QED
    BY <1>0, <1>2, <1>k, <2>1
<1> QED
  BY <1>2, <1>k, <1>8, <1>9, <1>10, <1>11 DEF ClearedOnly, C

-----------------------------------------------------------------------------
(* updateSharedExperience *)

UpdatedOnly(S, U) ==
  /\ U.party = S.party /\ U.invitations = S.invitations /\ U.leader = S.leader
  /\ U.members = S.members /\ U.invitees = S.invitees /\ U.active = S.active

\* After a look at its members a party that shares experience is together.
LEMMA UpdatedSound ==
  ASSUME NEW S, NEW at, NEW q \in PartyId, NEW Q, SoundBut(S, at, {}, {q}, Q)
  PROVE  SoundBut(Updated(S, q, at), at, {}, {}, Q) /\ UpdatedOnly(S, Updated(S, q, at))
<1> DEFINE U == Updated(S, q, at)
<1>0. /\ S \in State /\ MemberBut(S, Q) /\ Mutual(S) /\ Free(S) /\ BusyBut(S, Q)
      /\ FormedBut(S, {}) /\ TogetherBut(S, at, {q} \cup Q)
  BY DEF SoundBut
<1>1. /\ U \in State
      /\ U.party = S.party /\ U.invitations = S.invitations /\ U.leader = S.leader
      /\ U.members = S.members /\ U.invitees = S.invitees /\ U.active = S.active
  BY <1>0 DEF Updated, State
<1>2. \A x \in PartyId \ {q} : x \in U.enabled <=> x \in S.enabled
  BY <1>0 DEF Updated, State
<1>3. q \in U.active \cap U.enabled => CanEnable(S, q, at)
  BY <1>0 DEF Updated, State
<1> HIDE DEF U
<1>4. TogetherBut(U, at, {} \cup Q)
  <2> SUFFICES ASSUME NEW x \in (U.active \cap U.enabled) \ Q
               PROVE  U.members[x] # {} /\ \A p \in U.members[x] : at[p] = at[U.leader[x]]
    BY DEF TogetherBut
  <2>1. CASE x = q
    BY <1>1, <1>3, <2>1 DEF CanEnable, Company
  <2>2. CASE x # q
    <3>1. x \in (S.active \cap S.enabled) \ ({q} \cup Q)
      BY <1>0, <1>1, <1>2, <2>2 DEF State
    <3> QED
      BY <1>0, <1>1, <3>1 DEF TogetherBut
  <2> QED
    BY <2>1, <2>2
<1>5. MemberBut(U, Q) /\ Mutual(U) /\ Free(U) /\ BusyBut(U, Q) /\ FormedBut(U, {})
  BY <1>0, <1>1 DEF MemberBut, Mutual, Free, BusyBut, FormedBut, Company, Empty
<1> QED
  BY <1>1, <1>4, <1>5 DEF SoundBut, UpdatedOnly, U

-----------------------------------------------------------------------------
(* joinParty, removeInvite, passPartyLeadership, leaveParty *)

\* joinParty gives up the invitations that forming a party calls for.
LEMMA JoinedSound ==
  ASSUME NEW S, Sound(S, range), NEW q \in PartyId, NEW l \in Player, NEW p \in Player,
         S.leader[q] = l, p \in S.invitees[q], S.party[p] = None
  PROVE  Sound(Joined(S, q, p), range) /\ Joined(S, q, p).party[p] \in PartyId
         /\ \A x \in Player \ {p} : /\ S.party[x] = None => Joined(S, q, p).party[x] = None
                                    /\ Joined(S, q, p).invitations[x] \subseteq S.invitations[x]
<1> DEFINE L == IF S.members[q] = {} THEN Cleared(S, S.leader[q]) ELSE S
           K == [L EXCEPT !.members[q] = @ \cup {p}, !.party[p] = q]
           J == Cleared(K, p)
<1>1. p # l /\ S.party[l] = q
  BY SoundParts, PartyAssumption DEF MemberBut, Company
<1>2. /\ Sound(L, range)
      /\ L.leader[q] = l /\ L.party[l] = q /\ L.party[p] = None /\ L.invitations[l] = {}
      /\ L.members = S.members
      /\ S.members[q] # {} => L = S
      /\ \A x \in Player : /\ S.party[x] = None => L.party[x] = None
                           /\ L.invitations[x] \subseteq S.invitations[x]
  <2>1. CASE S.members[q] = {}
    <3>1. L = Cleared(S, l)
      BY <2>1
    <3>2. S.invitees[q] \ {l} # {}
      BY <1>1
    <3>4. SoundBut(S, range, {}, {}, {}) /\ {} \in SUBSET {l}
      BY DEF Sound
    <3> HIDE DEF L
    <3>5. SoundBut(L, range, {}, {}, {}) /\ ClearedOnly(S, L, l)
      BY <3>1, <3>4, ClearedSound
    <3>3. /\ L.leader[q] = l /\ L.party[l] = q /\ L.invitations[l] = {}
          /\ L.members = S.members
          /\ \A x \in Player : /\ L.party[x] = S.party[x] \/ L.party[x] = None
                               /\ L.invitations[x] \subseteq S.invitations[x]
      <4>1. \A x \in Player : /\ L.party[x] = S.party[x] \/ L.party[x] = None
                              /\ L.invitations[x] \subseteq S.invitations[x]
        BY <3>5 DEF ClearedOnly
      <4>2. L.invitations[l] = {} /\ L.members = S.members
        BY <3>5 DEF ClearedOnly
      <4>3. L.leader[q] = S.leader[q] /\ \A x \in Player : S.party[x] = q => L.party[x] = q
        BY <3>2, <3>5 DEF ClearedOnly
      <4> QED
        BY <1>1, <4>1, <4>2, <4>3
    <3> QED
      BY <2>1, <3>3, <3>5 DEF Sound
  <2>2. CASE S.members[q] # {}
    <3>1. L = S
      BY <2>2
    <3>2. S.invitations[l] = {}
      BY <1>1, <2>2, SoundParts, PartyAssumption DEF FormedBut
    <3> QED
      BY <1>1, <3>1, <3>2
  <2> QED
    BY <2>1, <2>2
<1> HIDE DEF L
<1>3. L \in State /\ MemberBut(L, {}) /\ Mutual(L) /\ Free(L) /\ BusyBut(L, {})
      /\ FormedBut(L, {}) /\ TogetherBut(L, range, {})
  BY <1>2, SoundParts
<1>4. /\ K \in State
      /\ K.leader = L.leader /\ K.invitations = L.invitations /\ K.invitees = L.invitees
      /\ K.active = L.active /\ K.enabled = L.enabled
      /\ \A x \in PartyId : K.members[x] = IF x = q THEN L.members[q] \cup {p} ELSE L.members[x]
      /\ \A x \in Player : K.party[x] = IF x = p THEN q ELSE L.party[x]
  BY <1>3 DEF State
<1> HIDE DEF K
<1>5. MemberBut(K, {})
  <2>1. \A x \in PartyId : p \notin Company(L, x)
    BY <1>2, <1>3, PartyAssumption DEF MemberBut
  <2>2. \A x \in PartyId : Company(K, x) = IF x = q THEN Company(L, q) \cup {p} ELSE Company(L, x)
    BY <1>4 DEF Company
  <2>3. \A x \in PartyId, y \in Player : K.party[y] = x <=> y \in Company(K, x)
    BY <1>3, <1>4, <2>1, <2>2, PartyAssumption DEF MemberBut
  <2>4. \A x \in PartyId, y \in Player : K.leader[x] = y => y \notin K.members[x]
    BY <1>1, <1>2, <1>3, <1>4 DEF MemberBut
  <2> QED
    BY <2>3, <2>4 DEF MemberBut
<1>6. Mutual(K) /\ Free(K) /\ BusyBut(K, {})
  <2>1. Mutual(K)
    BY <1>3, <1>4 DEF Mutual
  <2>2. Free(K)
    BY <1>2, <1>3, <1>4, PartyAssumption DEF Free, Empty
  <2>3. BusyBut(K, {})
    BY <1>3, <1>4 DEF BusyBut, Empty
  <2> QED
    BY <2>1, <2>2, <2>3
<1>7. FormedBut(K, {p})
  <2> SUFFICES ASSUME NEW x \in Player \ {p}, K.party[x] # None, K.members[K.party[x]] # {}
               PROVE  K.invitations[x] = {}
    BY DEF FormedBut
  <2>1. K.party[x] = L.party[x] /\ K.invitations[x] = L.invitations[x] /\ L.party[x] \in PartyId
    BY <1>3, <1>4 DEF State
  <2>2. CASE L.party[x] # q
    BY <1>3, <1>4, <2>1, <2>2 DEF FormedBut
  <2>3. CASE L.party[x] = q /\ x # l
    <3>1. x \in L.members[q]
      BY <1>2, <1>3, <2>3 DEF MemberBut, Company
    <3> QED
      BY <1>3, <2>1, <2>3, <3>1 DEF FormedBut
  <2> QED
    BY <1>2, <2>1, <2>2, <2>3
<1>8. TogetherBut(K, range, {q})
  BY <1>3, <1>4 DEF TogetherBut, State
<1>9. SoundBut(K, range, {p}, {q}, {}) /\ {p} \in SUBSET {p}
  BY <1>4, <1>5, <1>6, <1>7, <1>8 DEF SoundBut, TogetherBut
<1>10. SoundBut(J, range, {}, {q}, {}) /\ ClearedOnly(K, J, p)
  BY <1>9, ClearedSound
<1> HIDE DEF J
<1>11. J.party[p] = q
  BY <1>4, <1>10 DEF ClearedOnly
<1>12. Sound(Updated(J, q, range), range) /\ UpdatedOnly(J, Updated(J, q, range))
  BY <1>10, UpdatedSound DEF Sound
<1>13. Joined(S, q, p) = Updated(J, q, range)
  BY DEF Joined, J, K, L
<1>14. Joined(S, q, p).party = J.party /\ Joined(S, q, p).invitations = J.invitations
  BY <1>12, <1>13 DEF UpdatedOnly
<1>15. \A x \in Player \ {p} : /\ S.party[x] = None => J.party[x] = None
                               /\ J.invitations[x] \subseteq S.invitations[x]
  <2> TAKE x \in Player \ {p}
  <2>1. /\ S.party[x] = None => L.party[x] = None
        /\ L.invitations[x] \subseteq S.invitations[x]
    BY <1>2
  <2>2. K.party[x] = L.party[x] /\ K.invitations[x] = L.invitations[x]
    BY <1>4
  <2>3. /\ J.party[x] = K.party[x] \/ J.party[x] = None
        /\ J.invitations[x] \subseteq K.invitations[x]
    BY <1>10 DEF ClearedOnly
  <2> QED
    BY <2>1, <2>2, <2>3
<1> QED
  BY <1>11, <1>12, <1>13, <1>14, <1>15

\* An invitation is withdrawn on both sides, and the last one ends a party that
\* nobody has joined.
LEMMA UninvitedSound ==
  ASSUME NEW S, NEW at, Sound(S, at), NEW q \in PartyId, NEW p \in Player
  PROVE  /\ Sound(Uninvited(S, q, p), at)
         /\ Fewer(S, Uninvited(S, q, p))
<1> DEFINE U == [S EXCEPT !.invitees[q] = @ \ {p}, !.invitations[p] = @ \ {q}]
<1>1. S \in State /\ MemberBut(S, {}) /\ Mutual(S) /\ Free(S) /\ BusyBut(S, {})
      /\ FormedBut(S, {}) /\ TogetherBut(S, at, {})
  BY SoundParts
<1>2. /\ U \in State
      /\ U.party = S.party /\ U.leader = S.leader /\ U.members = S.members
      /\ U.active = S.active /\ U.enabled = S.enabled
      /\ \A x \in Player : U.invitations[x] = IF x = p THEN S.invitations[p] \ {q}
                                                      ELSE S.invitations[x]
      /\ \A x \in PartyId : U.invitees[x] = IF x = q THEN S.invitees[q] \ {p}
                                                    ELSE S.invitees[x]
  BY <1>1 DEF State
<1>3. Uninvited(S, q, p) = IF Empty(U, q) THEN Disbanded(U, {q}) ELSE U
  BY DEF Uninvited
<1> HIDE DEF U
<1>4. /\ MemberBut(U, {}) /\ Mutual(U) /\ Free(U) /\ FormedBut(U, {}) /\ TogetherBut(U, at, {})
      /\ BusyBut(U, {q})
  <2>1. MemberBut(U, {})
    BY <1>1, <1>2 DEF MemberBut, Company
  <2>2. Mutual(U)
    BY <1>1, <1>2 DEF Mutual
  <2>3. Free(U)
    BY <1>1, <1>2 DEF Free, Empty
  <2>4. FormedBut(U, {})
    BY <1>1, <1>2 DEF FormedBut
  <2>5. TogetherBut(U, at, {})
    BY <1>1, <1>2 DEF TogetherBut
  <2>6. BusyBut(U, {q})
    BY <1>1, <1>2 DEF BusyBut, Empty
  <2> QED
    BY <2>1, <2>2, <2>3, <2>4, <2>5, <2>6
<1>5. CASE Empty(U, q)
  <2> DEFINE D == Disbanded(U, {q})
  <2>1. SoundBut(U, at, {}, {}, {q}) /\ {q} \in SUBSET PartyId
    BY <1>2, <1>4 DEF SoundBut, MemberBut, TogetherBut
  <2>2. Sound(D, at) /\ Fewer(U, D)
    BY <2>1, DisbandedSound DEF Sound
  <2>3. Uninvited(S, q, p) = D
    BY <1>3, <1>5
  <2> HIDE DEF D
  <2>4. \A x \in Player : U.invitations[x] \subseteq S.invitations[x]
    BY <1>2
  <2> QED
    BY <1>2, <2>2, <2>3, <2>4 DEF Fewer
<1>6. CASE ~Empty(U, q)
  <2>1. BusyBut(U, {})
    BY <1>4, <1>6 DEF BusyBut
  <2> QED
    BY <1>2, <1>3, <1>4, <1>6, <2>1, SoundParts DEF Fewer
<1> QED
  BY <1>5, <1>6

\* The member who follows the leader changes places with the one who led.
LEMMA PassedSound ==
  ASSUME NEW S, Sound(S, range), NEW q \in PartyId, NEW n \in S.members[q]
  PROVE  /\ Sound(Passed(S, q, n), range)
         /\ Passed(S, q, n).party = S.party /\ Passed(S, q, n).invitations = S.invitations
         /\ Passed(S, q, n).leader[q] = n
<1> DEFINE T == [S EXCEPT !.leader[q] = n, !.members[q] = (@ \ {n}) \cup {S.leader[q]}]
<1>1. S \in State /\ MemberBut(S, {}) /\ Mutual(S) /\ Free(S) /\ BusyBut(S, {})
      /\ FormedBut(S, {}) /\ TogetherBut(S, range, {})
  BY SoundParts
<1>2. S.leader[q] \in Player /\ n \in Player /\ S.leader[q] # n
  BY <1>1 DEF State, Free, Empty, MemberBut
<1>3. /\ T \in State
      /\ T.party = S.party /\ T.invitations = S.invitations /\ T.invitees = S.invitees
      /\ T.active = S.active /\ T.enabled = S.enabled
      /\ \A x \in PartyId : T.leader[x] = IF x = q THEN n ELSE S.leader[x]
      /\ \A x \in PartyId : T.members[x] = IF x = q THEN (S.members[q] \ {n}) \cup {S.leader[q]}
                                                   ELSE S.members[x]
  BY <1>1, <1>2 DEF State
<1> HIDE DEF T
<1>4. MemberBut(T, {})
  <2>1. \A x \in PartyId : Company(T, x) = Company(S, x)
    BY <1>2, <1>3 DEF Company
  <2>2. \A x \in PartyId, p \in Player : T.leader[x] = p => p \notin T.members[x]
    BY <1>1, <1>2, <1>3 DEF MemberBut
  <2> QED
    BY <1>1, <1>3, <2>1, <2>2 DEF MemberBut
<1>5. Mutual(T)
  BY <1>1, <1>3 DEF Mutual
<1>6. Free(T)
  BY <1>1, <1>2, <1>3, PartyAssumption DEF Free, Empty
<1>7. BusyBut(T, {})
  BY <1>1, <1>3 DEF BusyBut, Empty
<1>8. FormedBut(T, {})
  <2> SUFFICES ASSUME NEW p \in Player, T.party[p] # None, T.members[T.party[p]] # {}
               PROVE  T.invitations[p] = {}
    BY DEF FormedBut
  <2>1. S.party[p] \in PartyId /\ S.members[S.party[p]] # {}
    BY <1>1, <1>3 DEF State
  <2> QED
    BY <1>1, <1>3, <2>1, PartyAssumption DEF FormedBut
<1>9. TogetherBut(T, range, {q} \cup {})
  BY <1>1, <1>3 DEF TogetherBut, State
<1>10. SoundBut(T, range, {}, {q}, {})
  BY <1>3, <1>4, <1>5, <1>6, <1>7, <1>8, <1>9 DEF SoundBut
<1>11. Passed(S, q, n) = Updated(T, q, range)
  BY DEF Passed, T
<1>12. Sound(Passed(S, q, n), range) /\ UpdatedOnly(T, Passed(S, q, n))
  BY <1>10, <1>11, UpdatedSound DEF Sound
<1> QED
  BY <1>3, <1>12 DEF UpdatedOnly

Dropped(S, q, p) ==
  [S EXCEPT !.members[q] = @ \ {p}, !.party[p] = None, !.fought[q] = @ \ {p}]

\* A player is taken out of a party, which may have to end for it.
LEMMA DroppedSound ==
  ASSUME NEW S, NEW at, Sound(S, at), NEW q \in PartyId, NEW p \in Player, S.party[p] = q,
         NEW T, T = Dropped(S, q, p)
  PROVE  /\ SoundBut(T, at, {}, {q}, {q})
         /\ S.leader[q] # p /\ ~Empty(T, q) => SoundBut(T, at, {}, {q}, {})
<1>1. S \in State /\ MemberBut(S, {}) /\ Mutual(S) /\ Free(S) /\ BusyBut(S, {})
      /\ FormedBut(S, {}) /\ TogetherBut(S, at, {})
  BY SoundParts
<1>2. /\ T \in State
      /\ T.leader = S.leader /\ T.invitations = S.invitations /\ T.invitees = S.invitees
      /\ T.active = S.active /\ T.enabled = S.enabled
      /\ \A x \in Player : T.party[x] = IF x = p THEN None ELSE S.party[x]
      /\ \A x \in PartyId : T.members[x] = IF x = q THEN S.members[q] \ {p} ELSE S.members[x]
  BY <1>1 DEF Dropped, State
<1>3. MemberBut(T, {q}) /\ (S.leader[q] # p => MemberBut(T, {}))
  <2>1. ASSUME NEW x \in PartyId, NEW y \in Player
        PROVE  /\ T.party[y] = x => y \in Company(T, x)
               /\ y \in Company(T, x) =>
                    T.party[y] = x \/ (x = q /\ T.party[y] = None /\ S.leader[q] = p)
               /\ T.leader[x] = y => y \notin T.members[x]
    <3>1. S.party[y] = x <=> y \in Company(S, x)
      BY <1>1 DEF MemberBut
    <3>2. CASE y = p
      BY <1>2, <3>1, <3>2, PartyAssumption DEF Company
    <3>3. CASE y # p
      BY <1>1, <1>2, <3>1, <3>3 DEF Company, MemberBut
    <3>4. T.leader[x] = y => y \notin T.members[x]
      BY <1>1, <1>2 DEF MemberBut
    <3> QED
      BY <3>2, <3>3, <3>4
  <2> QED
    BY <2>1 DEF MemberBut
<1>4. Mutual(T)
  BY <1>1, <1>2 DEF Mutual
<1>5. Free(T)
  BY <1>1, <1>2 DEF Free, Empty
<1>6. BusyBut(T, {q}) /\ (~Empty(T, q) => BusyBut(T, {}))
  BY <1>1, <1>2 DEF BusyBut, Empty
<1>7. FormedBut(T, {})
  <2> SUFFICES ASSUME NEW x \in Player, T.party[x] # None, T.members[T.party[x]] # {}
               PROVE  T.invitations[x] = {}
    BY DEF FormedBut
  <2>1. S.party[x] \in PartyId /\ S.members[S.party[x]] # {}
    BY <1>1, <1>2 DEF State
  <2> QED
    BY <1>1, <1>2, <2>1, PartyAssumption DEF FormedBut
<1>8. TogetherBut(T, at, {q} \cup {}) /\ TogetherBut(T, at, {q} \cup {q})
  BY <1>1, <1>2 DEF TogetherBut, State
<1> QED
  BY <1>2, <1>3, <1>4, <1>5, <1>6, <1>7, <1>8 DEF SoundBut

\* Whoever leaves, a leader, a member or the last one but one, the parties
\* stay sound, and nobody else enters one.
LEMMA LeftSound ==
  ASSUME NEW S, Sound(S, range), NEW q \in PartyId, NEW p \in Player, S.party[p] = q,
         NEW n \in Followers(S, q)
  PROVE  /\ Sound(Left(S, q, p, n), range)
         /\ Left(S, q, p, n).party[p] = None
         /\ Fewer(S, Left(S, q, p, n))
<1> DEFINE missing == /\ S.leader[q] = p
                      /\ \/ S.members[q] = {}
                         \/ S.members[q] = {n} /\ S.invitees[q] = {}
           P == IF S.leader[q] = p /\ ~missing THEN Passed(S, q, n) ELSE S
           T == Dropped(P, q, p)
           L == Updated(T, q, range)
           R == Left(S, q, p, n)
<1>1. R = IF missing \/ Empty(L, q) THEN Disbanded(L, {q}) ELSE L
  BY DEF Left, Dropped
<1>2. /\ Sound(P, range) /\ P.party = S.party /\ P.invitations = S.invitations
      /\ ~missing => P.leader[q] # p
  <2>1. CASE S.leader[q] = p /\ ~missing
    <3>1. n \in S.members[q]
      BY <2>1 DEF Followers
    <3>2. p # n
      BY <2>1, <3>1, SoundParts DEF MemberBut
    <3> QED
      BY <2>1, <3>1, <3>2, PassedSound
  <2>2. CASE ~(S.leader[q] = p /\ ~missing)
    BY <2>2
  <2> QED
    BY <2>1, <2>2
<1> HIDE DEF missing, P
<1>3. /\ SoundBut(T, range, {}, {q}, {q})
      /\ ~missing /\ ~Empty(T, q) => SoundBut(T, range, {}, {q}, {})
      /\ T.party[p] = None /\ \A x \in Player \ {p} : T.party[x] = S.party[x]
      /\ T.invitations = S.invitations
  <2>1. P.party[p] = q
    BY <1>2
  <2>2. /\ SoundBut(T, range, {}, {q}, {q})
        /\ P.leader[q] # p /\ ~Empty(T, q) => SoundBut(T, range, {}, {q}, {})
    BY <1>2, <2>1, DroppedSound
  <2>3. /\ T.party[p] = None /\ \A x \in Player \ {p} : T.party[x] = P.party[x]
        /\ T.invitations = P.invitations
    BY <1>2, SoundParts DEF Dropped, State
  <2> QED
    BY <1>2, <2>2, <2>3
<1> HIDE DEF T
<1>4. SoundBut(L, range, {}, {}, {q}) /\ UpdatedOnly(T, L)
  BY <1>3, UpdatedSound
<1>5. ~missing /\ ~Empty(T, q) => Sound(L, range)
  BY <1>3, UpdatedSound DEF Sound
<1>6. Empty(L, q) <=> Empty(T, q)
  BY <1>4 DEF UpdatedOnly, Empty
<1> HIDE DEF L, R
<1>7. /\ L.party[p] = None /\ \A x \in Player : L.party[x] = None \/ L.party[x] = S.party[x]
      /\ L.invitations = S.invitations
  BY <1>3, <1>4 DEF UpdatedOnly
<1>8. CASE missing \/ Empty(L, q)
  <2>1. R = Disbanded(L, {q}) /\ {q} \in SUBSET PartyId
    BY <1>1, <1>8
  <2>2. Sound(R, range) /\ Fewer(L, R)
    BY <1>4, <2>1, DisbandedSound DEF Sound
  <2> QED
    BY <1>7, <2>2 DEF Fewer, R
<1>9. CASE ~(missing \/ Empty(L, q))
  <2>1. R = L
    BY <1>1, <1>9
  <2> QED
    BY <1>5, <1>6, <1>7, <1>9, <2>1 DEF Fewer, R
<1> QED
  BY <1>8, <1>9

\* Where the players stand matters to the parties they are in.
LEMMA MovedSound ==
  ASSUME NEW S, Sound(S, range), NEW p \in Player, NEW r \in Range,
         range \in [Player -> Range], NEW q, q = S.party[p]
  PROVE  SoundBut(S, [range EXCEPT ![p] = r], {}, {q}, {})
<1>1. S \in State /\ MemberBut(S, {}) /\ Mutual(S) /\ Free(S) /\ BusyBut(S, {})
      /\ FormedBut(S, {}) /\ TogetherBut(S, range, {})
  BY SoundParts
<1>2. TogetherBut(S, [range EXCEPT ![p] = r], {q} \cup {})
  <2> SUFFICES ASSUME NEW x \in (S.active \cap S.enabled) \ {q}
               PROVE  S.members[x] # {} /\ \A m \in S.members[x] :
                        [range EXCEPT ![p] = r][m] = [range EXCEPT ![p] = r][S.leader[x]]
    BY DEF TogetherBut
  <2>1. x \in PartyId /\ S.members[x] \in SUBSET Player /\ S.leader[x] \in Player \cup {None}
    BY <1>1 DEF State
  <2>2. S.members[x] # {} /\ \A m \in S.members[x] : range[m] = range[S.leader[x]]
    BY <1>1 DEF TogetherBut
  <2>3. S.leader[x] # None
    BY <1>1, <2>1, <2>2 DEF Free, Empty
  <2>4. p \notin S.members[x] /\ p # S.leader[x]
    BY <1>1, <2>1 DEF MemberBut, Company
  <2> QED
    BY <2>1, <2>2, <2>3, <2>4
<1> QED
  BY <1>1, <1>2 DEF SoundBut

-----------------------------------------------------------------------------
(* The handlers *)

\* The next state of the parties is the record the variables become.
LEMMA BecomeNow ==
  ASSUME NEW R \in State, Become(R)
  PROVE  Now' = R
BY DEF Become, Now, State

\* A handler that leaves players and channels alone has to leave sound parties.
LEMMA HandlerKeeps ==
  ASSUME PartyInv, NEW R, Become(R), Sound(R, range), InTheGame, Silent,
         \A x \in Player \ online : R.party[x] = None /\ R.invitations[x] = {}
  PROVE  PartyInv'
<1>1. Now' = R
  BY BecomeNow DEF Sound, SoundBut
<1>2. Sound(Now', range')
  BY <1>1 DEF InTheGame
<1>3. NobodyGone'
  BY DEF NobodyGone, Become, InTheGame
<1>4. UsersOnline'
  BY DEF PartyInv, UsersOnline, InTheGame, Silent
<1> QED
  BY <1>2, <1>3, <1>4 DEF PartyInv, InTheGame, Silent

\* In particular one by which nobody enters a party or is invited.
LEMMA FewerKeeps ==
  ASSUME PartyInv, NEW R, Become(R), Sound(R, range), InTheGame, Silent, Fewer(Now, R)
  PROVE  PartyInv'
<1>1. \A x \in Player \ online : R.party[x] = None /\ R.invitations[x] = {}
  BY DEF PartyInv, NobodyGone, Fewer, Now
<1> QED
  BY <1>1, HandlerKeeps

\* playerInviteToParty, for a new party and one there is.
LEMMA InviteKeeps ==
  ASSUME PartyInv, NEW p \in Player, NEW i \in Player, InviteToParty(p, i)
  PROVE  PartyInv'
<1> PICK q \in PartyId :
      /\ IF party[p] = None THEN leader[q] = None ELSE q = party[p] /\ leader[q] = p
      /\ i \notin invitees[q]
      /\ Become([Now EXCEPT !.party[p] = q, !.leader[q] = p,
                             !.invitees[q] = @ \cup {i},
                             !.invitations[i] = @ \cup {q}])
  BY DEF InviteToParty
<1> DEFINE S == Now
           R == [S EXCEPT !.party[p] = q, !.leader[q] = p,
                          !.invitees[q] = @ \cup {i},
                          !.invitations[i] = @ \cup {q}]
<1>1. S \in State /\ MemberBut(S, {}) /\ Mutual(S) /\ Free(S) /\ BusyBut(S, {})
      /\ FormedBut(S, {}) /\ TogetherBut(S, range, {})
  BY SoundParts DEF PartyInv
<1>2. /\ p \in online /\ i \in online /\ p # i /\ S.party[i] = None
      /\ IF S.party[p] = None THEN S.leader[q] = None ELSE q = S.party[p] /\ S.leader[q] = p
  BY DEF InviteToParty, Now
<1>g. /\ Become(R) /\ InTheGame /\ Silent
      /\ \A x \in Player \ online : S.party[x] = None /\ S.invitations[x] = {}
  BY DEF InviteToParty, PartyInv, NobodyGone, Now
<1> HIDE DEF S
<1>3. /\ R \in State
      /\ R.members = S.members /\ R.active = S.active /\ R.enabled = S.enabled
      /\ \A x \in Player : R.party[x] = IF x = p THEN q ELSE S.party[x]
      /\ \A x \in PartyId : R.leader[x] = IF x = q THEN p ELSE S.leader[x]
      /\ \A x \in PartyId : R.invitees[x] = IF x = q THEN S.invitees[q] \cup {i} ELSE S.invitees[x]
      /\ \A x \in Player : R.invitations[x] = IF x = i THEN S.invitations[i] \cup {q}
                                                      ELSE S.invitations[x]
  BY <1>1, ZenonT(60) DEF State
<1> HIDE DEF R
<1>4. S.party[p] = None => S.members[q] = {}
  BY <1>1, <1>2 DEF Free, Empty
<1>5. MemberBut(R, {})
  <2> SUFFICES ASSUME NEW x \in PartyId, NEW y \in Player
               PROVE  /\ R.party[y] = x <=> y \in Company(R, x)
                      /\ R.leader[x] = y => y \notin R.members[x]
    BY DEF MemberBut
  <2>1. /\ S.party[y] = x <=> y \in Company(S, x)
        /\ S.leader[x] = y => y \notin S.members[x]
    BY <1>1 DEF MemberBut
  <2>2. CASE S.party[p] = None
    BY <1>2, <1>3, <1>4, <2>1, <2>2, PartyAssumption DEF Company
  <2>3. CASE S.party[p] # None
    BY <1>2, <1>3, <2>1, <2>3, PartyAssumption DEF Company
  <2> QED
    BY <2>2, <2>3
<1>6. Mutual(R)
  BY <1>1, <1>3 DEF Mutual
<1>7. Free(R)
  BY <1>1, <1>3, PartyAssumption DEF Free, Empty
<1>8. BusyBut(R, {})
  BY <1>1, <1>3 DEF BusyBut, Empty
<1>9. FormedBut(R, {})
  BY <1>1, <1>2, <1>3, <1>4, PartyAssumption DEF FormedBut
<1>10. TogetherBut(R, range, {})
  <2> SUFFICES ASSUME NEW x \in R.active \cap R.enabled
               PROVE  R.members[x] # {} /\ \A m \in R.members[x] : range[m] = range[R.leader[x]]
    BY DEF TogetherBut
  <2>1. S.members[x] # {} /\ \A m \in S.members[x] : range[m] = range[S.leader[x]]
    BY <1>1, <1>3 DEF TogetherBut
  <2>2. R.leader[x] = S.leader[x]
    BY <1>1, <1>2, <1>3, <1>4, <2>1 DEF State
  <2> QED
    BY <1>3, <2>1, <2>2
<1>11. Sound(R, range)
  BY <1>3, <1>5, <1>6, <1>7, <1>8, <1>9, <1>10, SoundParts
<1>12. \A x \in Player \ online : R.party[x] = None /\ R.invitations[x] = {}
  BY <1>2, <1>3, <1>g
<1> QED
  BY <1>11, <1>12, <1>g, HandlerKeeps

\* playerJoinParty.
LEMMA JoinKeeps ==
  ASSUME PartyInv, NEW p \in Player, NEW l \in Player, JoinParty(p, l)
  PROVE  PartyInv'
<1> DEFINE S == Now
           q == party[l]
           R == Joined(S, q, p)
<1>1. /\ Sound(S, range) /\ q \in PartyId
      /\ S.leader[q] = l /\ p \in S.invitees[q] /\ S.party[p] = None /\ p \in online
  <2>1. Now \in State
    BY SoundParts DEF PartyInv
  <2> QED
    BY <2>1 DEF PartyInv, JoinParty, IsInviting, Now, State
<1>2. /\ Become(R) /\ InTheGame /\ Silent
      /\ \A x \in Player \ online : S.party[x] = None /\ S.invitations[x] = {}
  BY DEF JoinParty, PartyInv, NobodyGone, Now
<1> HIDE DEF S, q
<1>3. /\ Sound(R, range)
      /\ \A x \in Player \ {p} : /\ S.party[x] = None => R.party[x] = None
                                 /\ R.invitations[x] \subseteq S.invitations[x]
  BY <1>1, JoinedSound
<1> HIDE DEF R
<1>4. \A x \in Player \ online : R.party[x] = None /\ R.invitations[x] = {}
  BY <1>1, <1>2, <1>3
<1> QED
  BY <1>2, <1>3, <1>4, HandlerKeeps

\* playerRevokePartyInvitation.
LEMMA RevokeKeeps ==
  ASSUME PartyInv, NEW l \in Player, NEW p \in Player, RevokePartyInvitation(l, p)
  PROVE  PartyInv'
<1>1. Sound(Now, range) /\ party[l] \in PartyId
  BY SoundParts DEF PartyInv, RevokePartyInvitation, IsInviting, Now, State
<1>2. Sound(Uninvited(Now, party[l], p), range) /\ Fewer(Now, Uninvited(Now, party[l], p))
  BY <1>1, UninvitedSound
<1>3. Become(Uninvited(Now, party[l], p)) /\ InTheGame /\ Silent
  BY DEF RevokePartyInvitation
<1> QED
  BY <1>2, <1>3, FewerKeeps

\* playerPassPartyLeadership.
LEMMA PassKeeps ==
  ASSUME PartyInv, NEW l \in Player, NEW n \in Player, PassPartyLeadership(l, n)
  PROVE  PartyInv'
<1> DEFINE S == Now
           q == party[l]
           R == Passed(S, q, n)
<1>1. Sound(S, range) /\ S \in State /\ MemberBut(S, {})
  BY SoundParts DEF PartyInv
<1>2. S.leader[q] = l /\ S.party[n] = q /\ l # n /\ q \in PartyId
  BY <1>1 DEF PassPartyLeadership, Now, State
<1>3. Become(R) /\ InTheGame /\ Silent
  BY DEF PassPartyLeadership
<1> HIDE DEF S, q
<1>4. n \in S.members[q]
  BY <1>1, <1>2 DEF MemberBut, Company
<1>5. Sound(R, range) /\ R.party = S.party /\ R.invitations = S.invitations
  BY <1>1, <1>2, <1>4, PassedSound
<1> HIDE DEF R
<1>6. Fewer(S, R)
  BY <1>5 DEF Fewer
<1> QED
  BY <1>3, <1>5, <1>6, FewerKeeps DEF S

\* playerLeaveParty.
LEMMA LeaveKeeps ==
  ASSUME PartyInv, NEW p \in Player, LeaveParty(p)
  PROVE  PartyInv'
<1> PICK n \in Followers(Now, party[p]) : Become(Left(Now, party[p], p, n))
  BY DEF LeaveParty
<1>1. Sound(Now, range) /\ party[p] \in PartyId /\ Now.party[p] = party[p]
  BY SoundParts DEF PartyInv, LeaveParty, Now, State
<1>2. Sound(Left(Now, party[p], p, n), range) /\ Fewer(Now, Left(Now, party[p], p, n))
  BY <1>1, LeftSound
<1>3. Become(Left(Now, party[p], p, n)) /\ InTheGame /\ Silent
  BY DEF LeaveParty
<1> QED
  BY <1>2, <1>3, FewerKeeps

\* Updating, when only who shares or who has fought may have changed.
LEMMA LookKeeps ==
  ASSUME PartyInv, NEW T \in State, NEW q \in PartyId, Become(Updated(T, q, range)),
         InTheGame, Silent,
         T.party = party, T.invitations = invitations, T.leader = leader,
         T.members = members, T.invitees = invitees, T.enabled = enabled,
         T.active \ {q} = active \ {q}
  PROVE  PartyInv'
<1> DEFINE S == Now
           R == Updated(T, q, range)
<1>1. S \in State /\ MemberBut(S, {}) /\ Mutual(S) /\ Free(S) /\ BusyBut(S, {})
      /\ FormedBut(S, {}) /\ TogetherBut(S, range, {})
  BY SoundParts DEF PartyInv
<1>2. /\ T.party = S.party /\ T.invitations = S.invitations /\ T.leader = S.leader
      /\ T.members = S.members /\ T.invitees = S.invitees /\ T.enabled = S.enabled
      /\ T.active \ {q} = S.active \ {q}
  BY DEF Now
<1> HIDE DEF S
<1>3. MemberBut(T, {}) /\ Mutual(T) /\ Free(T) /\ BusyBut(T, {}) /\ FormedBut(T, {})
  BY <1>1, <1>2 DEF MemberBut, Mutual, Free, BusyBut, FormedBut, Company, Empty
<1>4. TogetherBut(T, range, {q} \cup {})
  BY <1>1, <1>2 DEF TogetherBut
<1>5. SoundBut(T, range, {}, {q}, {})
  BY <1>3, <1>4 DEF SoundBut
<1>6. Sound(R, range) /\ UpdatedOnly(T, R)
  BY <1>5, UpdatedSound DEF Sound
<1> HIDE DEF R
<1>7. Fewer(S, R)
  BY <1>2, <1>6 DEF UpdatedOnly, Fewer
<1> QED
  BY <1>6, <1>7, FewerKeeps DEF S, R

\* playerEnableSharedPartyExperience ends with such a look.
LEMMA EnableKeeps ==
  ASSUME PartyInv, NEW p \in Player, NEW b \in BOOLEAN, EnableSharedPartyExperience(p, b)
  PROVE  PartyInv'
<1> DEFINE q == party[p]
           T == [Now EXCEPT !.active = active']
<1>1. Now \in State /\ q \in PartyId
  BY SoundParts DEF PartyInv, EnableSharedPartyExperience, Now, State
<1>2. active' = (IF b THEN active \cup {q} ELSE active \ {q})
  BY DEF EnableSharedPartyExperience
<1>3. /\ T \in State
      /\ T.party = party /\ T.invitations = invitations /\ T.leader = leader
      /\ T.members = members /\ T.invitees = invitees /\ T.enabled = enabled
      /\ T.fought = fought /\ T.active = active'
  BY <1>1, <1>2 DEF Now, State
<1>4. T.active \ {q} = active \ {q}
  BY <1>2, <1>3
<1>5. Become(Updated(T, q, range))
  <2>1. CanEnable(T, q, range) <=> CanEnable(Now, q, range)
    BY <1>3 DEF CanEnable, Company, Now
  <2>2. enabled' = IF q \notin active' THEN enabled
                   ELSE IF CanEnable(T, q, range) THEN enabled \cup {q} ELSE enabled \ {q}
    BY <1>2, <2>1 DEF EnableSharedPartyExperience
  <2> DEFINE R == Updated(T, q, range)
  <2>3. /\ R.party = T.party /\ R.invitations = T.invitations /\ R.leader = T.leader
        /\ R.members = T.members /\ R.invitees = T.invitees /\ R.active = T.active
        /\ R.fought = T.fought
        /\ R.enabled = IF q \notin T.active THEN T.enabled
                       ELSE IF CanEnable(T, q, range) THEN T.enabled \cup {q} ELSE T.enabled \ {q}
    BY <1>3 DEF Updated, State
  <2> HIDE DEF R, T
  <2> QED
    BY <1>3, <2>2, <2>3 DEF Become, EnableSharedPartyExperience, R
<1>6. InTheGame /\ Silent
  BY DEF EnableSharedPartyExperience
<1> HIDE DEF q, T
<1> QED
  BY <1>1, <1>3, <1>4, <1>5, <1>6, LookKeeps

\* updatePlayerTicks and clearPlayerPoints do, too.
LEMMA FightKeeps ==
  ASSUME PartyInv, NEW p \in Player, Fight(p) \/ Rest(p)
  PROVE  PartyInv'
<1> DEFINE q == party[p]
<1>1. Now \in State /\ q \in PartyId
  BY SoundParts DEF PartyInv, Fight, Rest, Now, State
<1>2. ASSUME NEW F \in SUBSET Player, InTheGame, Silent,
             Become(Updated([Now EXCEPT !.fought[q] = F], q, range))
      PROVE  PartyInv'
  <2> DEFINE T == [Now EXCEPT !.fought[q] = F]
  <2>1. /\ T \in State
        /\ T.party = party /\ T.invitations = invitations /\ T.leader = leader
        /\ T.members = members /\ T.invitees = invitees /\ T.enabled = enabled
        /\ T.active = active
    BY <1>1 DEF Now, State
  <2>2. Become(Updated(T, q, range))
    BY <1>2
  <2> HIDE DEF T, q
  <2> QED
    BY <1>1, <1>2, <2>1, <2>2, LookKeeps
<1>3. fought[q] \in SUBSET Player
  BY <1>1 DEF Now, State
<1>4. CASE Fight(p)
  BY <1>2, <1>3, <1>4 DEF Fight, Now
<1>5. CASE Rest(p)
  BY <1>2, <1>3, <1>5 DEF Rest, Now
<1> QED
  BY <1>4, <1>5

\* The channels change nothing in the parties.
LEMMA ChannelKeeps ==
  ASSUME PartyInv, NEW p \in Player, RequestChannels(p) \/ OpenChannel(p) \/ CloseChannel(p)
  PROVE  PartyInv'
<1>1. Become(Now) /\ InTheGame
  BY DEF RequestChannels, OpenChannel, CloseChannel
<1>2. Now' = Now
  BY <1>1 DEF Become, Now
<1>3. Sound(Now', range') /\ NobodyGone'
  BY <1>1, <1>2 DEF PartyInv, InTheGame, NobodyGone, Become, Now
<1>4. /\ channels' \in SUBSET PartyId /\ users' \in [PartyId -> SUBSET Player]
      /\ UsersOnline'
  BY <1>1 DEF PartyInv, UsersOnline, RequestChannels, OpenChannel, CloseChannel, InTheGame
<1> QED
  BY <1>1, <1>3, <1>4 DEF PartyInv, InTheGame

-----------------------------------------------------------------------------
(* What happens to players *)

\* Only the party of who moves needs to look.
LEMMA MoveKeeps ==
  ASSUME PartyInv, NEW p \in Player, NEW r \in Range, Move(p, r)
  PROVE  PartyInv'
<1> DEFINE there == [range EXCEPT ![p] = r]
           R == IF party[p] = None THEN Now ELSE Updated(Now, party[p], there)
<1>1. /\ range' = there /\ Become(R) /\ UNCHANGED online /\ Silent
      /\ there \in [Player -> Range]
  BY DEF Move, PartyInv
<1>2. Sound(Now, range) /\ Now \in State /\ Now.party = party
  BY SoundParts DEF PartyInv, Now
<1>3. SoundBut(Now, there, {}, {party[p]}, {})
  BY <1>2, MovedSound DEF PartyInv
<1> HIDE DEF there
<1>4. Sound(R, there) /\ R.party = party /\ R.invitations = invitations
  <2>1. CASE party[p] = None
    <3>1. TogetherBut(Now, there, {} \cup {})
      BY <1>2, <1>3, <2>1, PartyAssumption DEF SoundBut, TogetherBut, State
    <3> QED
      BY <1>3, <2>1, <3>1 DEF Sound, SoundBut, Now
  <2>2. CASE party[p] # None
    <3>1. party[p] \in PartyId
      BY <1>2, <2>2 DEF State
    <3>2. Sound(R, there) /\ UpdatedOnly(Now, R)
      BY <1>3, <2>2, <3>1, UpdatedSound DEF Sound
    <3> QED
      BY <3>2 DEF UpdatedOnly, Now
  <2> QED
    BY <2>1, <2>2
<1>5. Now' = R
  BY <1>1, <1>4, BecomeNow DEF Sound, SoundBut
<1>6. NobodyGone' /\ UsersOnline'
  BY <1>1, <1>4 DEF PartyInv, NobodyGone, UsersOnline, Become, Silent
<1> HIDE DEF R
<1>7. Sound(Now', range')
  BY <1>1, <1>4, <1>5
<1> QED
  BY <1>1, <1>6, <1>7 DEF PartyInv, Silent

\* Who enters is in no party, wherever that is.
LEMMA LoginKeeps ==
  ASSUME PartyInv, NEW p \in Player, Login(p)
  PROVE  PartyInv'
<1> PICK r \in Range : range' = [range EXCEPT ![p] = r]
  BY DEF Login
<1>1. Become(Now) /\ Silent /\ online' = online \cup {p} /\ p \notin online
  BY DEF Login
<1>2. Sound(Now, range) /\ Now \in State /\ Now.party[p] = None /\ range \in [Player -> Range]
  BY <1>1, SoundParts DEF PartyInv, NobodyGone, Now
<1>3. SoundBut(Now, range', {}, {None}, {})
  BY <1>2, MovedSound
<1>4. TogetherBut(Now, range', {} \cup {})
  BY <1>2, <1>3, PartyAssumption DEF SoundBut, TogetherBut, State
<1>5. Sound(Now, range')
  BY <1>3, <1>4 DEF Sound, SoundBut
<1>6. Now' = Now
  BY <1>1 DEF Become, Now
<1>7. NobodyGone' /\ UsersOnline'
  BY <1>1 DEF PartyInv, NobodyGone, UsersOnline, Become, Now, Silent
<1>8. Sound(Now', range') /\ range' \in [Player -> Range]
  BY <1>2, <1>5, <1>6
<1> QED
  BY <1>1, <1>7, <1>8 DEF PartyInv, Silent

\* clearPartyInvitations and leaveParty free a player of all parties.
LEMMA LogoutKeeps ==
  ASSUME PartyInv, NEW p \in Player, Logout(p)
  PROVE  PartyInv'
<1> DEFINE S == Now
           C == Cleared(S, p)
<1>1. /\ online' = online \ {p} /\ range' = range /\ channels' = channels
      /\ users' = [q \in PartyId |-> users[q] \ {p}]
      /\ IF C.party[p] = None THEN Become(C)
         ELSE \E n \in Followers(C, C.party[p]) : Become(Left(C, C.party[p], p, n))
  BY DEF Logout
<1>2. Sound(S, range) /\ \A x \in Player \ online : S.party[x] = None /\ S.invitations[x] = {}
  BY DEF PartyInv, NobodyGone, Now
<1> HIDE DEF S
<1>3. SoundBut(C, range, {}, {}, {}) /\ ClearedOnly(S, C, p)
  BY <1>2, ClearedSound DEF Sound
<1> HIDE DEF C
<1>4. Sound(C, range) /\ Fewer(S, C) /\ C.invitations[p] = {} /\ C \in State
  BY <1>3 DEF Sound, SoundBut, ClearedOnly, Fewer
<1>5. \E R : Become(R) /\ Sound(R, range) /\ Fewer(C, R) /\ R.party[p] = None
  <2>1. CASE C.party[p] = None
    BY <1>1, <1>4, <2>1 DEF Fewer
  <2>2. CASE C.party[p] # None
    <3>1. PICK n \in Followers(C, C.party[p]) : Become(Left(C, C.party[p], p, n))
      BY <1>1, <2>2
    <3>2. C.party[p] \in PartyId
      BY <1>4, <2>2 DEF State
    <3> QED
      BY <1>4, <3>1, <3>2, LeftSound
  <2> QED
    BY <2>1, <2>2
<1>6. PICK R : Become(R) /\ Sound(R, range) /\ Fewer(C, R) /\ R.party[p] = None
  BY <1>5
<1>7. Sound(Now', range')
  BY <1>1, <1>6, BecomeNow DEF Sound, SoundBut
<1>8. \A x \in Player \ online' : R.party[x] = None /\ R.invitations[x] = {}
  <2> TAKE x \in Player \ online'
  <2>1. CASE x = p
    BY <1>4, <1>6, <2>1 DEF Fewer
  <2>2. CASE x # p
    BY <1>1, <1>2, <1>4, <1>6, <2>2 DEF Fewer
  <2> QED
    BY <2>1, <2>2
<1>9. NobodyGone'
  BY <1>6, <1>8 DEF NobodyGone, Become
<1>10. /\ UsersOnline' /\ users' \in [PartyId -> SUBSET Player]
       /\ online' \in SUBSET Player
  BY <1>1 DEF PartyInv, UsersOnline
<1> QED
  BY <1>1, <1>7, <1>9, <1>10 DEF PartyInv

\* What is forgotten of a fight is in no part of the invariant.
LEMMA AgeKeeps ==
  ASSUME PartyInv, NEW q \in PartyId, NEW p \in Player, Age(q, p)
  PROVE  PartyInv'
<1> DEFINE R == [Now EXCEPT !.fought = fought']
<1>1. Now \in State /\ MemberBut(Now, {}) /\ Mutual(Now) /\ Free(Now) /\ BusyBut(Now, {})
      /\ FormedBut(Now, {}) /\ TogetherBut(Now, range, {})
  BY SoundParts DEF PartyInv
<1>2. /\ R \in State
      /\ R.party = Now.party /\ R.invitations = Now.invitations /\ R.leader = Now.leader
      /\ R.members = Now.members /\ R.invitees = Now.invitees
      /\ R.active = Now.active /\ R.enabled = Now.enabled /\ R.fought = fought'
  BY <1>1 DEF Age, Now, State
<1>3. Become(R) /\ InTheGame /\ Silent
  BY <1>2 DEF Age, Become, InTheGame, Silent, Now
<1> HIDE DEF R
<1>4. Sound(R, range)
  BY <1>1, <1>2, SoundParts, SMTT(30)
     DEF MemberBut, Mutual, Free, BusyBut, FormedBut, TogetherBut, Company, Empty
<1>5. Fewer(Now, R)
  BY <1>2 DEF Fewer
<1> QED
  BY <1>3, <1>4, <1>5, FewerKeeps

-----------------------------------------------------------------------------
\* Without parties all is sound.
LEMMA InitInv == Init => PartyInv
<1> SUFFICES ASSUME Init PROVE PartyInv
  OBVIOUS
<1>1. Now \in State
  BY DEF Init, Now, State
<1>2. /\ \A p \in Player : Now.party[p] = None /\ Now.invitations[p] = {}
      /\ \A q \in PartyId : Now.leader[q] = None /\ Now.members[q] = {} /\ Now.invitees[q] = {}
      /\ Now.active = {}
  BY DEF Init, Now
<1>3. MemberBut(Now, {})
  BY <1>2, PartyAssumption DEF MemberBut, Company
<1>4. Mutual(Now) /\ Free(Now) /\ BusyBut(Now, {}) /\ FormedBut(Now, {})
      /\ TogetherBut(Now, range, {})
  BY <1>2 DEF Mutual, Free, BusyBut, FormedBut, TogetherBut, Empty
<1>5. Sound(Now, range)
  BY <1>1, <1>3, <1>4, SoundParts
<1> QED
  BY <1>5 DEF Init, PartyInv, NobodyGone, UsersOnline

\* Every step of the specification keeps the invariant.
LEMMA NextInv == PartyInv /\ [Next]_vars => PartyInv'
<1> SUFFICES ASSUME PartyInv, [Next]_vars PROVE PartyInv'
  OBVIOUS
<1>1. CASE UNCHANGED vars
  BY <1>1 DEF vars, PartyInv, NobodyGone, UsersOnline, Now
<1>2. ASSUME NEW p \in Player, NEW i \in Player,
             \/ InviteToParty(p, i) \/ JoinParty(p, i)
             \/ RevokePartyInvitation(p, i) \/ PassPartyLeadership(p, i)
      PROVE  PartyInv'
  BY <1>2, InviteKeeps, JoinKeeps, RevokeKeeps, PassKeeps
<1>3. ASSUME NEW p \in Player, LeaveParty(p) \/ Login(p) \/ Logout(p)
      PROVE  PartyInv'
  BY <1>3, LeaveKeeps, LoginKeeps, LogoutKeeps
<1>4. ASSUME NEW p \in Player, NEW b \in BOOLEAN, EnableSharedPartyExperience(p, b)
      PROVE  PartyInv'
  BY <1>4, EnableKeeps
<1>5. ASSUME NEW p \in Player, RequestChannels(p) \/ OpenChannel(p) \/ CloseChannel(p)
      PROVE  PartyInv'
  BY <1>5, ChannelKeeps
<1>6. ASSUME NEW p \in Player, NEW r \in Range, Move(p, r)
      PROVE  PartyInv'
  BY <1>6, MoveKeeps
<1>7. ASSUME NEW p \in Player, Fight(p) \/ Rest(p)
      PROVE  PartyInv'
  BY <1>7, FightKeeps
<1>8. ASSUME NEW p \in Player, NEW q \in PartyId, Age(q, p)
      PROVE  PartyInv'
  BY <1>8, AgeKeeps
<1> QED
  BY <1>1, <1>2, <1>3, <1>4, <1>5, <1>6, <1>7, <1>8 DEF Next

\* The invariant holds in every state of every behaviour.
THEOREM Invariance == Spec => []PartyInv
BY InitInv, NextInv, PTL DEF Spec

\* The variables keep the types of the program's fields.
THEOREM TypeCorrect == Spec => []PartyTypeOK
BY Invariance, InvSound, PTL

\* Whatever the players do, whoever leaves, passes the lead or logs out, no
\* pointer between players, parties, invitations and channels is left over:
\* for any number of players and parties.
THEOREM PartiesAlwaysSound == Spec => []PartiesSound
BY Invariance, InvSound, PTL

\* No party shares experience while a member is out of the leader's range.
THEOREM AlwaysTogether == Spec => []SharingTogether
BY Invariance, InvSound, PTL
=============================================================================
