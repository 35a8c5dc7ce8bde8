----------------------------- MODULE TradeProofs -----------------------------
(***************************************************************************)
(* Trade.tla for any players, items and positions: the trades are paired,  *)
(* Game::tradeItems is what the players offer, and the reference counters  *)
(* are right, however trades are opened, accepted, exchanged and closed by *)
(* notifications; and what is on offer stays apart from other offers, near *)
(* the traders, and as it was.                                             *)
(***************************************************************************)
EXTENDS Trade, FiniteSetTheorems, TLAPS

\* What ReferencesCounted needs to be inductive: removing an offered item
\* ends the trade first, so no offer is an item that left the world.
OfferedInWorld == \A i \in Item : tradeItems[i] # NoPlayer => loc[i] # Gone

Inv == /\ TypeOK /\ PartnersAgree /\ OffersRegistered
       /\ ReferencesCounted /\ OfferedInWorld

\* The part of Inv that does not look at the world.
Paired ==
  \A p \in Player : LET q == tradePartner[p] IN
    /\ (q = NoPlayer) <=> (tradeState[p] = "NONE")
    /\ q # NoPlayer => q # p /\ tradePartner[q] = p

TradeTypes ==
  /\ tradeState \in [Player -> State]
  /\ tradePartner \in [Player -> Player \cup {NoPlayer}]
  /\ tradeItem \in [Player -> Item \cup {NoItem}]
  /\ tradeItems \in [Item -> Player \cup {NoPlayer}]
  /\ refs \in [Item -> Nat]
  /\ released \in [Item -> Nat]

-----------------------------------------------------------------------------
(* Places *)

\* An item that left the world is with nobody and at no place.
LEMMA GoneRoot ==
  ASSUME NEW L, NEW i \in Item, L[i] = Gone
  PROVE  Root(L, i) = Gone
<1>1. Gone \notin Bag
  BY TradeAssumption
<1>2. Holders(L, i) = {}
  <2>1. \A b \in Bag : b \notin Holders(L, i)
    <3> TAKE b \in Bag
    <3>1. {} \in SUBSET Bag /\ b \notin {}
      OBVIOUS
    <3> QED
      BY <1>1, <3>1 DEF Holders
  <2> QED
    BY <2>1 DEF Holders
<1>3. {L[j] : j \in {i} \cup Holders(L, i)} = {Gone}
  BY <1>2
<1> QED
  BY <1>1, <1>3 DEF Root

\* What somebody is near to has not left the world.
LEMMA NearInWorld ==
  ASSUME NEW L, NEW P, NEW p \in Player, NEW i \in Item, Near(L, P, p, i)
  PROVE  L[i] # Gone
BY GoneRoot, TradeAssumption DEF Near

\* internalMoveItem moves nothing out of the world, though it may drop it.
LEMMA MovedToInWorld ==
  ASSUME NEW L, NEW p \in Player, NEW i \in Item
  PROVE  MovedTo(L, p, i) \subseteq Location \ {Gone}
<1>1. Destinations(L, p, i) \subseteq {p} \cup Bag
  BY DEF Destinations
<1> QED
  BY <1>1, TradeAssumption DEF MovedTo, Location

-----------------------------------------------------------------------------
(* Closing trades *)

\* Who closes a trade takes the partner along, and nobody else.
LEMMA EndedClosed ==
  ASSUME Inv, NEW S \in SUBSET Player
  PROVE  /\ Ended(S) \in SUBSET Player
         /\ \A p \in Ended(S) : tradePartner[p] \in Ended(S) \cup {NoPlayer}
BY DEF Inv, TypeOK, PartnersAgree, Ended

\* Resetting all trades of a set of players that holds the partners of its
\* members leaves the other trades intact and passes every reference that
\* tradeItems held on to the release list.
LEMMA ClearOffers ==
  ASSUME Inv, NEW C \in SUBSET Player,
         \A p \in C : tradePartner[p] \in C \cup {NoPlayer},
         NEW freed \in SUBSET Item, ClearTrades(C, freed)
  PROVE  /\ TradeTypes' /\ Paired' /\ OffersRegistered'
         /\ \A i \in Item :
              /\ tradeItems'[i] # NoPlayer => tradeItems[i] # NoPlayer
              /\ refs'[i] = refs[i]
              /\ Count(tradeItems'[i] # NoPlayer) + released'[i]
                   = Count(tradeItems[i] # NoPlayer) + released[i] + Count(i \in freed)
<1> USE DEF Inv
<1>1. TradeTypes'
  BY DEF TypeOK, TradeTypes, ClearTrades, State
<1>2. Paired'
  <2> SUFFICES ASSUME NEW p \in Player PROVE
        LET q == tradePartner'[p] IN
          /\ (q = NoPlayer) <=> (tradeState'[p] = "NONE")
          /\ q # NoPlayer => q # p /\ tradePartner'[q] = p
    BY DEF Paired
  <2>1. CASE p \in C
    BY <2>1, TradeAssumption DEF TypeOK, ClearTrades
  <2>2. CASE p \notin C
    <3>1. tradePartner[p] \notin C
      BY <2>2, TradeAssumption DEF TypeOK, PartnersAgree
    <3> QED
      BY <2>2, <3>1 DEF TypeOK, PartnersAgree, ClearTrades
  <2> QED
    BY <2>1, <2>2
<1>3. OffersRegistered'
  <2>1. ASSUME NEW p \in Player
        PROVE  LET t == tradeItem'[p] IN
               /\ t # NoItem => tradeItems'[t] = p
               /\ tradeState'[p] = "INITIATED" => t # NoItem
               /\ tradeState'[p] \in {"NONE", "ACKNOWLEDGE"} => t = NoItem
    <3>1. CASE p \in C
      BY <3>1 DEF TypeOK, ClearTrades
    <3>2. CASE p \notin C
      <4>1. tradeState'[p] = tradeState[p] /\ tradeItem'[p] = tradeItem[p]
        BY <3>2 DEF TypeOK, ClearTrades
      <4>2. tradeItem[p] # NoItem => tradeItem[p] \notin Withdrawn(C)
        BY <3>2 DEF TypeOK, OffersRegistered, Withdrawn
      <4> QED
        BY <4>1, <4>2 DEF TypeOK, OffersRegistered, ClearTrades
    <3> QED
      BY <3>1, <3>2
  <2>2. ASSUME NEW i \in Item, tradeItems'[i] # NoPlayer
        PROVE  tradeItem'[tradeItems'[i]] = i
    <3>1. i \notin Withdrawn(C) /\ tradeItems'[i] = tradeItems[i]
      BY <2>2 DEF ClearTrades
    <3>2. tradeItems[i] \in Player \ C
      BY <2>2, <3>1 DEF TypeOK, OffersRegistered, Withdrawn
    <3> QED
      BY <2>2, <3>1, <3>2 DEF OffersRegistered, ClearTrades
  <2> QED
    BY <2>1, <2>2 DEF OffersRegistered
<1>4. ASSUME NEW i \in Item
      PROVE  /\ tradeItems'[i] # NoPlayer => tradeItems[i] # NoPlayer
             /\ refs'[i] = refs[i]
             /\ Count(tradeItems'[i] # NoPlayer) + released'[i]
                  = Count(tradeItems[i] # NoPlayer) + released[i] + Count(i \in freed)
  <2>1. released[i] \in Nat
    BY DEF TypeOK
  <2>2. i \in Withdrawn(C) => tradeItems[i] # NoPlayer
    BY DEF Withdrawn
  <2>3. tradeItems'[i] = IF i \in Withdrawn(C) THEN NoPlayer ELSE tradeItems[i]
    BY DEF ClearTrades
  <2>4. released'[i] = released[i] + (IF i \in Withdrawn(C) THEN 1 ELSE 0)
                                   + (IF i \in freed THEN 1 ELSE 0)
    BY DEF ClearTrades
  <2>5. refs' = refs
    BY DEF ClearTrades
  <2> QED
    BY <2>1, <2>2, <2>3, <2>4, <2>5 DEF Count
<1> QED
  BY <1>1, <1>2, <1>3, <1>4

\* A step that closes trades and moves things about, but removes nothing
\* from the world and nobody from the server.
LEMMA CloseInv ==
  ASSUME Inv, NEW S \in SUBSET Player, CloseTrades(S),
         online' = online, pos' \in [Player -> Place],
         loc' \in [Item -> Location],
         \A i \in Item : (loc'[i] = Gone) <=> (loc[i] = Gone)
  PROVE  Inv'
<1> DEFINE C == Ended(S)
<1>1. /\ C \in SUBSET Player
      /\ \A p \in C : tradePartner[p] \in C \cup {NoPlayer}
  BY EndedClosed
<1> HIDE DEF C
<1>2. ClearTrades(C, {})
  BY DEF CloseTrades, C
<1>3. /\ TradeTypes' /\ Paired' /\ OffersRegistered'
      /\ \A i \in Item :
           /\ tradeItems'[i] # NoPlayer => tradeItems[i] # NoPlayer
           /\ refs'[i] = refs[i]
           /\ Count(tradeItems'[i] # NoPlayer) + released'[i]
                = Count(tradeItems[i] # NoPlayer) + released[i] + Count(i \in {})
  BY <1>1, <1>2, ClearOffers
<1>4. TypeOK'
  BY <1>3 DEF Inv, TypeOK, TradeTypes
<1>5. PartnersAgree'
  BY <1>2, <1>3 DEF Inv, TypeOK, PartnersAgree, Paired, ClearTrades
<1>6. ReferencesCounted'
  <2> SUFFICES ASSUME NEW i \in Item
               PROVE  refs'[i] = Count(loc'[i] # Gone)
                                   + Count(tradeItems'[i] # NoPlayer) + released'[i]
    BY DEF ReferencesCounted
  <2>1. refs[i] = Count(loc[i] # Gone) + Count(tradeItems[i] # NoPlayer) + released[i]
    BY DEF Inv, ReferencesCounted
  <2>2. released[i] \in Nat /\ released'[i] \in Nat
    BY <1>4 DEF Inv, TypeOK
  <2> QED
    BY <1>3, <2>1, <2>2 DEF Count
<1>7. OfferedInWorld'
  BY <1>3 DEF Inv, OfferedInWorld
<1> QED
  BY <1>3, <1>4, <1>5, <1>6, <1>7 DEF Inv
\* Closing trades while a player leaves the server.
LEMMA LogoutInv ==
  ASSUME Inv, NEW p \in Player, Logout(p)
  PROVE  Inv'
<1> DEFINE S == IF tradePartner[p] # NoPlayer THEN {p} ELSE {}
           C == Ended(S)
<1>1. /\ C \in SUBSET Player
      /\ \A r \in C : tradePartner[r] \in C \cup {NoPlayer}
  BY EndedClosed
<1>2. p \in C \/ tradePartner[p] = NoPlayer
  BY TradeAssumption DEF Ended
<1>3. ClearTrades(C, {})
  BY DEF Logout, CloseTrades
<1> HIDE DEF C
<1>4. /\ TradeTypes' /\ Paired' /\ OffersRegistered'
      /\ \A i \in Item :
           /\ tradeItems'[i] # NoPlayer => tradeItems[i] # NoPlayer
           /\ refs'[i] = refs[i]
           /\ Count(tradeItems'[i] # NoPlayer) + released'[i]
                = Count(tradeItems[i] # NoPlayer) + released[i] + Count(i \in {})
  BY <1>1, <1>3, ClearOffers
<1>5. TypeOK'
  BY <1>4 DEF Inv, TypeOK, TradeTypes, Logout
<1>6. PartnersAgree'
  <2>1. ASSUME NEW r \in Player, tradePartner'[r] # NoPlayer
        PROVE  r \in online'
    <3>1. r \notin C /\ tradePartner[r] # NoPlayer
      BY <1>3, <2>1 DEF Inv, TypeOK, ClearTrades
    <3> QED
      BY <1>2, <3>1 DEF Inv, PartnersAgree, Logout
  <2> QED
    BY <1>4, <2>1 DEF PartnersAgree, Paired
<1>7. ReferencesCounted'
  <2> SUFFICES ASSUME NEW i \in Item
               PROVE  refs'[i] = Count(loc'[i] # Gone)
                                   + Count(tradeItems'[i] # NoPlayer) + released'[i]
    BY DEF ReferencesCounted
  <2>1. refs[i] = Count(loc[i] # Gone) + Count(tradeItems[i] # NoPlayer) + released[i]
    BY DEF Inv, ReferencesCounted
  <2>2. released[i] \in Nat /\ released'[i] \in Nat /\ loc' = loc
    BY <1>5 DEF Inv, TypeOK, Logout
  <2> QED
    BY <1>4, <2>1, <2>2 DEF Count
<1>8. OfferedInWorld'
  BY <1>4 DEF Inv, OfferedInWorld, Logout
<1> QED
  BY <1>4, <1>5, <1>6, <1>7, <1>8 DEF Inv

\* Removing an item ends the trade it is offered in before its reference to
\* the world goes.
LEMMA RemoveInv ==
  ASSUME Inv, NEW k \in Item, RemoveItem(k)
  PROVE  Inv'
<1> DEFINE C == Ended(HitByRemoval(loc, k))
<1>1. HitByRemoval(loc, k) \in SUBSET Player
  BY DEF HitByRemoval
<1>2. /\ C \in SUBSET Player
      /\ \A r \in C : tradePartner[r] \in C \cup {NoPlayer}
  BY <1>1, EndedClosed
<1>3. ClearTrades(C, {k}) /\ loc[k] # Gone /\ loc' = [loc EXCEPT ![k] = Gone]
  BY DEF RemoveItem
<1>4. tradeItems'[k] = NoPlayer
  <2> SUFFICES ASSUME tradeItems[k] # NoPlayer PROVE k \in Withdrawn(C)
    BY <1>3 DEF ClearTrades
  <2>1. tradeItems[k] \in Player /\ tradeItem[tradeItems[k]] = k /\ k # NoItem
    BY TradeAssumption DEF Inv, TypeOK, OffersRegistered
  <2>2. tradeItems[k] \in HitByRemoval(loc, k)
    BY <2>1 DEF HitByRemoval
  <2>3. tradeItems[k] \in C
    BY <2>1, <2>2, TradeAssumption DEF Ended
  <2> QED
    BY <2>1, <2>3 DEF Withdrawn
<1> HIDE DEF C
<1>5. /\ TradeTypes' /\ Paired' /\ OffersRegistered'
      /\ \A i \in Item :
           /\ tradeItems'[i] # NoPlayer => tradeItems[i] # NoPlayer
           /\ refs'[i] = refs[i]
           /\ Count(tradeItems'[i] # NoPlayer) + released'[i]
                = Count(tradeItems[i] # NoPlayer) + released[i] + Count(i \in {k})
  BY <1>2, <1>3, ClearOffers
<1>6. TypeOK'
  BY <1>5 DEF Inv, TypeOK, TradeTypes, RemoveItem, Location
<1>7. PartnersAgree'
  <2>1. ASSUME NEW r \in Player, tradePartner'[r] # NoPlayer
        PROVE  r \in online'
    <3>1. tradePartner[r] # NoPlayer /\ online' = online
      BY <1>3, <2>1 DEF RemoveItem, ClearTrades
    <3> QED
      BY <3>1 DEF Inv, PartnersAgree
  <2> QED
    BY <1>5, <2>1 DEF PartnersAgree, Paired
<1>8. ReferencesCounted'
  <2> SUFFICES ASSUME NEW i \in Item
               PROVE  refs'[i] = Count(loc'[i] # Gone)
                                   + Count(tradeItems'[i] # NoPlayer) + released'[i]
    BY DEF ReferencesCounted
  <2>1. refs[i] = Count(loc[i] # Gone) + Count(tradeItems[i] # NoPlayer) + released[i]
    BY DEF Inv, ReferencesCounted
  <2>2. released[i] \in Nat /\ released'[i] \in Nat
    BY <1>6 DEF Inv, TypeOK
  <2>3. /\ refs'[i] = refs[i]
        /\ Count(tradeItems'[i] # NoPlayer) + released'[i]
             = Count(tradeItems[i] # NoPlayer) + released[i] + Count(i \in {k})
    BY <1>5
  <2>4. CASE i = k
    <3>1. loc'[i] = Gone /\ loc[i] # Gone
      BY <1>3, <2>4 DEF Inv, TypeOK
    <3> QED
      BY <2>1, <2>2, <2>3, <2>4, <3>1 DEF Count
  <2>5. CASE i # k
    <3>1. loc'[i] = loc[i]
      BY <1>3, <2>5 DEF Inv, TypeOK
    <3> QED
      BY <2>1, <2>2, <2>3, <2>5, <3>1 DEF Count
  <2> QED
    BY <2>4, <2>5
<1>9. OfferedInWorld'
  <2> SUFFICES ASSUME NEW i \in Item, tradeItems'[i] # NoPlayer
               PROVE  loc'[i] # Gone
    BY DEF OfferedInWorld
  <2>1. i # k /\ tradeItems[i] # NoPlayer
    BY <1>4, <1>5
  <2> QED
    BY <1>3, <2>1 DEF Inv, TypeOK, OfferedInWorld
<1> QED
  BY <1>5, <1>6, <1>7, <1>8, <1>9 DEF Inv

-----------------------------------------------------------------------------
(* Opening and accepting *)

\* A new offer: by one of two free players, or the counter-offer of the one
\* who was asked.  NotOffered makes the entry in tradeItems a new one.
LEMMA RequestInv ==
  ASSUME Inv, NEW p \in Player, NEW q \in Player, NEW k \in Item,
         RequestTrade(p, q, k)
  PROVE  Inv'
<1> USE DEF Inv
<1>1. p # q /\ p \in online /\ q \in online /\ tradeItems[k] = NoPlayer
      /\ loc[k] # Gone /\ UNCHANGED wVars
  BY NearInWorld DEF RequestTrade, NotOffered
<1>2. StartTrade(p, q, k) /\ MayTrade(p, q)
  BY DEF RequestTrade, StartTrade
<1>3. /\ tradePartner' = [tradePartner EXCEPT ![p] = q,
                            ![q] = IF tradeState[q] = "NONE" THEN p ELSE @]
      /\ tradeState' = [tradeState EXCEPT ![p] = "INITIATED",
                            ![q] = IF tradeState[q] = "NONE" THEN "ACKNOWLEDGE" ELSE @]
      /\ tradeItem' = [tradeItem EXCEPT ![p] = k]
      /\ tradeItems' = [tradeItems EXCEPT ![k] = p]
      /\ refs' = [refs EXCEPT ![k] = @ + 1]
      /\ released' = released
  BY <1>2 DEF StartTrade
<1>4. TypeOK'
  BY <1>1, <1>3 DEF TypeOK, wVars, State
<1>5. /\ tradePartner'[p] = q /\ tradePartner'[q] = p
      /\ tradeState'[p] = "INITIATED" /\ tradeState'[q] # "NONE"
      /\ \A r \in Player \ {p, q} : /\ tradePartner'[r] = tradePartner[r]
                                    /\ tradeState'[r] = tradeState[r]
  BY <1>1, <1>2, <1>3 DEF TypeOK, MayTrade
<1>6. \A r \in Player \ {p, q} : tradePartner[r] \notin {p, q}
  BY <1>1, <1>2, TradeAssumption DEF TypeOK, PartnersAgree, MayTrade
<1>7. PartnersAgree'
  BY <1>1, <1>5, <1>6, TradeAssumption DEF TypeOK, PartnersAgree, wVars
<1>8. tradeItem[p] = NoItem
  BY <1>2 DEF MayTrade, OffersRegistered
<1>9. OffersRegistered'
  <2>1. ASSUME NEW r \in Player
        PROVE  LET t == tradeItem'[r] IN
               /\ t # NoItem => tradeItems'[t] = r
               /\ tradeState'[r] = "INITIATED" => t # NoItem
               /\ tradeState'[r] \in {"NONE", "ACKNOWLEDGE"} => t = NoItem
    <3>1. CASE r = p
      BY <1>3, <1>5, <3>1, TradeAssumption DEF TypeOK
    <3>2. CASE r # p
      <4>1. tradeItem'[r] = tradeItem[r] /\ tradeItem[r] # k
        BY <1>1, <1>3, <3>2, TradeAssumption DEF TypeOK, OffersRegistered
      <4>2. \/ tradeState'[r] = tradeState[r]
            \/ tradeState'[r] = "ACKNOWLEDGE" /\ tradeState[r] = "NONE"
        BY <1>1, <1>3, <3>2 DEF TypeOK
      <4> QED
        BY <1>3, <4>1, <4>2 DEF TypeOK, OffersRegistered
    <3> QED
      BY <3>1, <3>2
  <2>2. ASSUME NEW i \in Item, tradeItems'[i] # NoPlayer
        PROVE  tradeItem'[tradeItems'[i]] = i
    <3>1. CASE i = k
      BY <1>3, <3>1 DEF TypeOK
    <3>2. CASE i # k
      <4>1. tradeItems'[i] = tradeItems[i] /\ tradeItems[i] \in Player
        BY <1>3, <2>2, <3>2 DEF TypeOK
      <4>2. tradeItem[tradeItems[i]] = i
        BY <2>2, <4>1 DEF OffersRegistered
      <4>3. tradeItems[i] # p
        BY <1>8, <4>2, TradeAssumption
      <4> QED
        BY <1>3, <4>1, <4>2, <4>3 DEF TypeOK
    <3> QED
      BY <3>1, <3>2
  <2> QED
    BY <2>1, <2>2 DEF OffersRegistered
<1>10. ReferencesCounted'
  <2> SUFFICES ASSUME NEW i \in Item
               PROVE  refs'[i] = Count(loc'[i] # Gone)
                                   + Count(tradeItems'[i] # NoPlayer) + released'[i]
    BY DEF ReferencesCounted
  <2>1. refs[i] = Count(loc[i] # Gone) + Count(tradeItems[i] # NoPlayer) + released[i]
    BY DEF ReferencesCounted
  <2>2. released[i] \in Nat /\ loc' = loc /\ released' = released
    BY <1>1, <1>3 DEF TypeOK, wVars
  <2>3. CASE i = k
    <3>1. refs'[i] = refs[i] + 1 /\ tradeItems'[i] = p
      BY <1>3, <2>3 DEF TypeOK
    <3> QED
      BY <1>1, <2>1, <2>2, <2>3, <3>1, TradeAssumption DEF Count
  <2>4. CASE i # k
    BY <1>3, <2>1, <2>2, <2>4 DEF TypeOK
  <2> QED
    BY <2>3, <2>4
<1>11. OfferedInWorld'
  BY <1>1, <1>3 DEF TypeOK, OfferedInWorld, wVars
<1> QED
  BY <1>4, <1>7, <1>9, <1>10, <1>11

\* The first acceptance changes the state of one trader.
LEMMA AcceptFirstInv ==
  ASSUME Inv, NEW p \in Player, AcceptFirst(p)
  PROVE  Inv'
<1>1. /\ tradeState[p] \in {"ACKNOWLEDGE", "INITIATED"}
      /\ tradeState' = [tradeState EXCEPT ![p] = "ACCEPT"]
      /\ UNCHANGED <<tradePartner, tradeItem, tradeItems, refs, released, wVars>>
  BY DEF AcceptFirst, CanAccept
<1>2. TypeOK'
  BY <1>1 DEF Inv, TypeOK, wVars, State
<1>3. PartnersAgree'
  BY <1>1 DEF Inv, TypeOK, PartnersAgree, wVars
<1>4. OffersRegistered'
  BY <1>1 DEF Inv, TypeOK, OffersRegistered
<1>5. ReferencesCounted' /\ OfferedInWorld'
  BY <1>1 DEF Inv, ReferencesCounted, OfferedInWorld, wVars
<1> QED
  BY <1>2, <1>3, <1>4, <1>5 DEF Inv

\* The exchange moves at most the two offers, none of them out of the world,
\* and closes trades, among them the one it completes.
LEMMA ExchangeInv ==
  ASSUME Inv, NEW p \in Player, Exchange(p)
  PROVE  Inv'
<1> DEFINE q == tradePartner[p]
           give == tradeItem[p]
           take == tradeItem[q]
<1>1. q \in Player /\ q # p
  BY TradeAssumption DEF Inv, TypeOK, PartnersAgree, Exchange, BothAccept, CanAccept
<1>2. give \in Item /\ take \in Item
  BY <1>1 DEF Inv, TypeOK, Exchange, AddTest
<1>3. loc[give] # Gone /\ loc[take] # Gone
  <2>1. tradeItems[give] = p /\ tradeItems[take] = q
    BY <1>1, <1>2, TradeAssumption DEF Inv, OffersRegistered
  <2> QED
    BY <1>1, <1>2, <2>1, TradeAssumption DEF Inv, OfferedInWorld
<1>4. online' = online /\ pos' = pos
  BY DEF Exchange
<1> HIDE DEF q, give, take
<1>5. PICK l \in MovedTo(loc, q, give) :
        LET L == [loc EXCEPT ![give] = l]
            hit == {p, q} \cup HitByRemoval(loc, give) \cup HitByAddition(loc, l)
        IN IF MovedTo(L, p, take) = {}
             THEN loc' = L /\ CloseTrades(hit)
             ELSE \E m \in MovedTo(L, p, take) :
                    /\ loc' = [L EXCEPT ![take] = m]
                    /\ CloseTrades(hit \cup HitByRemoval(L, take)
                                       \cup HitByAddition(L, m))
  BY DEF Exchange, q, give, take
<1>6. l \in Location \ {Gone}
  BY <1>1, <1>2, MovedToInWorld
<1> DEFINE L == [loc EXCEPT ![give] = l]
           hit == {p, q} \cup HitByRemoval(loc, give) \cup HitByAddition(loc, l)
<1>7. L \in [Item -> Location] /\ \A i \in Item : (L[i] = Gone) <=> (loc[i] = Gone)
  BY <1>2, <1>3, <1>6 DEF Inv, TypeOK
<1>8. hit \in SUBSET Player
  BY <1>1 DEF HitByRemoval, HitByAddition
<1>9. pos' \in [Player -> Place]
  BY <1>4 DEF Inv, TypeOK
<1> HIDE DEF L, hit
<1>10. CASE MovedTo(L, p, take) = {}
  <2>1. loc' = L /\ CloseTrades(hit)
    BY <1>5, <1>10 DEF L, hit
  <2> QED
    BY <1>4, <1>7, <1>8, <1>9, <2>1, CloseInv
<1>11. CASE MovedTo(L, p, take) # {}
  <2>1. PICK m \in MovedTo(L, p, take) :
          /\ loc' = [L EXCEPT ![take] = m]
          /\ CloseTrades(hit \cup HitByRemoval(L, take) \cup HitByAddition(L, m))
    BY <1>5, <1>11 DEF L, hit
  <2>2. m \in Location \ {Gone}
    BY <1>2, MovedToInWorld
  <2>3. hit \cup HitByRemoval(L, take) \cup HitByAddition(L, m) \in SUBSET Player
    BY <1>8 DEF HitByRemoval, HitByAddition
  <2>4. /\ loc' \in [Item -> Location]
        /\ \A i \in Item : (loc'[i] = Gone) <=> (loc[i] = Gone)
    BY <1>2, <1>3, <1>7, <2>1, <2>2
  <2> QED
    BY <1>4, <1>9, <2>1, <2>3, <2>4, CloseInv
<1> QED
  BY <1>10, <1>11

\* A player moves an item.
LEMMA MoveInv ==
  ASSUME Inv, NEW p \in Player, NEW i \in Item, NEW l \in Location, MoveItem(p, i, l)
  PROVE  Inv'
<1>1. loc[i] # Gone /\ l # Gone
  BY NearInWorld, TradeAssumption DEF MoveItem
<1>2. loc' \in [Item -> Location] /\ \A j \in Item : (loc'[j] = Gone) <=> (loc[j] = Gone)
  BY <1>1 DEF Inv, TypeOK, MoveItem
<1>3. HitByRemoval(loc, i) \cup HitByAddition(loc, l) \in SUBSET Player
  BY DEF HitByRemoval, HitByAddition
<1> QED
  BY <1>2, <1>3, CloseInv DEF Inv, TypeOK, MoveItem

\* cleanup() gives back the references that are released.
LEMMA CleanupInv ==
  ASSUME Inv, Cleanup
  PROVE  Inv'
<1>1. \A i \in Item : /\ refs'[i] = Count(loc[i] # Gone) + Count(tradeItems[i] # NoPlayer)
                      /\ released'[i] = 0
  BY DEF Inv, TypeOK, ReferencesCounted, Cleanup, Count
<1>2. TypeOK'
  <2>1. \A i \in Item : refs'[i] \in Nat
    BY <1>1 DEF Count
  <2> QED
    BY <2>1 DEF Inv, TypeOK, Cleanup, wVars
<1>3. ReferencesCounted'
  BY <1>1 DEF ReferencesCounted, Cleanup, wVars, Count
<1>4. PartnersAgree' /\ OffersRegistered' /\ OfferedInWorld'
  BY DEF Inv, PartnersAgree, OffersRegistered, OfferedInWorld, Cleanup, wVars
<1> QED
  BY <1>2, <1>3, <1>4 DEF Inv

-----------------------------------------------------------------------------

\* At the start nobody trades.
LEMMA InitInv == Init => Inv
<1> SUFFICES ASSUME Init PROVE Inv
  OBVIOUS
<1>1. TypeOK
  BY TradeAssumption DEF Init, TypeOK, State, Location
<1>2. PartnersAgree
  BY DEF Init, PartnersAgree
<1>3. OffersRegistered
  BY DEF Init, OffersRegistered
<1>4. ReferencesCounted
  BY TradeAssumption DEF Init, ReferencesCounted, Count
<1>5. OfferedInWorld
  BY DEF Init, OfferedInWorld
<1> QED
  BY <1>1, <1>2, <1>3, <1>4, <1>5 DEF Inv

\* Every step keeps the invariant.
LEMMA StepInv == Inv /\ [Next]_vars => Inv'
<1> SUFFICES ASSUME Inv, [Next]_vars PROVE Inv'
  OBVIOUS
<1>1. ASSUME NEW p \in Player, TradeStep(p) PROVE Inv'
  <2>1. CASE \E q \in Player, i \in Item : RequestTrade(p, q, i)
    BY <2>1, RequestInv
  <2>2. CASE AcceptFirst(p)
    BY <2>2, AcceptFirstInv
  <2>3. CASE ExchangeRefused(p) \/ CloseTrade(p)
    BY <2>3, CloseInv DEF ExchangeRefused, CloseTrade, Inv, TypeOK, wVars
  <2>4. CASE Exchange(p)
    BY <2>4, ExchangeInv
  <2> QED
    BY <1>1, <2>1, <2>2, <2>3, <2>4 DEF TradeStep
<1>2. ASSUME NEW p \in Player, NEW l \in Place, Walk(p, l) PROVE Inv'
  <2>1. PICK S \in {{}, {p}} : CloseTrades(S)
    BY <1>2 DEF Walk
  <2> QED
    BY <1>2, <2>1, CloseInv DEF Walk, Inv, TypeOK
<1>3. ASSUME NEW i \in Item, UpdateItem(i) PROVE Inv'
  <2>1. HitByUpdate(loc, i) \in SUBSET Player
    BY DEF HitByUpdate
  <2> QED
    BY <1>3, <2>1, CloseInv DEF UpdateItem, Inv, TypeOK, wVars
<1>4. CASE UNCHANGED vars
  BY <1>4 DEF vars, tVars, wVars, Inv, TypeOK, PartnersAgree, OffersRegistered,
              ReferencesCounted, OfferedInWorld
<1> QED
  BY <1>1, <1>2, <1>3, <1>4, LogoutInv, MoveInv, RemoveInv, CleanupInv
     DEF Next, WorldStep

\* The invariant holds in every state.
LEMMA Invariance == Spec => []Inv
BY InitInv, StepInv, PTL DEF Spec

\* The variables keep their types; a reference counter never falls below
\* zero.
THEOREM TypeCorrect == Spec => []TypeOK
BY Invariance, PTL DEF Inv

\* A trade always has two sides who know of each other, and both are in the
\* world: internalCloseTrade is called on every way out of it.
THEOREM PartnersAlwaysAgree == Spec => []PartnersAgree
BY Invariance, PTL DEF Inv

\* Game::tradeItems and the offers of the players never differ.
THEOREM OffersAlwaysRegistered == Spec => []OffersRegistered
BY Invariance, PTL DEF Inv

\* Every reference taken by a trade is given back exactly once, so an item
\* that is offered or in the world is not deleted by cleanup().
THEOREM ReferencesAlwaysCounted == Spec => []ReferencesCounted
BY Invariance, PTL DEF Inv

-----------------------------------------------------------------------------
(* Bags in bags: Holders(L, i) is the least set of bags that is closed. *)

Closed(L, i, S) ==
  /\ L[i] \in Bag => L[i] \in S
  /\ \A c \in S : L[c] \in Bag => L[c] \in S

\* Being held is well founded: no bag lies in itself.
Acyclic(L) == \A i \in Item : i \notin Holders(L, i)

\* The bags around an item are closed, and are the least such set.
LEMMA HoldersClosed ==
  ASSUME NEW L, NEW i \in Item
  PROVE  Holders(L, i) \in SUBSET Bag /\ Closed(L, i, Holders(L, i))
BY DEF Holders, Closed

\* Every closed set of bags has all holders in it.
LEMMA HoldersLeast ==
  ASSUME NEW L, NEW i \in Item, NEW S \in SUBSET Bag, Closed(L, i, S)
  PROVE  Holders(L, i) \subseteq S
BY DEF Holders, Closed

\* They are the parent and the bags around it.
LEMMA HoldersStep ==
  ASSUME NEW L, NEW i \in Item
  PROVE  Holders(L, i) = IF L[i] \in Bag THEN {L[i]} \cup Holders(L, L[i]) ELSE {}
<1>1. CASE L[i] \notin Bag
  <2>1. Closed(L, i, {})
    BY <1>1 DEF Closed
  <2> QED
    BY <1>1, <2>1, HoldersLeast
<1>2. CASE L[i] \in Bag
  <2>1. L[i] \in Item
    BY <1>2, TradeAssumption
  <2>2. Closed(L, i, {L[i]} \cup Holders(L, L[i]))
    BY <2>1, HoldersClosed DEF Closed
  <2>3. {L[i]} \cup Holders(L, L[i]) \in SUBSET Bag
    BY <1>2, <2>1, HoldersClosed
  <2>4. Holders(L, i) \subseteq {L[i]} \cup Holders(L, L[i])
    BY <2>2, <2>3, HoldersLeast
  <2>5. L[i] \in Holders(L, i) /\ Closed(L, L[i], Holders(L, i))
    BY <1>2, HoldersClosed DEF Closed
  <2>6. Holders(L, L[i]) \subseteq Holders(L, i)
    BY <2>1, <2>5, HoldersClosed, HoldersLeast
  <2> QED
    BY <1>2, <2>4, <2>5, <2>6
<1> QED
  BY <1>1, <1>2

\* What holds a holder holds the item.
LEMMA HoldersTransitive ==
  ASSUME NEW L, NEW i \in Item, NEW b \in Holders(L, i)
  PROVE  b \in Item /\ Holders(L, b) \subseteq Holders(L, i)
<1>1. b \in Item
  BY HoldersClosed, TradeAssumption
<1>2. Closed(L, b, Holders(L, i))
  BY HoldersClosed DEF Closed
<1> QED
  BY <1>1, <1>2, HoldersClosed, HoldersLeast

\* Of two bags around an item one is in the other.
LEMMA HoldersLinear ==
  ASSUME NEW L, NEW i \in Item, NEW b \in Holders(L, i), NEW c \in Holders(L, i)
  PROVE  c = b \/ c \in Holders(L, b) \/ b \in Holders(L, c)
<1> DEFINE S == {d \in Holders(L, i) : d = b \/ d \in Holders(L, b) \/ b \in Holders(L, d)}
<1>1. b \in Item /\ \A d \in Holders(L, i) : d \in Item
  BY HoldersTransitive
<1>2. ASSUME L[i] \in Bag PROVE L[i] \in S
  BY <1>2, HoldersStep, HoldersClosed DEF Closed
<1>3. ASSUME NEW d \in S, L[d] \in Bag PROVE L[d] \in S
  <2>1. L[d] \in Holders(L, i)
    BY <1>3, HoldersClosed DEF Closed
  <2>2. CASE d = b \/ d \in Holders(L, b)
    BY <1>1, <1>3, <2>1, <2>2, HoldersClosed DEF Closed
  <2>3. CASE b \in Holders(L, d)
    <3>1. b \in {L[d]} \cup Holders(L, L[d])
      BY <1>1, <1>3, <2>3, HoldersStep
    <3> QED
      BY <2>1, <3>1
  <2> QED
    BY <1>3, <2>2, <2>3
<1>4. S \in SUBSET Bag /\ Closed(L, i, S)
  BY <1>2, <1>3, HoldersClosed DEF Closed
<1> HIDE DEF S
<1>5. Holders(L, i) \subseteq S
  BY <1>4, HoldersLeast
<1> QED
  BY <1>5 DEF S

-----------------------------------------------------------------------------
(* Moving an item *)

\* What changes for an item that is neither the moved one nor in it: nothing.
LEMMA HoldersKept ==
  ASSUME NEW L, NEW M, NEW i \in Item, \A c \in Item \ {i} : M[c] = L[c],
         NEW x \in Item, i # x, i \notin Holders(L, x)
  PROVE  Holders(M, x) \subseteq Holders(L, x) /\ Holders(L, x) \subseteq Holders(M, x)
<1> DEFINE S == Holders(M, x) \cap Holders(L, x)
<1>1. \A c \in {x} \cup Holders(L, x) : c \in Item /\ M[c] = L[c]
  BY HoldersTransitive
<1>2. Closed(M, x, Holders(L, x)) /\ Holders(L, x) \in SUBSET Bag
  BY <1>1, HoldersClosed DEF Closed
<1>3. Closed(M, x, Holders(M, x)) /\ Closed(L, x, Holders(L, x))
  BY HoldersClosed
<1>4. Closed(L, x, S) /\ S \in SUBSET Bag
  BY <1>1, <1>2, <1>3 DEF Closed
<1>5. Holders(M, x) \subseteq Holders(L, x)
  BY <1>2, HoldersLeast
<1> HIDE DEF S
<1>6. Holders(L, x) \subseteq S
  BY <1>4, HoldersLeast
<1> QED
  BY <1>5, <1>6 DEF S

\* Where an item is put, and the bags around that.
Around(L, l) == IF l \in Bag THEN {l} \cup Holders(L, l) ELSE {}

\* No item gets other holders than the ones it had and the new place.
LEMMA HoldersMoved ==
  ASSUME NEW L \in [Item -> Location], NEW i \in Item, NEW l,
         NEW M, M = [L EXCEPT ![i] = l], NEW x \in Item
  PROVE  Holders(M, x) \subseteq Holders(L, x) \cup Around(L, l)
<1> DEFINE S == Holders(L, x) \cup Around(L, l)
<1>1. l \in Bag => l \in Item
  BY TradeAssumption
<1>2. S \in SUBSET Bag /\ S \in SUBSET Item
  BY <1>1, HoldersClosed, TradeAssumption DEF Around
<1>3. \A c \in Item : M[c] = IF c = i THEN l ELSE L[c]
  OBVIOUS
<1>4. l \in Bag => l \in S
  BY DEF Around
<1>5. L[x] \in Bag => L[x] \in S
  BY HoldersClosed DEF Closed
<1>6. ASSUME NEW c \in S, L[c] \in Bag PROVE L[c] \in S
  <2>1. CASE c \in Holders(L, x)
    BY <1>6, <2>1, HoldersClosed DEF Closed
  <2>2. CASE c \in Around(L, l)
    BY <1>1, <1>6, <2>2, HoldersClosed DEF Closed, Around
  <2> QED
    BY <2>1, <2>2
<1> HIDE DEF S
<1>7. Closed(M, x, S)
  BY <1>2, <1>3, <1>4, <1>5, <1>6 DEF Closed
<1>8. Holders(M, x) \subseteq S
  BY <1>2, <1>7, HoldersLeast
<1> QED
  BY <1>8 DEF S

\* An item may be put anywhere but into itself.
MayGo(L, i, l) == l \in Bag => l # i /\ i \notin Holders(L, l)

\* A move to where it may go puts no item into itself.
LEMMA AcyclicMoved ==
  ASSUME NEW L \in [Item -> Location], Acyclic(L), NEW i \in Item, NEW l,
         MayGo(L, i, l), NEW M, M = [L EXCEPT ![i] = l]
  PROVE  Acyclic(M)
<1> SUFFICES ASSUME NEW x \in Item, x \in Holders(M, x) PROVE FALSE
  BY DEF Acyclic
<1>1. x \notin Holders(L, x) /\ \A c \in Item \ {i} : M[c] = L[c]
  BY DEF Acyclic
<1>2. i = x \/ i \in Holders(L, x)
  BY <1>1, HoldersKept
<1>3. l \in Bag /\ (x = l \/ x \in Holders(L, l))
  BY <1>1, HoldersMoved DEF Around
<1>4. l \in Item
  BY <1>3, TradeAssumption
<1>5. x \in Holders(L, l) => Holders(L, x) \subseteq Holders(L, l)
  BY <1>4, HoldersTransitive
<1> QED
  BY <1>2, <1>3, <1>5 DEF MayGo

\* An item is where it was, with what it held.
Same(L, M, t) ==
  /\ M[t] = L[t]
  /\ Holders(M, t) = Holders(L, t)
  /\ Root(M, t) = Root(L, t)
  /\ Contents(M, t) = Contents(L, t)

\* An item that is neither the moved one, nor in it, nor around it before or
\* after, is as it was.
LEMMA Untouched ==
  ASSUME NEW L \in [Item -> Location], NEW i \in Item, NEW l,
         NEW M, M = [L EXCEPT ![i] = l],
         NEW t \in Item, t # i, t \notin Holders(L, i), i \notin Holders(L, t),
         t \notin Around(L, l)
  PROVE  Same(L, M, t)
<1>1. M[t] = L[t] /\ \A c \in Item \ {i} : M[c] = L[c]
  OBVIOUS
<1>2. Holders(M, t) = Holders(L, t)
  <2>1. Holders(M, t) \subseteq Holders(L, t) /\ Holders(L, t) \subseteq Holders(M, t)
    BY <1>1, HoldersKept
  <2> QED
    BY <2>1
<1>3. \A c \in {t} \cup Holders(L, t) : M[c] = L[c]
  BY HoldersTransitive
<1>4. {M[c] : c \in {t} \cup Holders(M, t)} = {L[c] : c \in {t} \cup Holders(L, t)}
  BY <1>2, <1>3
<1>5. ASSUME NEW x \in Item PROVE t \in Holders(M, x) <=> t \in Holders(L, x)
  <2>1. CASE i = x \/ i \in Holders(L, x)
    <3>1. t \notin Holders(L, x)
      BY <2>1, HoldersLinear
    <3>2. t \notin Holders(M, x)
      BY <3>1, HoldersMoved
    <3> QED
      BY <3>1, <3>2
  <2>2. CASE i # x /\ i \notin Holders(L, x)
    BY <1>1, <2>2, HoldersKept
  <2> QED
    BY <2>1, <2>2
<1>6. Contents(M, t) = Contents(L, t)
  BY <1>5 DEF Contents
<1>7. Root(M, t) = Root(L, t)
  BY <1>4 DEF Root
<1> QED
  BY <1>1, <1>2, <1>6, <1>7 DEF Same

-----------------------------------------------------------------------------
(* Offers under way *)

\* The notifications find every trade whose offer a move concerns.
LEMMA Spared ==
  ASSUME TypeOK, NEW L \in [Item -> Location], Acyclic(L), NEW i \in Item, NEW l,
         NEW M, M = [L EXCEPT ![i] = l], NEW p \in Player, tradeItem[p] # NoItem,
         p \notin HitByRemoval(L, i), p \notin HitByAddition(L, l)
  PROVE  Same(L, M, tradeItem[p])
<1> DEFINE t == tradeItem[p]
<1>1. t \in Item
  BY DEF TypeOK
<1>2. t # i /\ t \notin Holders(L, i)
  BY DEF HitByRemoval
<1>3. i \notin Holders(L, t)
  <2> SUFFICES ASSUME i \in Holders(L, t) PROVE FALSE
    OBVIOUS
  <2>1. L[i] \in Bag /\ ~(L[t] # L[i] /\ L[i] \in Holders(L, t))
    BY DEF HitByRemoval
  <2>2. L[i] \in Holders(L, t)
    BY <1>1, <2>1, HoldersClosed DEF Closed
  <2>3. L[t] = L[i] /\ i \in {L[t]} \cup Holders(L, L[t])
    BY <1>1, <2>1, <2>2, HoldersStep
  <2>4. i \in Holders(L, i)
    BY <2>1, <2>3, HoldersStep
  <2> QED
    BY <2>4 DEF Acyclic
<1>4. t \notin Around(L, l)
  BY DEF HitByAddition, Around
<1> HIDE DEF t
<1>5. Same(L, M, t)
  BY <1>1, <1>2, <1>3, <1>4, Untouched
<1> QED
  BY <1>5 DEF t

\* Offers apart from each other and within reach of who made them, in a world
\* in which nothing lies in itself.
Kept == Inv /\ Acyclic(loc) /\ OffersApart /\ TradersInReach

\* What is on offer before and after a step is as it was.
Frozen ==
  \A p \in Player : LET t == tradeItem[p] IN
    t # NoItem /\ tradeItem'[p] = t
      => /\ loc'[t] = loc[t]
         /\ Root(loc', t) = Root(loc, t)
         /\ Contents(loc', t) = Contents(loc, t)

\* A step that closes the trades of the players of C and disturbs none of
\* the other offers.
LEMMA Disturbing ==
  ASSUME Kept, NEW C \in SUBSET Player, NEW freed, ClearTrades(C, freed),
         \A p \in Player \ C : tradeItem[p] # NoItem => Same(loc, loc', tradeItem[p])
  PROVE  /\ Frozen
         /\ OffersApart'
         /\ pos' = pos => TradersInReach'
<1> USE DEF Kept, Inv
<1>1. \A p \in C : tradeItem'[p] = NoItem /\ tradePartner'[p] = NoPlayer
  BY DEF ClearTrades, TypeOK
<1>2. \A p \in Player \ C : tradeItem'[p] = tradeItem[p] /\ tradePartner'[p] = tradePartner[p]
  BY DEF ClearTrades, TypeOK
<1>3. ASSUME NEW i \in Item, tradeItems'[i] # NoPlayer
      PROVE  /\ tradeItems[i] \in Player \ C
             /\ tradeItem[tradeItems[i]] = i
  <2>1. i \notin Withdrawn(C) /\ tradeItems'[i] = tradeItems[i]
    BY <1>3 DEF ClearTrades
  <2> QED
    BY <1>3, <2>1 DEF TypeOK, OffersRegistered, Withdrawn
<1>4. Frozen
  BY <1>1, <1>2 DEF Frozen, Same
<1>5. OffersApart'
  <2> SUFFICES ASSUME NEW i \in Item, NEW j \in Item,
                      tradeItems'[i] # NoPlayer, tradeItems'[j] # NoPlayer
               PROVE  i \notin Holders(loc', j)
    BY DEF OffersApart
  <2>1. tradeItems[i] # NoPlayer /\ tradeItems[j] # NoPlayer
    BY <1>3, TradeAssumption
  <2>2. j # NoItem
    BY TradeAssumption
  <2>3. Same(loc, loc', j)
    BY <1>3, <2>2
  <2> QED
    BY <2>1, <2>3 DEF OffersApart, Same
<1>6. ASSUME pos' = pos PROVE TradersInReach'
  BY <1>1, <1>2, <1>6 DEF TradersInReach, Same, Near
<1> QED
  BY <1>4, <1>5, <1>6

\* Closing somebody's trade closes it for him.
LEMMA EndedHas ==
  ASSUME NEW S \in SUBSET Player
  PROVE  S \subseteq Ended(S)
BY TradeAssumption DEF Ended

\* A move of an item to where it may go, with all its notifications.
LEMMA MoveKept ==
  ASSUME Kept, NEW i \in Item, NEW l \in Location, MayGo(loc, i, l),
         NEW S \in SUBSET Player, HitByRemoval(loc, i) \cup HitByAddition(loc, l) \subseteq S,
         NEW freed, ClearTrades(Ended(S), freed),
         loc' = [loc EXCEPT ![i] = l], pos' = pos
  PROVE  Acyclic(loc') /\ Frozen /\ OffersApart' /\ TradersInReach'
<1>1. loc \in [Item -> Location] /\ TypeOK /\ Inv
  BY DEF Kept, Inv, TypeOK
<1>2. Acyclic(loc')
  BY <1>1, AcyclicMoved DEF Kept
<1>3. Ended(S) \in SUBSET Player
  BY <1>1, EndedClosed
<1>4. ASSUME NEW p \in Player \ Ended(S), tradeItem[p] # NoItem
      PROVE  Same(loc, loc', tradeItem[p])
  <2>1. p \notin HitByRemoval(loc, i) /\ p \notin HitByAddition(loc, l)
    BY EndedHas
  <2> QED
    BY <1>1, <1>4, <2>1, Spared DEF Kept
<1> QED
  BY <1>2, <1>3, <1>4, Disturbing

\* A step in which nothing moves.
LEMMA StillKept ==
  ASSUME Kept, NEW C \in SUBSET Player, ClearTrades(C, {}), loc' = loc
  PROVE  /\ Acyclic(loc') /\ Frozen /\ OffersApart'
         /\ pos' = pos => TradersInReach'
<1>1. \A p \in Player \ C : tradeItem[p] # NoItem => Same(loc, loc', tradeItem[p])
  BY DEF Same
<1> QED
  BY <1>1, Disturbing DEF Kept

\* internalMoveItem puts an item only where it may go.
LEMMA MovedToMayGo ==
  ASSUME NEW L, NEW p \in Player, NEW i \in Item, NEW l \in MovedTo(L, p, i)
  PROVE  l \in Location /\ MayGo(L, i, l)
<1>1. l \in Destinations(L, p, i) \/ l = Lost
  BY DEF MovedTo
<1>2. CASE l = Lost
  BY <1>2, TradeAssumption DEF Location, MayGo
<1>3. CASE l = p
  BY <1>3, TradeAssumption DEF Location, MayGo
<1>4. CASE l \in Bag /\ l # i /\ i \notin Holders(L, l)
  BY <1>4 DEF Location, MayGo
<1> QED
  BY <1>1, <1>2, <1>3, <1>4 DEF Destinations

\* A player moves an item: MoveItem tests that it is not put into itself.
LEMMA MoveItemKept ==
  ASSUME Kept, NEW p \in Player, NEW i \in Item, NEW l \in Location, MoveItem(p, i, l)
  PROVE  Acyclic(loc') /\ Frozen /\ OffersApart' /\ TradersInReach'
<1> DEFINE S == HitByRemoval(loc, i) \cup HitByAddition(loc, l)
<1>1. S \in SUBSET Player
  BY DEF HitByRemoval, HitByAddition
<1>2. MayGo(loc, i, l)
  BY TradeAssumption DEF MoveItem, MayGo
<1>3. ClearTrades(Ended(S), {}) /\ loc' = [loc EXCEPT ![i] = l] /\ pos' = pos
  BY DEF MoveItem, CloseTrades
<1> HIDE DEF S
<1>4. HitByRemoval(loc, i) \cup HitByAddition(loc, l) \subseteq S
  BY DEF S
<1> QED
  BY <1>1, <1>2, <1>3, <1>4, MoveKept

\* An item is removed from the world: it goes nowhere, and holds nothing.
LEMMA RemoveItemKept ==
  ASSUME Kept, NEW i \in Item, RemoveItem(i)
  PROVE  Acyclic(loc') /\ Frozen /\ OffersApart' /\ TradersInReach'
<1> DEFINE S == HitByRemoval(loc, i)
<1>1. Gone \in Location /\ Gone \notin Bag
  BY TradeAssumption DEF Location
<1>2. S \in SUBSET Player /\ HitByRemoval(loc, i) \cup HitByAddition(loc, Gone) \subseteq S
  BY <1>1 DEF HitByRemoval, HitByAddition
<1>3. ClearTrades(Ended(S), {i}) /\ loc' = [loc EXCEPT ![i] = Gone] /\ pos' = pos
  BY DEF RemoveItem
<1>4. MayGo(loc, i, Gone)
  BY <1>1 DEF MayGo
<1> HIDE DEF S
<1> QED
  BY <1>1, <1>2, <1>3, <1>4, MoveKept

\* Both moves of an exchange are announced; who is not among the traders
\* and is not hit by either keeps the offer as it is.
LEMMA ExchangeKept ==
  ASSUME Kept, NEW p \in Player, Exchange(p)
  PROVE  Acyclic(loc') /\ Frozen /\ OffersApart' /\ TradersInReach'
<1> DEFINE q == tradePartner[p]
           give == tradeItem[p]
           take == tradeItem[q]
<1>1. TypeOK /\ Inv /\ loc \in [Item -> Location] /\ Acyclic(loc)
  BY DEF Kept, Inv, TypeOK
<1>2. q \in Player /\ give \in Item /\ take \in Item /\ pos' = pos
  BY <1>1, TradeAssumption DEF Inv, PartnersAgree, TypeOK, Exchange, BothAccept,
       CanAccept, AddTest
<1> HIDE DEF q, give, take
<1>3. PICK l \in MovedTo(loc, q, give) :
        LET L == [loc EXCEPT ![give] = l]
            hit == {p, q} \cup HitByRemoval(loc, give) \cup HitByAddition(loc, l)
        IN IF MovedTo(L, p, take) = {}
             THEN loc' = L /\ CloseTrades(hit)
             ELSE \E m \in MovedTo(L, p, take) :
                    /\ loc' = [L EXCEPT ![take] = m]
                    /\ CloseTrades(hit \cup HitByRemoval(L, take)
                                       \cup HitByAddition(L, m))
  BY DEF Exchange, q, give, take
<1> DEFINE L == [loc EXCEPT ![give] = l]
           hit == {p, q} \cup HitByRemoval(loc, give) \cup HitByAddition(loc, l)
<1>4. l \in Location /\ MayGo(loc, give, l)
  BY <1>2, MovedToMayGo
<1>5. hit \in SUBSET Player
  BY <1>2 DEF HitByRemoval, HitByAddition
<1>6. L \in [Item -> Location] /\ L = [loc EXCEPT ![give] = l]
  BY <1>1, <1>4
<1>7. HitByRemoval(loc, give) \cup HitByAddition(loc, l) \subseteq hit
  OBVIOUS
<1> HIDE DEF L, hit
<1>8. Acyclic(L)
  BY <1>1, <1>2, <1>4, <1>6, AcyclicMoved
<1>9. CASE MovedTo(L, p, take) = {}
  <2>1. loc' = L /\ ClearTrades(Ended(hit), {})
    BY <1>3, <1>9 DEF L, hit, CloseTrades
  <2> QED
    BY <1>2, <1>4, <1>5, <1>6, <1>7, <2>1, MoveKept
<1>10. CASE MovedTo(L, p, take) # {}
  <2>1. PICK m \in MovedTo(L, p, take) :
          /\ loc' = [L EXCEPT ![take] = m]
          /\ CloseTrades(hit \cup HitByRemoval(L, take) \cup HitByAddition(L, m))
    BY <1>3, <1>10 DEF L, hit
  <2> DEFINE S == hit \cup HitByRemoval(L, take) \cup HitByAddition(L, m)
  <2>2. S \in SUBSET Player
    BY <1>5 DEF HitByRemoval, HitByAddition
  <2>3. /\ HitByRemoval(loc, give) \cup HitByAddition(loc, l) \subseteq S
        /\ HitByRemoval(L, take) \cup HitByAddition(L, m) \subseteq S
    BY <1>7
  <2>4. ClearTrades(Ended(S), {})
    BY <2>1 DEF CloseTrades
  <2> HIDE DEF S
  <2>5. m \in Location /\ MayGo(L, take, m)
    BY <1>2, MovedToMayGo
  <2>6. Acyclic(loc')
    BY <1>2, <1>6, <1>8, <2>1, <2>5, AcyclicMoved
  <2>7. Ended(S) \in SUBSET Player /\ S \subseteq Ended(S)
    BY <1>1, <2>2, EndedClosed, EndedHas
  <2>8. ASSUME NEW r \in Player \ Ended(S), tradeItem[r] # NoItem
        PROVE  Same(loc, loc', tradeItem[r])
    <3>1. Same(loc, L, tradeItem[r])
      BY <1>1, <1>2, <1>6, <2>3, <2>7, <2>8, Spared
    <3>2. Same(L, loc', tradeItem[r])
      BY <1>1, <1>2, <1>6, <1>8, <2>1, <2>3, <2>7, <2>8, Spared
    <3> QED
      BY <3>1, <3>2 DEF Same
  <2> QED
    BY <1>2, <2>4, <2>6, <2>7, <2>8, Disturbing
<1> QED
  BY <1>9, <1>10

\* Who walks out of reach of the own offer or of the partner ends the trade
\* of both.
LEMMA WalkKept ==
  ASSUME Kept, NEW p \in Player, NEW l \in Place, Walk(p, l)
  PROVE  Acyclic(loc') /\ Frozen /\ OffersApart' /\ TradersInReach'
<1> USE DEF Kept, Inv
<1> DEFINE t == tradeItem[p]
           q == tradePartner[p]
           tooFar == \/ t # NoItem /\ ~Near(loc, pos', p, t)
                     \/ q # NoPlayer /\ ~InReach(pos', p, q)
           S == IF tooFar THEN {p} ELSE {}
           C == Ended(S)
<1>1. ClearTrades(C, {}) /\ loc' = loc /\ pos' = [pos EXCEPT ![p] = l]
  BY DEF Walk, CloseTrades
<1>2. C \in SUBSET Player /\ S \subseteq C
  BY EndedClosed, EndedHas
<1>3. \A r \in C : tradePartner[r] \in C \cup {NoPlayer}
  BY EndedClosed
<1>4. p \notin C => ~tooFar
  BY <1>2
<1> HIDE DEF C, S
<1>5. Acyclic(loc') /\ Frozen /\ OffersApart'
  BY <1>1, <1>2, StillKept
<1>6. ASSUME NEW r \in Player
      PROVE  /\ tradePartner'[r] # NoPlayer => InReach(pos', r, tradePartner'[r])
             /\ tradeItem'[r] # NoItem => Near(loc', pos', r, tradeItem'[r])
  <2>1. CASE r \in C
    BY <1>1, <2>1 DEF ClearTrades, TypeOK
  <2>2. CASE r \notin C
    <3>1. tradePartner'[r] = tradePartner[r] /\ tradeItem'[r] = tradeItem[r]
      BY <1>1, <2>2 DEF ClearTrades, TypeOK
    <3>2. CASE r = p
      BY <1>1, <1>4, <2>2, <3>1, <3>2
    <3>3. CASE r # p /\ tradePartner[r] # p
      <4>1. pos'[r] = pos[r]
        BY <1>1, <3>3 DEF TypeOK
      <4>2. tradePartner[r] # NoPlayer => pos'[tradePartner[r]] = pos[tradePartner[r]]
        BY <1>1, <3>3 DEF TypeOK
      <4> QED
        BY <1>1, <3>1, <4>1, <4>2 DEF TradersInReach, InReach, Near
    <3>4. CASE r # p /\ tradePartner[r] = p
      <4>1. pos'[r] = pos[r] /\ r = q /\ q # NoPlayer
        BY <1>1, <3>4, TradeAssumption DEF TypeOK, PartnersAgree
      <4>2. p \notin C
        BY <1>3, <2>2, <3>4, <4>1
      <4>3. InReach(pos', p, r)
        BY <1>4, <4>1, <4>2
      <4>4. pos'[p] \in Int /\ pos'[r] \in Int
        BY <1>1, <4>1, TradeAssumption DEF TypeOK
      <4>5. InReach(pos', r, p)
        BY <4>3, <4>4 DEF InReach
      <4>6. tradeItem[r] # NoItem => Near(loc', pos', r, tradeItem[r])
        BY <1>1, <4>1 DEF TradersInReach, Near
      <4> QED
        BY <3>1, <3>4, <4>5, <4>6
    <3> QED
      BY <3>2, <3>3, <3>4
  <2> QED
    BY <2>1, <2>2
<1> QED
  BY <1>5, <1>6 DEF TradersInReach

\* A new offer lies neither in another one nor around it, near who makes it.
LEMMA RequestKept ==
  ASSUME Kept, NEW p \in Player, NEW q \in Player, NEW k \in Item, RequestTrade(p, q, k)
  PROVE  Acyclic(loc') /\ Frozen /\ OffersApart' /\ TradersInReach'
<1> USE DEF Kept, Inv
<1>1. /\ p # q /\ InReach(pos, p, q) /\ Near(loc, pos, p, k) /\ NotOffered(k)
      /\ StartTrade(p, q, k) /\ MayTrade(p, q) /\ loc' = loc /\ pos' = pos
  BY DEF RequestTrade, StartTrade, wVars
<1>2. Frozen
  BY <1>1 DEF Frozen
<1>3. OffersApart'
  <2> SUFFICES ASSUME NEW i \in Item, NEW j \in Item,
                      tradeItems'[i] # NoPlayer, tradeItems'[j] # NoPlayer
               PROVE  i \notin Holders(loc, j)
    BY <1>1 DEF OffersApart
  <2>1. \A x \in Item \ {k} : tradeItems'[x] = tradeItems[x]
    BY <1>1 DEF StartTrade, TypeOK
  <2>2. CASE i = k /\ j = k
    BY <2>2 DEF Acyclic
  <2>3. CASE i # k /\ j # k
    BY <2>1, <2>3 DEF OffersApart
  <2>4. CASE (i = k /\ j # k) \/ (i # k /\ j = k)
    BY <1>1, <2>1, <2>4 DEF NotOffered
  <2> QED
    BY <2>2, <2>3, <2>4
<1>4. InReach(pos, q, p)
  <2>1. pos[p] \in Int /\ pos[q] \in Int
    BY TradeAssumption DEF TypeOK
  <2> QED
    BY <1>1, <2>1 DEF InReach
<1>5. ASSUME NEW r \in Player
      PROVE  /\ tradePartner'[r] # NoPlayer => InReach(pos, r, tradePartner'[r])
             /\ tradeItem'[r] # NoItem => Near(loc, pos, r, tradeItem'[r])
  <2>1. tradeItem' = [tradeItem EXCEPT ![p] = k]
        /\ tradePartner' = [tradePartner EXCEPT ![p] = q,
                              ![q] = IF tradeState[q] = "NONE" THEN p ELSE @]
    BY <1>1 DEF StartTrade
  <2>2. tradePartner'[p] = q /\ tradePartner'[q] = p
    BY <1>1, <2>1 DEF TypeOK, MayTrade
  <2>3. r \notin {p, q} => tradePartner'[r] = tradePartner[r]
    BY <2>1 DEF TypeOK
  <2>4. tradeItem'[r] = IF r = p THEN k ELSE tradeItem[r]
    BY <2>1 DEF TypeOK
  <2>5. tradePartner'[r] # NoPlayer => InReach(pos, r, tradePartner'[r])
    BY <1>1, <1>4, <2>2, <2>3 DEF TradersInReach
  <2>6. tradeItem'[r] # NoItem => Near(loc, pos, r, tradeItem'[r])
    BY <1>1, <2>4 DEF TradersInReach
  <2> QED
    BY <2>5, <2>6
<1>6. TradersInReach'
  BY <1>1, <1>5 DEF TradersInReach
<1> QED
  BY <1>1, <1>2, <1>3, <1>6

\* At the start nothing is on offer, and no item lies in itself.
LEMMA InitKept == Init => Kept
<1>1. Init => Acyclic(loc)
  BY LayoutsAssumption DEF Init, Acyclic
<1>2. Init => OffersApart
  BY DEF Init, OffersApart
<1>3. Init => TradersInReach
  BY DEF Init, TradersInReach
<1> QED
  BY <1>1, <1>2, <1>3, InitInv DEF Kept

\* Every step keeps the invariant and leaves the standing offers as they are.
LEMMA StepKept == Kept /\ [Next]_vars => Kept' /\ [Frozen]_vars
<1> SUFFICES ASSUME Kept, [Next]_vars PROVE Kept' /\ [Frozen]_vars
  OBVIOUS
<1>1. Inv'
  BY StepInv DEF Kept
<1> DEFINE Good == Acyclic(loc') /\ Frozen /\ OffersApart' /\ TradersInReach'
<1>2. ASSUME NEW p \in Player, CloseTrade(p) \/ ExchangeRefused(p) PROVE Good
  <2>1. ClearTrades(Ended({p}), {}) /\ loc' = loc /\ pos' = pos
    BY <1>2 DEF CloseTrade, ExchangeRefused, CloseTrades, wVars
  <2>2. Ended({p}) \in SUBSET Player
    BY EndedClosed DEF Kept
  <2> QED
    BY <2>1, <2>2, StillKept
<1>3. ASSUME NEW p \in Player, Logout(p) PROVE Good
  <2> DEFINE S == IF tradePartner[p] # NoPlayer THEN {p} ELSE {}
  <2>1. ClearTrades(Ended(S), {}) /\ loc' = loc /\ pos' = pos
    BY <1>3 DEF Logout, CloseTrades
  <2>2. Ended(S) \in SUBSET Player
    BY EndedClosed DEF Kept
  <2> QED
    BY <2>1, <2>2, StillKept
<1>4. ASSUME NEW i \in Item, UpdateItem(i) PROVE Good
  <2>1. ClearTrades(Ended(HitByUpdate(loc, i)), {}) /\ loc' = loc /\ pos' = pos
    BY <1>4 DEF UpdateItem, CloseTrades, wVars
  <2>2. HitByUpdate(loc, i) \in SUBSET Player
    BY DEF HitByUpdate
  <2>3. Ended(HitByUpdate(loc, i)) \in SUBSET Player
    BY <2>2, EndedClosed DEF Kept
  <2> QED
    BY <2>1, <2>3, StillKept
<1>5. ASSUME NEW p \in Player, AcceptFirst(p) PROVE Good
  BY <1>5 DEF AcceptFirst, wVars, Kept, Acyclic, Frozen, OffersApart, TradersInReach
<1>6. ASSUME Cleanup PROVE Good
  BY <1>6 DEF Cleanup, wVars, Kept, Acyclic, Frozen, OffersApart, TradersInReach
<1>7. ASSUME NEW p \in Player, TradeStep(p) PROVE Good
  BY <1>2, <1>5, <1>7, RequestKept, ExchangeKept DEF TradeStep
<1>8. ASSUME WorldStep PROVE Good
  BY <1>3, <1>4, <1>6, <1>8, WalkKept, MoveItemKept, RemoveItemKept DEF WorldStep
<1>9. CASE UNCHANGED vars
  BY <1>1, <1>9 DEF vars, tVars, wVars, Kept, Acyclic, OffersApart, TradersInReach
<1> QED
  BY <1>1, <1>7, <1>8, <1>9 DEF Next, Kept

\* The stronger invariant holds in every state.
LEMMA KeptInvariance == Spec => []Kept
BY InitKept, StepKept, PTL DEF Spec

\* No offer lies in another, neither when it is made nor after anybody has
\* moved things about: no item is sold with two trades.
THEOREM OffersAlwaysApart == Spec => []OffersApart
BY KeptInvariance, PTL DEF Kept

\* Partners stay near each other and near what they offer, wherever they walk
\* and whoever carries the items away.
THEOREM TradersAlwaysInReach == Spec => []TradersInReach
BY KeptInvariance, PTL DEF Kept

\* Nobody alters an offer under a running trade: the notifications sent for
\* every removal and addition, in bags in bags, and for both moves of an
\* exchange, find each trade they concern.
THEOREM OffersAlwaysFrozen == Spec => OfferFrozen
<1>1. Kept /\ [Next]_vars => [\A p \in Player : LET t == tradeItem[p] IN
         t # NoItem /\ tradeItem'[p] = t
           => /\ loc'[t] = loc[t]
              /\ Root(loc', t) = Root(loc, t)
              /\ Contents(loc', t) = Contents(loc, t)]_vars
  BY StepKept DEF Frozen
<1> QED
  BY <1>1, KeptInvariance, PTL DEF Spec, OfferFrozen

-----------------------------------------------------------------------------
(* Complete exchanges *)

\* No bag holds more than it may.
Fits(L) == \A b \in Bag : Cardinality({i \in Item : L[i] = b}) <= BagSize

\* A bag in which nothing came to lie has room still.
LEMMA RoomLeft ==
  ASSUME NEW L, NEW M, NEW b, \A i \in Item : M[i] = b => L[i] = b
  PROVE  /\ Cardinality({i \in Item : M[i] = b}) <= Cardinality({i \in Item : L[i] = b})
         /\ Room(L, b) => Room(M, b)
<1> DEFINE S == {i \in Item : L[i] = b}
           T == {i \in Item : M[i] = b}
<1>1. S \subseteq Item /\ T \subseteq S
  OBVIOUS
<1> HIDE DEF S, T
<1>2. IsFiniteSet(S)
  BY <1>1, TradeAssumption, FS_Subset
<1>3. IsFiniteSet(T) /\ Cardinality(T) <= Cardinality(S)
  BY <1>1, <1>2, FS_Subset
<1>4. Cardinality(S) \in Nat /\ Cardinality(T) \in Nat /\ BagSize \in Nat
  BY <1>2, <1>3, FS_CardinalityType, TradeAssumption
<1>5. Room(L, b) => Room(M, b)
  BY <1>3, <1>4 DEF Room, S, T
<1> QED
  BY <1>3, <1>5 DEF S, T

\* What is taken from a bag leaves room for one.
LEMMA RoomMade ==
  ASSUME NEW L \in [Item -> Location], Fits(L), NEW i \in Item, L[i] \in Bag,
         NEW l, l # L[i], NEW M, M = [L EXCEPT ![i] = l]
  PROVE  Room(M, L[i])
<1> DEFINE b == L[i]
           S == {j \in Item : L[j] = b}
           T == {j \in Item : M[j] = b}
<1>1. S \subseteq Item /\ i \in S /\ T = S \ {i}
  OBVIOUS
<1>2. Cardinality(S) <= BagSize
  BY DEF Fits
<1> HIDE DEF S, T
<1>3. IsFiniteSet(S)
  BY <1>1, TradeAssumption, FS_Subset
<1>4. Cardinality(T) = Cardinality(S) - 1
  BY <1>1, <1>3, FS_RemoveElement
<1>5. Cardinality(S) \in Nat /\ BagSize \in Nat
  BY <1>3, FS_CardinalityType, TradeAssumption
<1> QED
  BY <1>2, <1>4, <1>5 DEF Room, T

\* A move to where there is room overfills no bag.
LEMMA FitsMoved ==
  ASSUME NEW L \in [Item -> Location], Fits(L), NEW i \in Item, NEW l,
         l \in Bag => Room(L, l), NEW M, M = [L EXCEPT ![i] = l]
  PROVE  Fits(M)
<1> SUFFICES ASSUME NEW b \in Bag
             PROVE  Cardinality({j \in Item : M[j] = b}) <= BagSize
  BY DEF Fits
<1> DEFINE S == {j \in Item : L[j] = b}
           T == {j \in Item : M[j] = b}
<1>1. S \subseteq Item /\ T \subseteq S \cup {i} /\ Cardinality(S) <= BagSize
  BY DEF Fits
<1>2. b # l => T \subseteq S
  OBVIOUS
<1>3. b = l => Cardinality(S) < BagSize
  BY DEF Room
<1> HIDE DEF S, T
<1>4. IsFiniteSet(S) /\ IsFiniteSet(S \cup {i})
  BY <1>1, TradeAssumption, FS_Subset, FS_AddElement
<1>5. Cardinality(S \cup {i}) <= Cardinality(S) + 1 /\ Cardinality(S \cup {i}) \in Nat
  <2>1. Cardinality(S \cup {i}) \in {Cardinality(S), Cardinality(S) + 1}
    BY <1>4, FS_AddElement
  <2>2. Cardinality(S) \in Nat
    BY <1>4, FS_CardinalityType
  <2> QED
    BY <2>1, <2>2
<1>6. Cardinality(S) \in Nat /\ BagSize \in Nat
  BY <1>4, FS_CardinalityType, TradeAssumption
<1>7. CASE b = l
  <2>1. IsFiniteSet(T) /\ Cardinality(T) <= Cardinality(S \cup {i})
    BY <1>1, <1>4, FS_Subset
  <2>2. Cardinality(T) \in Nat
    BY <2>1, FS_CardinalityType
  <2> QED
    BY <1>3, <1>5, <1>6, <1>7, <2>1, <2>2 DEF T
<1>8. CASE b # l
  <2>1. IsFiniteSet(T) /\ Cardinality(T) <= Cardinality(S)
    BY <1>2, <1>4, <1>8, FS_Subset
  <2>2. Cardinality(T) \in Nat
    BY <2>1, FS_CardinalityType
  <2> QED
    BY <1>1, <1>6, <2>1, <2>2 DEF T
<1> QED
  BY <1>7, <1>8

\* internalMoveItem puts an item into a bag only where there is room.
LEMMA MovedToRoom ==
  ASSUME NEW L, NEW p \in Player, NEW i \in Item, NEW l \in MovedTo(L, p, i)
  PROVE  l \in Bag => Room(L, l)
<1>1. p \notin Bag /\ Lost \notin Bag
  BY TradeAssumption
<1> QED
  BY <1>1 DEF MovedTo, Destinations

\* No step overfills a bag.
LEMMA NextFits == Kept /\ Fits(loc) /\ [Next]_vars => Fits(loc)'
<1> SUFFICES ASSUME Kept, Fits(loc), [Next]_vars PROVE Fits(loc')
  BY DEF Fits
<1>1. TypeOK /\ Inv /\ loc \in [Item -> Location] /\ Gone \notin Bag
  BY TradeAssumption DEF Kept, Inv, TypeOK
<1>2. ASSUME NEW p \in Player, Exchange(p) PROVE Fits(loc')
  <2> DEFINE q == tradePartner[p]
             give == tradeItem[p]
             take == tradeItem[q]
  <2>1. q \in Player /\ give \in Item /\ take \in Item
    BY <1>1, <1>2, TradeAssumption DEF Inv, PartnersAgree, TypeOK, Exchange, BothAccept,
         CanAccept, AddTest
  <2> HIDE DEF q, give, take
  <2>2. PICK l \in MovedTo(loc, q, give) :
          LET L == [loc EXCEPT ![give] = l] IN
            loc' = L \/ \E m \in MovedTo(L, p, take) : loc' = [L EXCEPT ![take] = m]
    BY <1>2 DEF Exchange, q, give, take
  <2> DEFINE L == [loc EXCEPT ![give] = l]
  <2>3. l \in Location /\ (l \in Bag => Room(loc, l))
    BY <2>1, MovedToMayGo, MovedToRoom
  <2>4. L \in [Item -> Location] /\ Fits(L)
    BY <1>1, <2>1, <2>3, FitsMoved
  <2>5. loc' = L \/ \E m \in MovedTo(L, p, take) : loc' = [L EXCEPT ![take] = m]
    BY <2>2
  <2> HIDE DEF L
  <2> QED
    BY <2>1, <2>4, <2>5, FitsMoved, MovedToRoom
<1>3. ASSUME NEW p \in Player, NEW i \in Item, NEW l \in Location, MoveItem(p, i, l)
      PROVE  Fits(loc')
  <2>1. loc' = [loc EXCEPT ![i] = l] /\ (l \in Bag => Room(loc, l))
    BY <1>3, TradeAssumption DEF MoveItem
  <2> QED
    BY <1>1, <2>1, FitsMoved
<1>4. ASSUME NEW i \in Item, RemoveItem(i) PROVE Fits(loc')
  <2>1. loc' = [loc EXCEPT ![i] = Gone]
    BY <1>4 DEF RemoveItem
  <2> QED
    BY <1>1, <2>1, FitsMoved
<1>5. ASSUME loc' = loc PROVE Fits(loc')
  BY <1>5
<1>6. ASSUME NEW p \in Player, TradeStep(p) PROVE Fits(loc')
  BY <1>2, <1>5, <1>6 DEF TradeStep, RequestTrade, AcceptFirst, ExchangeRefused, CloseTrade, wVars
<1>7. ASSUME WorldStep PROVE Fits(loc')
  BY <1>3, <1>4, <1>5, <1>7 DEF WorldStep, Walk, Logout, UpdateItem, Cleanup, wVars
<1>8. CASE UNCHANGED vars
  BY <1>5, <1>8 DEF vars, wVars
<1> QED
  BY <1>6, <1>7, <1>8 DEF Next

\* What has a place other than a bag is the root of all it holds.
LEMMA RootIs ==
  ASSUME NEW L \in [Item -> Location], NEW i \in Item, NEW x \in {i} \cup Holders(L, i),
         L[x] \notin Bag
  PROVE  Root(L, i) = L[x]
<1>1. ASSUME NEW y \in {i} \cup Holders(L, i), L[y] \notin Bag PROVE y = x
  <2>1. x \in Item /\ y \in Item
    BY HoldersTransitive
  <2>2. Holders(L, x) = {} /\ Holders(L, y) = {}
    BY <1>1, <2>1, HoldersStep
  <2>3. CASE x = i \/ y = i
    BY <1>1, <2>2, <2>3
  <2>4. CASE x \in Holders(L, i) /\ y \in Holders(L, i)
    BY <2>2, <2>4, HoldersLinear
  <2> QED
    BY <1>1, <2>3, <2>4
<1> DEFINE P == {L[j] : j \in {i} \cup Holders(L, i)}
<1>2. L[x] \in P /\ \A l \in P : l \notin Bag => l = L[x]
  BY <1>1
<1> HIDE DEF P
<1>3. (CHOOSE l \in P : l \notin Bag) = L[x]
  BY <1>2
<1> QED
  BY <1>3 DEF Root, P

\* A destination is a slot, or a bag with room in a bag the player wears.
LEMMA DestinationIs ==
  ASSUME NEW L, NEW p \in Player, NEW i \in Item
  PROVE  /\ SlotFree(L, p, i) => Destinations(L, p, i) = {p}
         /\ ~SlotFree(L, p, i) =>
              \A m : m \in Destinations(L, p, i) <=>
                /\ m \in Bag /\ m # i /\ i \notin Holders(L, m) /\ Room(L, m)
                /\ \E x \in Bag : /\ L[x] = p /\ x # tradeItem[p] /\ x # i
                                  /\ x \in {m} \cup Holders(L, m)
BY DEF Destinations

\* The latter, for one bag.
LEMMA BagDestination ==
  ASSUME NEW L, NEW p \in Player, NEW i \in Item, ~SlotFree(L, p, i),
         NEW b \in Bag, b # i, i \notin Holders(L, b), Room(L, b),
         NEW x \in Bag, L[x] = p, x # tradeItem[p], x # i, x \in {b} \cup Holders(L, b)
  PROVE  b \in Destinations(L, p, i)
BY DestinationIs

\* An item that was put where it may go is with the player.
LEMMA Arrives ==
  ASSUME NEW L \in [Item -> Location], NEW p \in Player, NEW i \in Item,
         NEW m \in Destinations(L, p, i), NEW M, M = [L EXCEPT ![i] = m]
  PROVE  /\ Root(M, i) = p
         /\ Holders(M, i) = IF m \in Bag THEN {m} \cup Holders(L, m) ELSE {}
<1>1. p \notin Bag /\ p \in Location /\ Bag \subseteq Item /\ Bag \subseteq Location
  BY TradeAssumption DEF Location
<1>2. CASE SlotFree(L, p, i)
  <2>1. m = p /\ M[i] = p /\ M \in [Item -> Location]
    BY <1>1, <1>2, DestinationIs
  <2> QED
    BY <1>1, <2>1, RootIs, HoldersStep
<1>3. CASE ~SlotFree(L, p, i)
  <2>1. /\ m \in Bag /\ m # i /\ i \notin Holders(L, m)
        /\ \E x \in Bag : L[x] = p /\ x # i /\ x \in {m} \cup Holders(L, m)
    BY <1>3, DestinationIs
  <2>2. /\ M \in [Item -> Location] /\ M[i] = m
        /\ \A c \in Item \ {i} : M[c] = L[c]
    BY <1>1, <2>1
  <2>3. Holders(M, m) = Holders(L, m)
    <3>1. Holders(M, m) \subseteq Holders(L, m) /\ Holders(L, m) \subseteq Holders(M, m)
      BY <1>1, <2>1, <2>2, HoldersKept
    <3> QED
      BY <3>1
  <2>4. Holders(M, i) = {m} \cup Holders(L, m)
    BY <2>1, <2>2, <2>3, HoldersStep
  <2>5. PICK x \in Bag : L[x] = p /\ x # i /\ x \in {m} \cup Holders(L, m)
    BY <2>1
  <2>6. M[x] = p /\ x \in Holders(M, i)
    BY <1>1, <2>2, <2>4, <2>5
  <2> QED
    BY <1>1, <2>1, <2>2, <2>4, <2>6, RootIs
<1> QED
  BY <1>2, <1>3

\* Two players have no bag in common.
LEMMA BagsApart ==
  ASSUME NEW L \in [Item -> Location], NEW p \in Player, NEW q \in Player, p # q,
         NEW m \in Bag, NEW x \in {m} \cup Holders(L, m), L[x] = p,
         NEW n \in Bag, NEW y \in {n} \cup Holders(L, n), L[y] = q
  PROVE  m # n
<1>1. m \in Item /\ n \in Item /\ p \notin Bag /\ q \notin Bag
  BY TradeAssumption
<1>2. Root(L, m) = p /\ Root(L, n) = q
  BY <1>1, RootIs
<1> QED
  BY <1>2

\* The first move of an exchange takes the player no room: the bag with room
\* stays where it was, or was the offer or in it, and the offer has left room
\* in the bag around it.
LEMMA RoomStays ==
  ASSUME NEW p \in Player, NEW q \in Player, p # q, loc \in [Item -> Location], Fits(loc),
         Acyclic(loc), NEW give \in Item, NEW take \in Item, give = tradeItem[p],
         take \notin Holders(loc, give), take # give,
         Destinations(loc, p, take) # {},
         NEW l \in Destinations(loc, q, give), NEW L, L = [loc EXCEPT ![give] = l]
  PROVE  Destinations(L, p, take) # {}
<1>1. Bag \subseteq Item /\ p \notin Bag /\ q \notin Bag
  BY TradeAssumption
<1>2. /\ l = q \/ l \in Bag
      /\ l \in Bag => /\ l # give /\ give \notin Holders(loc, l)
                      /\ \E y \in Bag : loc[y] = q /\ y \in {l} \cup Holders(loc, l)
  BY <1>1, DestinationIs
<1>3. /\ L[give] = l /\ \A c \in Item \ {give} : L[c] = loc[c]
      /\ l # p
  BY <1>1, <1>2
<1>4. CASE SlotFree(L, p, take)
  <2>1. Destinations(L, p, take) = {p}
    BY <1>4, DestinationIs
  <2> QED
    BY <2>1
<1>5. CASE ~SlotFree(L, p, take)
  <2>1. ~SlotFree(loc, p, take)
    BY <1>1, <1>3, <1>5, TradeAssumption DEF SlotFree
  <2>2. PICK m \in Bag : /\ m # take /\ take \notin Holders(loc, m) /\ Room(loc, m)
                         /\ \E x \in Bag : /\ loc[x] = p /\ x # give /\ x # take
                                           /\ x \in {m} \cup Holders(loc, m)
    BY <2>1, DestinationIs
  <2>3. PICK x \in Bag : loc[x] = p /\ x # give /\ x # take /\ x \in {m} \cup Holders(loc, m)
    BY <2>2
  <2>4. L[x] = p /\ x \in Item /\ m \in Item
    BY <1>1, <1>3, <2>3
  \* any bag around which x lies, not in the offer, and with room in L, will do
  <2>5. ASSUME NEW b \in Bag, b # give, give \notin Holders(loc, b), b # take,
               take \notin Holders(loc, b), x \in {b} \cup Holders(loc, b), Room(L, b)
        PROVE  b \in Destinations(L, p, take)
    <3>1. Holders(L, b) = Holders(loc, b)
      <4>1. Holders(L, b) \subseteq Holders(loc, b) /\ Holders(loc, b) \subseteq Holders(L, b)
        BY <1>1, <1>3, <2>5, HoldersKept
      <4> QED
        BY <4>1
    <3>2. L[x] = p /\ x # tradeItem[p] /\ x # take /\ x \in {b} \cup Holders(L, b)
      BY <2>3, <2>4, <2>5, <3>1
    <3> QED
      BY <1>5, <2>5, <3>1, <3>2, BagDestination
  \* the first move ends in no bag around which x lies
  <2>6. ASSUME NEW b \in Bag, x \in {b} \cup Holders(loc, b) PROVE l # b
    BY <1>1, <1>2, <2>3, <2>6, BagsApart
  <2>7. CASE m # give /\ give \notin Holders(loc, m)
    <3>1. l # m
      BY <2>3, <2>6
    <3>2. \A i \in Item : L[i] = m => loc[i] = m
      BY <1>3, <3>1
    <3>3. Room(L, m)
      BY <2>2, <3>2, RoomLeft
    <3> QED
      BY <2>2, <2>3, <2>5, <2>7, <3>3
  <2>8. CASE m = give \/ give \in Holders(loc, m)
    <3>1. Holders(loc, x) = {}
      BY <1>1, <2>3, <2>4, HoldersStep
    <3>2. x \in Holders(loc, give)
      <4>1. CASE m = give
        BY <2>3, <4>1
      <4>2. CASE give \in Holders(loc, m) /\ x = m
        BY <3>1, <4>2
      <4>3. CASE give \in Holders(loc, m) /\ x \in Holders(loc, m)
        BY <2>3, <2>4, <3>1, <4>3, HoldersLinear
      <4> QED
        BY <2>3, <2>8, <4>1, <4>2, <4>3
    <3> DEFINE b == loc[give]
    <3>3. b \in Bag /\ Holders(loc, give) = {b} \cup Holders(loc, b)
      BY <3>2, HoldersStep
    <3>4. b # give /\ give \notin Holders(loc, b) /\ b # take /\ take \notin Holders(loc, b)
      BY <3>3 DEF Acyclic
    <3>5. x \in {b} \cup Holders(loc, b)
      BY <3>2, <3>3
    <3>6. Room(L, b)
      BY <2>6, <3>3, <3>5, RoomMade
    <3> HIDE DEF b
    <3> QED
      BY <2>5, <3>3, <3>4, <3>5, <3>6
  <2> QED
    BY <2>7, <2>8
<1> QED
  BY <1>4, <1>5

\* An exchange for which both traders have room.
LEMMA ExchangeSwaps ==
  ASSUME Kept, Fits(loc), NEW p \in Player, Exchange(p),
         Destinations(loc, p, tradeItem[tradePartner[p]]) # {},
         Destinations(loc, tradePartner[p], tradeItem[p]) # {}
  PROVE  Swapped(p)
<1> DEFINE q == tradePartner[p]
           give == tradeItem[p]
           take == tradeItem[q]
<1>1. TypeOK /\ Inv /\ loc \in [Item -> Location] /\ Acyclic(loc)
  BY DEF Kept, Inv, TypeOK
<1>2. q \in Player /\ q # p /\ give \in Item /\ take \in Item
  BY <1>1, TradeAssumption DEF Inv, PartnersAgree, TypeOK, Exchange, BothAccept,
       CanAccept, AddTest
<1>3. take # give /\ take \notin Holders(loc, give)
  <2>1. tradeItems[give] = p /\ tradeItems[take] = q
    BY <1>1, <1>2, TradeAssumption DEF Inv, OffersRegistered
  <2> QED
    BY <1>2, <2>1, TradeAssumption DEF Kept, OffersApart
<1>4. Destinations(loc, p, take) # {} /\ Destinations(loc, q, give) # {}
  OBVIOUS
<1>5. Swapped(p) <=> Root(loc', give) = q /\ Root(loc', take) = p
  BY DEF Swapped
<1>6. \E l \in MovedTo(loc, q, give) :
        LET L == [loc EXCEPT ![give] = l] IN
          /\ Allowed(loc, l, take)
          /\ IF MovedTo(L, p, take) = {} THEN TRUE
             ELSE \E m \in MovedTo(L, p, take) : loc' = [L EXCEPT ![take] = m]
  BY DEF Exchange
<1>7. give = tradeItem[p]
  OBVIOUS
<1> HIDE DEF q, give, take
<1>8. MovedTo(loc, q, give) = Destinations(loc, q, give)
  BY <1>4 DEF MovedTo
<1>9. PICK l \in Destinations(loc, q, give) :
        LET L == [loc EXCEPT ![give] = l] IN
          /\ Allowed(loc, l, take)
          /\ IF MovedTo(L, p, take) = {} THEN TRUE
             ELSE \E m \in MovedTo(L, p, take) : loc' = [L EXCEPT ![take] = m]
  BY <1>6, <1>8
<1> DEFINE L == [loc EXCEPT ![give] = l]
<1>10. Destinations(L, p, take) # {}
  BY <1>1, <1>2, <1>3, <1>4, <1>7, RoomStays
<1>11. l \in Location /\ L \in [Item -> Location]
  BY <1>1, <1>2, <1>8, MovedToMayGo
<1>12. Root(L, give) = q /\ Holders(L, give) = IF l \in Bag THEN {l} \cup Holders(loc, l) ELSE {}
  BY <1>1, <1>2, Arrives
<1>13. take \notin Holders(L, give)
  BY <1>9, <1>12 DEF Allowed
<1>14. IF MovedTo(L, p, take) = {} THEN TRUE
       ELSE \E m \in MovedTo(L, p, take) : loc' = [L EXCEPT ![take] = m]
  BY <1>9
<1> HIDE DEF L
<1>15. MovedTo(L, p, take) = Destinations(L, p, take)
  BY <1>10 DEF MovedTo
<1>16. PICK m \in Destinations(L, p, take) : loc' = [L EXCEPT ![take] = m]
  BY <1>10, <1>14, <1>15
<1>17. /\ Root(loc', take) = p
       /\ Holders(loc', take) = IF m \in Bag THEN {m} \cup Holders(L, m) ELSE {}
  <2>1. /\ Root([L EXCEPT ![take] = m], take) = p
        /\ Holders([L EXCEPT ![take] = m], take) = IF m \in Bag THEN {m} \cup Holders(L, m) ELSE {}
    BY <1>2, <1>11, <1>16, Arrives
  <2> QED
    BY <1>16, <2>1
<1>18. Root(loc', give) = Root(L, give)
  <2>1. \A c \in Item \ {take} : loc'[c] = L[c]
    BY <1>11, <1>16
  <2>2. Holders(loc', give) = Holders(L, give)
    <3>1. Holders(loc', give) \subseteq Holders(L, give) /\ Holders(L, give) \subseteq Holders(loc', give)
      BY <1>2, <1>3, <1>13, <2>1, HoldersKept
    <3> QED
      BY <3>1
  <2>3. \A c \in {give} \cup Holders(L, give) : loc'[c] = L[c]
    BY <1>2, <1>3, <1>13, <2>1, HoldersTransitive
  <2>4. {loc'[c] : c \in {give} \cup Holders(loc', give)} = {L[c] : c \in {give} \cup Holders(L, give)}
    BY <2>2, <2>3
  <2> QED
    BY <2>4 DEF Root
<1> QED
  BY <1>5, <1>12, <1>17, <1>18

\* An exchange moves both items, whatever bags they are and lie in, where the
\* traders have room for them outside of their own offers: the first item is
\* kept out of the offer it is exchanged for, and room that lies in the offer
\* given away is made good by the place it leaves.
THEOREM RoomAlwaysSwaps == Spec => RoomMeansSwap
<1>1. Init => Fits(loc)
  BY LayoutsAssumption DEF Init, Fits
<1>2. Kept /\ Fits(loc) /\ [Next]_vars =>
        [\A p \in Player : LET q == tradePartner[p] IN
           /\ Exchange(p)
           /\ Destinations(loc, p, tradeItem[q]) # {}
           /\ Destinations(loc, q, tradeItem[p]) # {}
           => Swapped(p)]_vars
  BY ExchangeSwaps
<1> QED
  BY <1>1, <1>2, NextFits, InitKept, StepKept, PTL DEF Spec, RoomMeansSwap
=============================================================================
