-------------------------------- MODULE Trade --------------------------------
(***************************************************************************)
(* Trades between players (src/src/game.cpp, playerRequestTrade to         *)
(* internalCloseTrade) together with what may happen to the two offered    *)
(* items meanwhile: they lie in inventories, bags or on the ground, other  *)
(* players can reach them, they decay, the traders walk away or log out.   *)
(*                                                                         *)
(* Every handler runs to completion on the dispatcher thread, so a handler *)
(* is one step.  TRADE_TRANSFER exists only inside playerAcceptTrade.      *)
(* Items are not stackable and an item fits at most one kind of slot.      *)
(***************************************************************************)
EXTENDS Integers, FiniteSets

CONSTANTS
  Player, Item,
  Bag,       \* the items that are containers; they fit the backpack slot
  Gear,      \* the other items that fit a slot, the same for all of them
  Place,     \* positions on the ground, along a line
  NoPlayer, NoItem,
  Gone,      \* where an item is that was removed from the world
  Lost,      \* an item without parent that nobody has released
  BagSize,   \* Container::capacity
  Capacity,  \* how many items a player can carry
  MaxTraded, \* the limit on the number of items in one offer
  RefBound,  \* bound on a reference counter
  Layouts    \* where the items may lie at the start

ASSUME TradeAssumption ==
  /\ IsFiniteSet(Item)
  /\ Bag \subseteq Item /\ Gear \subseteq Item \ Bag
  /\ Bag \cap (Player \cup Place) = {}
  /\ NoPlayer \notin Player /\ NoItem \notin Item
  /\ Gone # Lost /\ {Gone, Lost} \cap (Player \cup Bag \cup Place) = {}
  /\ Place \subseteq Int
  /\ BagSize \in Nat /\ Capacity \in Nat /\ MaxTraded \in Nat /\ RefBound \in Nat
  /\ Layouts \subseteq [Item -> Player \cup Bag \cup Place]

VARIABLES
  online,       \* the players in the world
  tradeState,   \* Player::tradeState
  tradePartner, \* Player::tradePartner
  tradeItem,    \* Player::tradeItem
  tradeItems,   \* Game::tradeItems, NoPlayer where an item has no entry
  refs,         \* Item::referenceCounter
  released,     \* how often an item occurs in Game::ToReleaseItems
  loc,          \* the parent of an item: a slot of a player, a bag, a place
  pos           \* where a player stands

tVars == <<tradeState, tradePartner, tradeItem, tradeItems, refs, released>>
wVars == <<online, loc, pos>>
vars == <<tVars, wVars>>

State == {"NONE", "INITIATED", "ACKNOWLEDGE", "ACCEPT"}
Location == Player \cup Bag \cup Place \cup {Gone, Lost}

TypeOK ==
  /\ online \in SUBSET Player
  /\ tradeState \in [Player -> State]
  /\ tradePartner \in [Player -> Player \cup {NoPlayer}]
  /\ tradeItem \in [Player -> Item \cup {NoItem}]
  /\ tradeItems \in [Item -> Player \cup {NoPlayer}]
  /\ refs \in [Item -> Nat]
  /\ released \in [Item -> Nat]
  /\ loc \in [Item -> Location]
  /\ pos \in [Player -> Place]

-----------------------------------------------------------------------------
(* Containers and inventories, in a layout L that gives every item its parent *)

\* The bags around item i, from its parent outwards: Container::isHoldingItem
\* read from the inside.
Holders(L, i) ==
  {b \in Bag : \A S \in SUBSET Bag :
     /\ L[i] \in Bag => L[i] \in S
     /\ \A c \in S : L[c] \in Bag => L[c] \in S
     => b \in S}

\* No item lies in itself at the start, and no bag holds more than it may.
ASSUME LayoutsAssumption ==
  \A L \in Layouts : /\ \A i \in Item : i \notin Holders(L, i)
                     /\ \A b \in Bag : Cardinality({i \in Item : L[i] = b}) <= BagSize

Contents(L, b) == {i \in Item : b \in Holders(L, i)}

\* What is at the end of the chain of parents.
Root(L, i) == CHOOSE l \in {L[j] : j \in {i} \cup Holders(L, i)} : l \notin Bag

Carried(L, p) == {i \in Item : Root(L, i) = p}

\* Position::areInRange<1, 1> of a player, with positions P, and an item.
Near(L, P, p, i) ==
  LET r == Root(L, i) IN r = p \/ (r \in Place /\ r - P[p] \in -1..1)

\* Position::areInRange<2, 2, 0> of two players.
InReach(P, p, q) == P[p] - P[q] \in -2..2

Room(L, b) == Cardinality({i \in Item : L[i] = b}) < BagSize

\* Player::queryAdd on the slot for item i.
SlotFree(L, p, i) ==
  \/ i \in Bag /\ \A b \in Bag : L[b] # p
  \/ i \in Gear /\ \A g \in Gear : L[g] # p

\* Player::hasCapacity.
CanCarry(L, p, i) ==
  \/ Root(L, i) = p
  \/ Cardinality(Carried(L, p)) + Cardinality(Contents(L, i)) + 1 <= Capacity

\* Player::queryDestination: a free slot, or else a bag with room.  The bag
\* in the slot is left out when it is the player's own offer; a nested bag
\* that is the offer is not.
Destinations(L, p, i) ==
  IF SlotFree(L, p, i) THEN {p}
  ELSE LET top == {b \in Bag : L[b] = p} \ {tradeItem[p], i}
       IN {b \in Bag : /\ b \in top \/ Holders(L, b) \cap top # {}
                       /\ b # i /\ i \notin Holders(L, b)
                       /\ Room(L, b)}

\* Player::queryMaxCount counts the room in every bag, offered or not.
RoomCounted(L, p) == \E b \in Bag : Root(L, b) = p /\ Room(L, b)

-----------------------------------------------------------------------------
(* Ending trades *)

\* Mutant: the partner's side is forgotten.
OneSidedEnded(S) == S

\* internalCloseTrade of every player of S, and with it of the partner.
Ended(S) == (S \cup {tradePartner[p] : p \in S}) \ {NoPlayer}

\* Mutant: only the pointers of the players are reset.
NothingWithdrawn(C) == {}

\* The entries of tradeItems erased with the trades of the players of C.
Withdrawn(C) == {i \in Item : tradeItems[i] # NoPlayer
                                /\ \E p \in C : tradeItem[p] = i}

\* freed are items handed to ReleaseItem besides.
ClearTrades(C, freed) ==
  /\ tradeState' = [p \in Player |-> IF p \in C THEN "NONE" ELSE tradeState[p]]
  /\ tradePartner' = [p \in Player |-> IF p \in C THEN NoPlayer ELSE tradePartner[p]]
  /\ tradeItem' = [p \in Player |-> IF p \in C THEN NoItem ELSE tradeItem[p]]
  /\ tradeItems' = [i \in Item |-> IF i \in Withdrawn(C) THEN NoPlayer ELSE tradeItems[i]]
  /\ released' = [i \in Item |-> released[i] + (IF i \in Withdrawn(C) THEN 1 ELSE 0)
                                             + (IF i \in freed THEN 1 ELSE 0)]
  /\ UNCHANGED refs

CloseTrades(S) == ClearTrades(Ended(S), {})

\* onRemoveTileItem, onRemoveInventoryItem and onRemoveContainerItem: whose
\* offer is the item taken away, or holds it, or lies in it; when it is taken
\* from a bag, whose offer lies deeper in that bag.
HitByRemoval(L, i) ==
  {p \in Player : LET t == tradeItem[p] IN
     /\ t # NoItem
     /\ \/ t = i \/ t \in Holders(L, i)
        \/ IF L[i] \in Bag THEN L[t] # L[i] /\ L[i] \in Holders(L, t)
                           ELSE i \in Holders(L, t)}

\* Mutant: additions to a container are not reported.
UnreportedAddition(L, l) == {}

\* onAddContainerItem: whose offer is the bag l, or a bag around it.
HitByAddition(L, l) ==
  {p \in Player : l \in Bag /\ tradeItem[p] \in {l} \cup Holders(L, l)}

\* onUpdateContainerItem and its kin: whose offer is the item or around it.
HitByUpdate(L, i) == {p \in Player : tradeItem[p] \in {i} \cup Holders(L, i)}

-----------------------------------------------------------------------------
(* Making an offer *)

\* Mutant: the offers inside a container are not looked for.
ShallowNotOffered(i) ==
  \A j \in Item : tradeItems[j] # NoPlayer => i # j /\ j \notin Holders(loc, i)

\* No offer is the item, in it or around it.
NotOffered(i) ==
  \A j \in Item : tradeItems[j] # NoPlayer =>
     i # j /\ i \notin Holders(loc, j) /\ j \notin Holders(loc, i)

\* YOUAREALREADYTRADING and THISPLAYERISALREADYTRADING: who has been asked
\* may only make the counter-offer.
MayTrade(p, q) ==
  /\ \/ tradeState[p] = "NONE"
     \/ tradeState[p] = "ACKNOWLEDGE" /\ tradePartner[p] = q
  /\ tradeState[q] = "NONE" \/ tradePartner[q] = p

\* internalStartTrade, of an offer and of a counter-offer.
StartTrade(p, q, i) ==
  /\ MayTrade(p, q)
  /\ LET asked == tradeState[q] = "NONE" IN
     /\ tradePartner' = [tradePartner EXCEPT ![p] = q, ![q] = IF asked THEN p ELSE @]
     /\ tradeState' = [tradeState EXCEPT ![p] = "INITIATED",
                                         ![q] = IF asked THEN "ACKNOWLEDGE" ELSE @]
  /\ tradeItem' = [tradeItem EXCEPT ![p] = i]
  /\ tradeItems' = [tradeItems EXCEPT ![i] = p]
  /\ refs' = [refs EXCEPT ![i] = @ + 1]
  /\ UNCHANGED released

\* playerRequestTrade.
RequestTrade(p, q, i) ==
  /\ {p, q} \subseteq online /\ p # q
  /\ InReach(pos, p, q)
  /\ Near(loc, pos, p, i)
  /\ NotOffered(i)
  /\ Cardinality(Contents(loc, i)) + 1 <= MaxTraded
  /\ refs[i] < RefBound
  /\ StartTrade(p, q, i)
  /\ UNCHANGED wVars

-----------------------------------------------------------------------------
(* Accepting *)

CanAccept(p) == p \in online /\ tradeState[p] \in {"ACKNOWLEDGE", "INITIATED"}

\* playerAcceptTrade, the first of the two to accept.
AcceptFirst(p) ==
  /\ CanAccept(p)
  /\ tradeState[tradePartner[p]] # "ACCEPT"
  /\ tradeState' = [tradeState EXCEPT ![p] = "ACCEPT"]
  /\ UNCHANGED <<tradePartner, tradeItem, tradeItems, refs, released, wVars>>

BothAccept(p) == CanAccept(p) /\ tradeState[tradePartner[p]] = "ACCEPT"

\* A script vetoes the trade, one of the tests fails, or the first item
\* cannot be moved: the trade is over and nothing has moved.
ExchangeRefused(p) ==
  /\ BothAccept(p)
  /\ CloseTrades({p})
  /\ UNCHANGED wVars

\* internalAddItem as a test: having no destination does not fail it, since
\* the destination is then the player himself.
AddTest(p, i) == i # NoItem /\ CanCarry(loc, p, i)

\* Mutant: the first item may be put into the offer it is exchanged for.
AnyAllowed(L, l, offer) == TRUE

\* internalMoveItem: the first move may not end in the partner's offer.
Allowed(L, l, offer) == l # offer /\ (l \in Bag => offer \notin Holders(L, l))

\* Where internalMoveItem puts item i for player p.  Without a destination
\* it fails, unless queryMaxCount has counted room: then the item leaves its
\* parent and Player::addThing ignores it.
MovedTo(L, p, i) ==
  IF Destinations(L, p, i) # {} THEN Destinations(L, p, i)
  ELSE IF RoomCounted(L, p) THEN {Lost} ELSE {}

\* Both tests pass and the first item moves to the partner; then the second
\* moves to the player, if it can.  Only the trades of others are closed by
\* the notifications, the two traders are in TRADE_TRANSFER.
Exchange(p) ==
  LET q == tradePartner[p]
      give == tradeItem[p]
      take == tradeItem[q]
  IN /\ BothAccept(p)
     /\ AddTest(q, give) /\ AddTest(p, take)
     /\ \E l \in MovedTo(loc, q, give) :
          LET L == [loc EXCEPT ![give] = l]
              hit == {p, q} \cup HitByRemoval(loc, give) \cup HitByAddition(loc, l)
          IN /\ Allowed(loc, l, take)
             /\ IF MovedTo(L, p, take) = {}
                  THEN loc' = L /\ CloseTrades(hit)
                  ELSE \E m \in MovedTo(L, p, take) :
                         /\ loc' = [L EXCEPT ![take] = m]
                         /\ CloseTrades(hit \cup HitByRemoval(L, take)
                                            \cup HitByAddition(L, m))
     /\ UNCHANGED <<online, pos>>

-----------------------------------------------------------------------------
(* What else happens to traders and items *)

\* playerCloseTrade.
CloseTrade(p) ==
  /\ p \in online
  /\ CloseTrades({p})
  /\ UNCHANGED wVars

\* Mutant: only the distance to the own offer is checked.
AloneWalk(p, l) ==
  /\ p \in online
  /\ pos' = [pos EXCEPT ![p] = l]
  /\ LET t == tradeItem[p] IN
       CloseTrades(IF t # NoItem /\ ~Near(loc, pos', p, t) THEN {p} ELSE {})
  /\ UNCHANGED <<online, loc>>

\* onCreatureMove: too far from the own offer, or from the partner.
Walk(p, l) ==
  /\ p \in online
  /\ pos' = [pos EXCEPT ![p] = l]
  /\ LET t == tradeItem[p]
         q == tradePartner[p]
         tooFar == \/ t # NoItem /\ ~Near(loc, pos', p, t)
                   \/ q # NoPlayer /\ ~InReach(pos', p, q)
     IN CloseTrades(IF tooFar THEN {p} ELSE {})
  /\ UNCHANGED <<online, loc>>

\* onRemoveCreature: the player leaves the world, his items with him.
Logout(p) ==
  /\ p \in online
  /\ online' = online \ {p}
  /\ CloseTrades(IF tradePartner[p] # NoPlayer THEN {p} ELSE {})
  /\ UNCHANGED <<loc, pos>>

\* playerMoveItem by any player: to one of his slots or bags, to the ground or
\* into a bag there.
MoveItem(p, i, l) ==
  /\ p \in online
  /\ Near(loc, pos, p, i)
  /\ l # loc[i]
  /\ \/ l = p /\ SlotFree(loc, p, i)
     \/ l \in Place
     \/ /\ l \in Bag /\ Room(loc, l) /\ Near(loc, pos, p, l)
        /\ l # i /\ i \notin Holders(loc, l)
  /\ l = p \/ (l \in Bag /\ Root(loc, l) = p) => CanCarry(loc, p, i)
  /\ loc' = [loc EXCEPT ![i] = l]
  /\ CloseTrades(HitByRemoval(loc, i) \cup HitByAddition(loc, l))
  /\ UNCHANGED <<online, pos>>

\* internalRemoveItem by decay or by a script, of an item that holds nothing.
RemoveItem(i) ==
  /\ loc[i] \notin {Gone, Lost}
  /\ Contents(loc, i) = {}
  /\ loc' = [loc EXCEPT ![i] = Gone]
  /\ ClearTrades(Ended(HitByRemoval(loc, i)), {i})
  /\ UNCHANGED <<online, pos>>

\* transformItem in place.
UpdateItem(i) ==
  /\ loc[i] \notin {Gone, Lost}
  /\ CloseTrades(HitByUpdate(loc, i))
  /\ UNCHANGED wVars

\* Mutant: an item released twice is on the list once.
OnceCleanup ==
  /\ refs' = [i \in Item |-> IF released[i] > 0 THEN refs[i] - 1 ELSE refs[i]]
  /\ released' = [i \in Item |-> 0]
  /\ UNCHANGED <<tradeState, tradePartner, tradeItem, tradeItems, wVars>>

\* Game::cleanup: an item whose counter reaches zero is deleted.
Cleanup ==
  /\ refs' = [i \in Item |-> refs[i] - released[i]]
  /\ released' = [i \in Item |-> 0]
  /\ UNCHANGED <<tradeState, tradePartner, tradeItem, tradeItems, wVars>>

-----------------------------------------------------------------------------

Init ==
  /\ online = Player
  /\ tradeState = [p \in Player |-> "NONE"]
  /\ tradePartner = [p \in Player |-> NoPlayer]
  /\ tradeItem = [p \in Player |-> NoItem]
  /\ tradeItems = [i \in Item |-> NoPlayer]
  /\ refs = [i \in Item |-> 1]
  /\ released = [i \in Item |-> 0]
  /\ loc \in Layouts
  /\ pos \in [Player -> Place]

TradeStep(p) ==
  \/ \E q \in Player, i \in Item : RequestTrade(p, q, i)
  \/ AcceptFirst(p) \/ ExchangeRefused(p) \/ Exchange(p)
  \/ CloseTrade(p)

WorldStep ==
  \/ \E p \in Player, l \in Place : Walk(p, l)
  \/ \E p \in Player : Logout(p)
  \/ \E p \in Player, i \in Item, l \in Location : MoveItem(p, i, l)
  \/ \E i \in Item : RemoveItem(i) \/ UpdateItem(i)
  \/ Cleanup

Next == (\E p \in Player : TradeStep(p)) \/ WorldStep

Spec == Init /\ [][Next]_vars

-----------------------------------------------------------------------------
(* Properties *)

\* The partner of my partner is me, both of us are in the world, and nobody
\* trades without a partner or keeps one when he does not trade.
PartnersAgree ==
  \A p \in Player : LET q == tradePartner[p] IN
    /\ (q = NoPlayer) <=> (tradeState[p] = "NONE")
    /\ q # NoPlayer => /\ q # p
                       /\ tradePartner[q] = p
                       /\ p \in online

\* tradeItems holds exactly the offers of the players, each under the player
\* who made it; nothing is offered twice, and who has been asked but has not
\* countered offers nothing.
OffersRegistered ==
  /\ \A p \in Player : LET t == tradeItem[p] IN
       /\ t # NoItem => tradeItems[t] = p
       /\ tradeState[p] = "INITIATED" => t # NoItem
       /\ tradeState[p] \in {"NONE", "ACKNOWLEDGE"} => t = NoItem
  /\ \A i \in Item : tradeItems[i] # NoPlayer => tradeItem[tradeItems[i]] = i

Count(b) == IF b THEN 1 ELSE 0

\* An item's counter is the world's reference, plus one for the trade it is
\* offered in, plus the ones waiting for cleanup(): an item that is offered
\* or in the world is never deleted.
ReferencesCounted ==
  \A i \in Item :
    refs[i] = Count(loc[i] # Gone) + Count(tradeItems[i] # NoPlayer) + released[i]

\* No offer lies inside another.
OffersApart ==
  \A i, j \in Item :
    tradeItems[i] # NoPlayer /\ tradeItems[j] # NoPlayer => i \notin Holders(loc, j)

\* The two traders stay within two steps of each other, and each within one
\* step of the own offer: nobody pays for something he cannot reach.
TradersInReach ==
  \A p \in Player :
    /\ tradePartner[p] # NoPlayer => InReach(pos, p, tradePartner[p])
    /\ tradeItem[p] # NoItem => Near(loc, pos, p, tradeItem[p])

\* What is offered cannot be altered under a running trade: as long as the
\* offer stands, the item stays where it is and holds what it held.
OfferFrozen ==
  [][\A p \in Player : LET t == tradeItem[p] IN
       t # NoItem /\ tradeItem'[p] = t
         => /\ loc'[t] = loc[t]
            /\ Root(loc', t) = Root(loc, t)
            /\ Contents(loc', t) = Contents(loc, t)]_vars

\* Both items change hands.
Swapped(p) ==
  /\ Root(loc', tradeItem[p]) = tradePartner[p]
  /\ Root(loc', tradeItem[tradePartner[p]]) = p

\* Where both traders have room outside of what they offer, the exchange is
\* complete: no item ends up in the offer it is exchanged for and travels
\* back with it, and the room found by the test is there when it is needed.
RoomMeansSwap ==
  [][\A p \in Player : LET q == tradePartner[p] IN
       /\ Exchange(p)
       /\ Destinations(loc, p, tradeItem[q]) # {}
       /\ Destinations(loc, q, tradeItem[p]) # {}
       => Swapped(p)]_vars

\* An exchange whose two tests succeeded and that moved anything moves both
\* items: internalAddItem is to "check if we can move add the whole amount".
ExchangeComplete == [][\A p \in Player : Exchange(p) => Swapped(p)]_vars
=============================================================================
