------------------------------- MODULE Items --------------------------------
(***************************************************************************)
(* Stacks of items a player holds: the ammunition slot, a backpack and the *)
(* tile the player stands on, and the functions of Game that add, move,    *)
(* take and change them (internalAddItem, internalMoveItem,                *)
(* internalRemoveItem, removeMoney, addMoney), with the queries of Player, *)
(* Container and Tile they decide by.                                      *)
(*                                                                         *)
(* Of the equipment only the slot that takes stacks is kept, and a single  *)
(* container: what lies deeper is found by the same search.  The free      *)
(* capacity of the player, which depends on everything carried, is a       *)
(* choice of each call: how many items are light enough.  Coins are two    *)
(* types, where the code has four with the same rate between them.         *)
(***************************************************************************)
EXTENDS Integers, Sequences, SequencesExt, FiniteSetsExt

CONSTANTS Ammo,      \* stackable types the ammunition slot takes
          Gold, Platinum,
          StackMax,  \* 100: the largest stack, and the rate between coins
          Capacity,  \* Container::maxSize of the backpack
          TileBound, \* bound on the stacks lying on the tile
          OwedBound  \* bound on what is given

ASSUME ItemsAssumption ==
  /\ {Gold, Platinum} \cap Ammo = {} /\ Gold # Platinum
  /\ StackMax \in Nat \ {0, 1} /\ Capacity \in Nat \ {0}
  /\ TileBound \in Nat /\ OwedBound \in Nat

VARIABLES stacks, \* the stacks in each cylinder:
                  \*   "slot", inventory[CONST_SLOT_AMMO], one stack at most,
                  \*   "bag", Container::itemlist of the backpack, front first,
                  \*   "tile", the down items of the tile, top first
          owed    \* history: what has been given and not been taken again

vars == <<stacks, owed>>

Cylinder == {"slot", "bag", "tile"}

Coin == {Gold, Platinum}
Type == Ammo \cup Coin
Worth(t) == IF t = Gold THEN 1 ELSE StackMax
Account == Ammo \cup {Gold}

Stack == [id : Type, n : 1..StackMax]
Of(t, k) == [id |-> t, n |-> k]

-----------------------------------------------------------------------------
(* What there is, when the stacks of the cylinders are S *)

SumOf(s) ==
  LET sum[i \in 0..Len(s)] == IF i = 0 THEN 0 ELSE sum[i - 1] + s[i]
  IN sum[Len(s)]

\* What a stack counts for in an account; coins count in gold.
Value(x, a) ==
  IF x.id \in Coin THEN (IF a = Gold THEN x.n * Worth(x.id) ELSE 0)
  ELSE IF x.id = a THEN x.n ELSE 0

Amount(s, a) == SumOf([i \in DOMAIN s |-> Value(s[i], a)])

Held(S, a) == Amount(S["slot"], a) + Amount(S["bag"], a) + Amount(S["tile"], a)

AtMost(a, b) == IF a < b THEN a ELSE b

-----------------------------------------------------------------------------
(* What the cylinders do: removeThing, addThing, updateThing *)

Take(S, c, i, k) ==
  IF S[c][i].n = k THEN [S EXCEPT ![c] = RemoveAt(@, i)] ELSE [S EXCEPT ![c][i].n = @ - k]

Put(S, c, x) == [S EXCEPT ![c] = <<x>> \o @]

Grow(S, c, i, k) == [S EXCEPT ![c][i].n = @ + k]

\* Positions of the stacks of t that can grow.
Partial(s, t) == {i \in DOMAIN s : s[i].id = t /\ s[i].n < StackMax}

\* Mutant: a full backpack counts as having a slot.
RoomyFreeSlots(S) == IF Len(S["bag"]) > Capacity THEN 0 ELSE Capacity + 1 - Len(S["bag"])

\* The free slots of Container::queryMaxCount.
FreeSlots(S) == IF Len(S["bag"]) > Capacity THEN 0 ELSE Capacity - Len(S["bag"])

\* The room that a stack of t leaves, and those at the positions I together.
RoomAt(s, t, i) == IF i \in Partial(s, t) THEN StackMax - s[i].n ELSE 0
RoomIn(s, t, I) == SumOf([i \in DOMAIN s |-> IF i \in I THEN RoomAt(s, t, i) ELSE 0])

\* Container::queryMaxCount, anywhere.
BagRoom(S, t, I) == FreeSlots(S) * StackMax + RoomIn(S["bag"], t, I)

\* Player::queryMaxCount anywhere, for k items of which "light" can be
\* carried: in the slot it is the room left there that must be light enough.
PlayerRoom(S, t, k, light) ==
  LET left == RoomAt(S["slot"], t, 1) IN
    (IF t \notin Ammo THEN 0
     ELSE IF S["slot"] = <<>> THEN (IF k <= light THEN StackMax ELSE 0)
     ELSE IF left <= light THEN left ELSE 0)
    + BagRoom(S, t, IF k <= light THEN DOMAIN S["bag"] ELSE {})

-----------------------------------------------------------------------------
(* Adding *)

\* internalAddItem to the tile, without limits: the top stack is filled first.
TileAdd(S, t, k) ==
  LET n == AtMost(k, RoomAt(S["tile"], t, 1))
      G == IF n = 0 THEN S ELSE Grow(S, "tile", 1, n)
  IN IF n = k THEN G ELSE Put(G, "tile", Of(t, k - n))

\* Player::queryDestination anywhere, for k items from outside.
Destination(S, t, k, light) ==
  IF k <= light /\ t \in Ammo /\ (S["slot"] = <<>> \/ Partial(S["slot"], t) # {}) THEN "slot"
  ELSE IF Partial(S["bag"], t) # {} \/ (k <= light /\ FreeSlots(S) > 0) THEN "bag"
  ELSE "nowhere"

\* Mutant: what is merged with a stack is not taken off what is added.
DoublingAddRound(r, t, light) ==
  LET S == r.state
      k == r.left
      c == Destination(S, t, k, light)
      room == PlayerRoom(S, t, k, light)
      i == Min(Partial(S[c], t))
      m == AtMost(k, room)
      n == AtMost(m, StackMax - S[c][i].n)
  IN IF k = 0 \/ k > light \/ (c = "bag" /\ room < k) THEN r
     ELSE IF c = "nowhere" THEN [state |-> S, left |-> 0]
     ELSE IF Partial(S[c], t) = {} THEN [state |-> Put(S, c, Of(t, k)), left |-> 0]
     ELSE [state |-> Grow(S, c, i, n), left |-> IF m = n THEN 0 ELSE m]

\* internalAddItem of what is left, r.left, anywhere.  With too little room it
\* is refused where the destination is the backpack; where it is the slot,
\* what exceeds the room goes with the item destroyed as "fully merged".  With
\* no destination at all, queryAdd answers for the index -1 that all is well
\* and addThing does nothing.
AddRound(r, t, light) ==
  LET S == r.state
      k == r.left
      c == Destination(S, t, k, light)
      room == PlayerRoom(S, t, k, light)
      i == Min(Partial(S[c], t))
      m == AtMost(k, room)
      n == AtMost(m, StackMax - S[c][i].n)
  IN IF k = 0 \/ k > light \/ (c = "bag" /\ room < k) THEN r
     ELSE IF c = "nowhere" THEN [state |-> S, left |-> 0]
     ELSE IF Partial(S[c], t) = {} THEN [state |-> Put(S, c, Of(t, k)), left |-> 0]
     ELSE [state |-> Grow(S, c, i, n), left |-> m - n]

\* internalAddItem to the player, at the index 0 (which the slots know as
\* CONST_SLOT_WHEREEVER) or -1 (INDEX_WHEREEVER).  What a stack leaves over is
\* added anywhere by a call of its own, and comes back as what is left when
\* that is refused; what a call further in leaves does not come back.
PlayerAdd(S, t, k, light, index) ==
  LET add[j \in 0..k] == IF j = 0 THEN [state |-> S, left |-> k]
                         ELSE AddRound(add[j - 1], t, light)
  IN IF index # -1 /\ Destination(S, t, k, light) = "nowhere" THEN add[0]
     ELSE [add[k] EXCEPT !.left = IF add[k] = add[1] THEN @ ELSE 0]

\* addMoney of one type: what is refused goes to the tile.
AddCoin(S, t, k, light) ==
  LET R == PlayerAdd(S, t, k, light, -1) IN
    IF k = 0 THEN S ELSE IF R.left < k THEN R.state ELSE TileAdd(S, t, k)

\* addMoney.  All coins weigh the same, so what was added of platinum leaves so
\* much less for the gold.
AddMoney(S, money, light) ==
  LET k == money \div StackMax
      added == IF k = 0 THEN 0 ELSE k - PlayerAdd(S, Platinum, k, light, -1).left
  IN AddCoin(AddCoin(S, Platinum, k, light), Gold, money % StackMax, light - added)

-----------------------------------------------------------------------------
(* Taking *)

\* What removeItemOfType finds: the backpack is a slot before the other one.
Carried(S, t, ignoreEquipped) ==
  Amount(S["bag"], t) + (IF ignoreEquipped THEN 0 ELSE Amount(S["slot"], t))

\* One round of the loop of internalRemoveItems.
TakeRound(r, t) ==
  LET S == r.state
      c == IF \E i \in DOMAIN S["bag"] : S["bag"][i].id = t THEN "bag" ELSE "slot"
      i == Min({j \in DOMAIN S[c] : S[c][j].id = t})
      n == AtMost(r.left, S[c][i].n)
  IN IF r.left = 0 THEN r ELSE [state |-> Take(S, c, i, n), left |-> r.left - n]

\* internalRemoveItems
TakeItems(S, t, k) ==
  LET take[j \in 0..k] == IF j = 0 THEN [state |-> S, left |-> k]
                          ELSE TakeRound(take[j - 1], t)
  IN take[k].state

Purse(S) == {i \in DOMAIN S["bag"] : S["bag"][i].id \in Coin}

\* The stack of coins worth least, the first one of those.
Least(S) ==
  Min({i \in Purse(S) :
         \A j \in Purse(S) : Value(S["bag"][i], Gold) <= Value(S["bag"][j], Gold)})

\* One round of the loop of removeMoney, with r.left to be paid: stack after
\* stack in the order of their worth; the change for the last one is given
\* before its coins are taken.
PayRound(r, light) ==
  LET S == r.state
      i == Least(S)
      x == S["bag"][i]
      taken == (r.left + Worth(x.id) - 1) \div Worth(x.id)
      A == AddMoney(S, Worth(x.id) * taken - r.left, light)
  IN IF r.left = 0 THEN r
     ELSE IF Value(x, Gold) <= r.left
       THEN [state |-> Take(S, "bag", i, x.n), left |-> r.left - Value(x, Gold)]
     ELSE [state |-> Take(A, "bag", i + Len(A["bag"]) - Len(S["bag"]), taken), left |-> 0]

\* The loop of removeMoney.
TakeMoney(S, money, light) ==
  LET pay[j \in 0..Len(S["bag"])] == IF j = 0 THEN [state |-> S, left |-> money]
                                     ELSE PayRound(pay[j - 1], light)
  IN pay[Len(S["bag"])].state

-----------------------------------------------------------------------------
(* Moving: internalMoveItem of k items of the stack at position i of c *)

\* A destination is a cylinder, an index there (0 is anywhere) and the
\* position of the stack it would be merged with (0 for none).
At(c, index, item) == [cyl |-> c, index |-> index, item |-> item]

\* Container::queryDestination.  A stack from elsewhere is added to one of
\* its kind, whatever the index.
BagTarget(S, c, i, j) ==
  LET P == Partial(S["bag"], S[c][i].id) IN
    IF c # "bag" /\ P # {} THEN At("bag", Min(P), Min(P))
    ELSE IF j \notin 1..Capacity THEN At("bag", 0, 0)
    ELSE At("bag", j, IF j <= Len(S["bag"]) THEN j ELSE 0)

\* Player::queryDestination anywhere and that of the backpack after it.  The
\* item itself is skipped without being counted, so that behind it the index
\* is one short.
PlayerTarget(S, c, i, light) ==
  LET x == S[c][i]
      fits == c # "tile" \/ x.n <= light
      P == Partial(S["bag"], x.id) \ (IF c = "bag" THEN {i} ELSE {})
      own == IF c = "bag" THEN 1 ELSE 0
      counted == Len(S["bag"]) - own
  IN IF /\ c # "slot" /\ fits /\ x.id \in Ammo
        /\ S["slot"] = <<>> \/ Partial(S["slot"], x.id) # {}
       THEN At("slot", 1, Len(S["slot"]))
     ELSE IF P # {}
       THEN BagTarget(S, c, i, IF c = "bag" /\ i < Min(P) THEN Min(P) - 1 ELSE Min(P))
     ELSE IF counted < Capacity /\ fits THEN BagTarget(S, c, i, counted + 1)
     ELSE At("nowhere", 0, 0)

Target(S, c, i, to, light) ==
  CASE to.cyl = "player" -> PlayerTarget(S, c, i, light)
    [] to.cyl = "bag" -> BagTarget(S, c, i, to.index)
    [] OTHER -> At(to.cyl, 1, AtMost(1, Len(S[to.cyl])))

\* queryAdd of the destination D.
CanAdd(S, c, i, D, k, light) ==
  /\ c # "tile" \/ D.cyl = "tile" \/ k <= light
  /\ D.cyl = "slot" => S[c][i].id \in Ammo
  /\ D.cyl = "bag" /\ D.index = 0 => Len(S["bag"]) < Capacity - 1
  /\ D.cyl = "nowhere" => Len(S["bag"]) < Capacity - 1

\* queryMaxCount of the destination D.
MaxCount(S, c, i, D, k, light) ==
  LET t == S[c][i].id
      merge == IF D.item = 0 THEN 0 ELSE RoomAt(S[D.cyl], t, D.item)
      I == IF c # "tile" \/ k <= light THEN DOMAIN S["bag"] ELSE {}
  IN CASE D.cyl = "tile" -> k
       [] D.cyl = "nowhere" -> StackMax
       [] D.cyl = "slot" -> IF D.item = 0 THEN StackMax ELSE merge
       [] D.cyl = "bag" /\ D.index = 0 -> BagRoom(S, t, I \ (IF c = "bag" THEN {i} ELSE {}))
       [] OTHER -> FreeSlots(S) * StackMax + merge

\* Mutant: the stack at the destination takes all that is moved.
CarelessMoved(S, c, i, D, k, light) ==
  LET t == S[c][i].id
      m == AtMost(k, MaxCount(S, c, i, D, k, light))
      n == IF D.item = 0 THEN 0 ELSE IF S[D.cyl][D.item].id = t THEN m ELSE 0
      G == IF n = 0 THEN S ELSE Grow(S, D.cyl, D.item, n)
      R == Take(G, c, i, m)
  IN IF m = 0 THEN S
     ELSE IF m = n \/ D.cyl = "nowhere" THEN R
     ELSE Put(R, D.cyl, Of(t, m - n))

\* Mutant: what does not fit the stack at the destination is forgotten.
ForgetfulMoved(S, c, i, D, k, light) ==
  LET t == S[c][i].id
      m == AtMost(k, MaxCount(S, c, i, D, k, light))
      n == IF D.item = 0 THEN 0 ELSE AtMost(m, RoomAt(S[D.cyl], t, D.item))
      G == IF n = 0 THEN S ELSE Grow(S, D.cyl, D.item, n)
      R == Take(G, c, i, m)
  IN IF m = 0 THEN S
     ELSE IF n > 0 \/ D.cyl = "nowhere" THEN R
     ELSE Put(R, D.cyl, Of(t, m - n))

\* The last part of internalMoveItem: what is moved fills the stack at the
\* destination, the rest becomes a new one; "nowhere" it is gone.
Moved(S, c, i, D, k, light) ==
  LET t == S[c][i].id
      m == AtMost(k, MaxCount(S, c, i, D, k, light))
      n == IF D.item = 0 THEN 0 ELSE AtMost(m, RoomAt(S[D.cyl], t, D.item))
      G == IF n = 0 THEN S ELSE Grow(S, D.cyl, D.item, n)
      R == Take(G, c, i, m)
  IN IF m = 0 THEN S
     ELSE IF m = n \/ D.cyl = "nowhere" THEN R
     ELSE Put(R, D.cyl, Of(t, m - n))

\* The exchange with a stack of another type in the slot, which goes to the
\* front of the backpack first.
Exchanged(S, i, k, light) ==
  LET old == S["slot"][1]
      E == Put([S EXCEPT !["slot"] = <<>>], "bag", old)
  IN IF BagRoom(S, old.id, DOMAIN S["bag"]) = 0 THEN S
     ELSE Moved(E, "bag", i + 1, At("slot", 1, 0), k, light)

MoveItem(S, c, i, to, k, light) ==
  LET D == Target(S, c, i, to, light) IN
    IF (D.cyl = c /\ D.item = i) \/ ~CanAdd(S, c, i, D, k, light) THEN S
    ELSE IF D.cyl = "slot" /\ D.item = 1 /\ S["slot"][1].id # S[c][i].id
      THEN IF c = "bag" THEN Exchanged(S, i, k, light) ELSE S
    ELSE Moved(S, c, i, D, k, light)

-----------------------------------------------------------------------------
(* The calls *)

Init == stacks = [c \in Cylinder |-> <<>>] /\ owed = [a \in Account |-> 0]

Light == 0..(2 * StackMax)
Owe(a, k) ==
  /\ k + MapThenSumSet(LAMBDA b : owed[b], Account) <= OwedBound
  /\ owed' = [owed EXCEPT ![a] = @ + k]

\* internalPlayerAddItem, as scripts and shops call it.
GiveItem(t, k, light, dropOnMap) ==
  LET R == PlayerAdd(stacks, t, k, light, 0) IN
    /\ Owe(t, IF R.left < k \/ dropOnMap THEN k ELSE 0)
    /\ stacks' = IF R.left = 0 \/ (R.left = k /\ ~dropOnMap) THEN R.state
                 ELSE TileAdd(R.state, t, R.left)

\* addMoney
GiveMoney(money, light) ==
  Owe(Gold, money) /\ stacks' = AddMoney(stacks, money, light)

\* removeMoney
PayMoney(money, light) ==
  /\ money <= Amount(stacks["bag"], Gold)
  /\ Owe(Gold, 0 - money)
  /\ stacks' = TakeMoney(stacks, money, light)

\* removeItemOfType
SellItems(t, k, ignoreEquipped) ==
  /\ k <= Carried(stacks, t, ignoreEquipped)
  /\ Owe(t, 0 - k)
  /\ stacks' = TakeItems(stacks, t, k)

\* playerMoveItem of a whole stack or a part; of the tile only the top moves.
Move(c, i, to, k, light) ==
  /\ i \in DOMAIN stacks[c] /\ (c = "tile" => i = 1)
  /\ k <= stacks[c][i].n
  /\ stacks' = MoveItem(stacks, c, i, to, k, light)
  /\ UNCHANGED owed

\* Somebody else takes the top of the tile, or it is cleaned.
TakeAway ==
  /\ stacks["tile"] # <<>>
  /\ stacks' = [stacks EXCEPT !["tile"] = Tail(@)]
  /\ owed' = [a \in Account |-> owed[a] - Value(Head(stacks["tile"]), a)]

Place == {[cyl |-> c, index |-> 1] : c \in {"player", "slot", "tile"}}
         \cup {[cyl |-> "bag", index |-> j] : j \in 0..Capacity}

Next ==
  \/ \E light \in Light :
       \/ \E t \in Ammo, k \in 1..StackMax, drop \in BOOLEAN : GiveItem(t, k, light, drop)
       \/ \E money \in 1..(StackMax * StackMax - 1) :
            GiveMoney(money, light) \/ PayMoney(money, light)
       \/ \E c \in {"slot", "bag", "tile"}, i \in 1..(Capacity + 1), to \in Place,
             k \in 1..StackMax : Move(c, i, to, k, light)
  \/ \E t \in Ammo, k \in 1..(2 * StackMax), ignore \in BOOLEAN : SellItems(t, k, ignore)
  \/ TakeAway

Spec == Init /\ [][Next]_vars

Bounded == Len(stacks["tile"]) <= TileBound /\ Len(stacks["bag"]) <= Capacity + 1

-----------------------------------------------------------------------------
(* Properties *)

ItemsTypeOK ==
  /\ stacks \in [Cylinder -> Seq(Stack)]
  /\ Len(stacks["slot"]) <= 1 /\ \A i \in DOMAIN stacks["slot"] : stacks["slot"][i].id \in Ammo
  /\ owed \in [Account -> Nat]

\* No sequence of gifts, moves, exchanges and payments makes an item or a coin
\* that was not given: what is there never exceeds what is owed.
NothingDoubled == \A a \in Account : Held(stacks, a) <= owed[a]

Shortfall(a) == owed[a] - Held(stacks, a)

\* Nothing is lost either, with one exception: where something is, the backpack
\* is full, or it is part of a stack taken from the floor that is too heavy as
\* a whole.  With room and strength all calls preserve what the player has.
LostOnlyWhenFull ==
  [][ \A a \in Account :
        Shortfall(a)' > Shortfall(a) =>
          \/ FreeSlots(stacks) = 0 \/ FreeSlots(stacks)' = 0
          \/ /\ owed' = owed /\ Len(stacks'["tile"]) = Len(stacks["tile"])
             /\ stacks'["slot"] = stacks["slot"] /\ stacks'["bag"] = stacks["bag"] ]_vars

\* A backpack takes more stacks than it has slots only where an exchange with
\* the ammunition slot moves a part of a stack out of it.
OverfullOnlyByExchange ==
  [][ Len(stacks'["bag"]) > Len(stacks["bag"]) /\ Len(stacks'["bag"]) > Capacity =>
        /\ stacks["slot"] # <<>> /\ stacks'["slot"] # <<>>
        /\ stacks["slot"][1].id # stacks'["slot"][1].id ]_vars

Symmetry == Permutations(Ammo)
=============================================================================
