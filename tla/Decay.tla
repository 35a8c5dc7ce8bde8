-------------------------------- MODULE Decay --------------------------------
(***************************************************************************)
(* Decaying items: Decay (src/src/decay.cpp), Game::startDecay, stopDecay  *)
(* and internalDecayItem, and the check events it plans with the           *)
(* scheduler.  An item is in decayMap under the moment it expires; a check *)
(* takes the expired ones out, works them off one after the other, and     *)
(* plans the next check for the first moment that was left over.           *)
(*                                                                         *)
(* Moments are counted from now, so time passing lowers them; what is over *)
(* due stays at 0.  References passed to ReleaseItem are given back at     *)
(* once, which is earlier than Game::cleanup does it.                      *)
(***************************************************************************)
EXTENDS Integers, FiniteSets

CONSTANTS
  Item, Type,
  DecayTime, \* ItemType::decayTime by type
  DecayTo,   \* ItemType::decayTo: a type, Vanish (0) or Never (negative)
  StopTime,  \* ItemType::stopTime: the types that keep what time is left
  Vanish, Never,
  World,     \* the parent of an item that lies in no other item
  Nowhere,   \* no parent
  MinTicks,  \* SCHEDULER_MINTICKS
  MaxTime,   \* bound on durations and delays
  NoTime,    \* an attribute that is not set, a timer that is not running
  End,       \* decayMap.end()
  Dangling,  \* an iterator whose bucket was erased
  Durations, \* the durations scripts set
  Newborn,   \* the types new items have
  Worlds     \* pairs of types and parents the items may have at the start

ASSUME DecayAssumption ==
  /\ MinTicks \in Nat \ {0} /\ MaxTime \in Nat /\ MinTicks <= MaxTime
  /\ DecayTime \in [Type -> 0..MaxTime]
  /\ DecayTo \in [Type -> Type \cup {Vanish, Never}]
  /\ {Vanish, Never} \cap Type = {} /\ Vanish # Never
  /\ Durations \subseteq 1..MaxTime \* and the scripts in data set none
  /\ Newborn \subseteq Type
  /\ StopTime \in [Type -> BOOLEAN]
  /\ \A t \in Type : DecayTime[t] > 0 =>          \* so it is in items.xml
       ~StopTime[t] /\ DecayTo[t] \notin {Never, t}
  /\ {World, Nowhere} \cap Item = {} /\ World # Nowhere
  /\ {NoTime, End, Dangling} \cap Int = {} /\ Cardinality({NoTime, End, Dangling}) = 3
  /\ Worlds \subseteq [Item -> Type] \X [Item -> Item \cup {World, Nowhere}]
  /\ \A w \in Worlds, i \in Item : w[2][i] \in Item => w[2][w[2][i]] \notin Item

Time == 0..MaxTime

VARIABLES
  item,     \* type and attributes of every item
  parent,   \* where it lies
  decayMap, \* Decay::decayMap, the pairs of a moment and an item under it
  refs,     \* Item::referenceCounter; an item with none may be allocated anew
  current,  \* when the event Decay::eventId is due, NoTime if it is over
  timers,   \* when the check events planned before it are due
  queued,   \* a check is with the dispatcher
  temp,     \* checkDecay's tempItems
  checking, \* a check runs
  next      \* its it: a moment, End, or Dangling

items == <<item, parent, decayMap, refs>>
events == <<current, timers>>
check == <<temp, checking, next>>
vars == <<items, events, queued, check>>

Attributes == [type : Type,
               decaying : {"FALSE", "TRUE", "PENDING", "STOPPING"},
               duration : Time \cup {NoTime},
               stamp : Time \cup {NoTime}]

TypeOK ==
  /\ item \in [Item -> Attributes]
  /\ parent \in [Item -> Item \cup {World, Nowhere}]
  /\ decayMap \in SUBSET (Time \X Item)
  /\ refs \in [Item -> Nat]
  /\ current \in Time \cup {NoTime} /\ timers \in SUBSET Time
  /\ queued \in BOOLEAN
  /\ temp \in SUBSET Item
  /\ checking \in BOOLEAN /\ next \in Time \cup {End, Dangling}

-----------------------------------------------------------------------------
(* What the handlers compute, in a state S of the items *)

Now == [item |-> item, parent |-> parent, map |-> decayMap, refs |-> refs]

Become(S) == /\ item' = S.item /\ parent' = S.parent
             /\ decayMap' = S.map /\ refs' = S.refs

Larger(a, b) == IF a > b THEN a ELSE b

First(m) == CHOOSE t \in {e[1] : e \in m} : \A e \in m : t <= e[1]

\* Containers are one deep: what lies in an item lies directly in it.
Contents(S, i) == {j \in Item : S.parent[j] = i}

\* Item::isRemoved.
IsRemoved(S, i) ==
  \/ S.parent[i] = Nowhere
  \/ S.parent[i] \in Item /\ S.parent[S.parent[i]] = Nowhere

\* Item::canDecay.
CanDecay(S, i) ==
  LET t == S.item[i].type IN
    ~IsRemoved(S, i) /\ DecayTo[t] # Never /\ DecayTime[t] > 0

\* ITEM_ATTRIBUTE_DURATION as a number.
DurationOf(a) == IF a.duration = NoTime THEN 0 ELSE a.duration

\* Item::getDuration of an item whose time stamp is set if it needs one.
GetDuration(a) ==
  IF a.decaying \in {"TRUE", "STOPPING"} /\ a.stamp # NoTime
    THEN a.stamp ELSE DurationOf(a)

\* Mutant: what time is left is not stored.
ForgetfulStopped(a, found) ==
  [a EXCEPT !.decaying = IF found \/ a.stamp = NoTime THEN "FALSE" ELSE @,
            !.stamp = NoTime]

\* Game::stopDecay on the attributes.  An item that is not in the map under
\* its time stamp loses the stamp only.
Stopped(a, found) ==
  [a EXCEPT !.duration = IF found /\ @ # NoTime THEN GetDuration(a) ELSE @,
            !.decaying = IF found \/ a.stamp = NoTime THEN "FALSE" ELSE @,
            !.stamp = NoTime]

InMap(S, i) == <<S.item[i].stamp, i>> \in S.map

\* Mutant: Decay::stopDecay leaves the reference with the item.
LeakingStopAll(S, X) ==
  LET found == {i \in X : S.item[i].decaying # "FALSE" /\ InMap(S, i)} IN
    [S EXCEPT
       !.item = [i \in Item |-> IF i \in X /\ @[i].decaying # "FALSE"
                                  THEN Stopped(@[i], i \in found) ELSE @[i]],
       !.map = {e \in @ : e \notin {<<S.item[i].stamp, i>> : i \in found}}]

\* Mutant: an item is released whether it is in the map or not.
EagerStopAll(S, X) ==
  LET found == {i \in X : S.item[i].decaying # "FALSE" /\ InMap(S, i)} IN
    [S EXCEPT
       !.item = [i \in Item |-> IF i \in X /\ @[i].decaying # "FALSE"
                                  THEN Stopped(@[i], i \in found) ELSE @[i]],
       !.map = {e \in @ : e \notin {<<S.item[i].stamp, i>> : i \in found}},
       !.refs = [i \in Item |-> @[i] - (IF i \in X /\ S.item[i].decaying # "FALSE"
                                            THEN 1 ELSE 0)]]

\* Game::stopDecay for every item of X.
StopAll(S, X) ==
  LET found == {i \in X : S.item[i].decaying # "FALSE" /\ InMap(S, i)} IN
    [S EXCEPT
       !.item = [i \in Item |-> IF i \in X /\ @[i].decaying # "FALSE"
                                  THEN Stopped(@[i], i \in found) ELSE @[i]],
       !.map = {e \in @ : e \notin {<<S.item[i].stamp, i>> : i \in found}},
       !.refs = [i \in Item |-> @[i] - (IF i \in found THEN 1 ELSE 0)]]

\* Mutant: the contents of a container keep decaying when it is gone.
ShallowRemoved(S, i) ==
  StopAll([S EXCEPT !.parent[i] = Nowhere, !.refs[i] = @ - 1], {i})

\* internalRemoveItem, with Container::stopDecaying.
Removed(S, i) ==
  StopAll([S EXCEPT !.parent[i] = Nowhere, !.refs[i] = @ - 1],
          {i} \cup Contents(S, i))

\* Item::setID.
SetID(a, t) ==
  LET lasting == DecayTime[t] = 0 /\ ~StopTime[t] /\ DecayTo[t] = Never
      fresh == /\ DecayTime[t] > 0
               /\ ~StopTime[a.type] \/ a.duration = NoTime
  IN [type |-> t,
      decaying |-> IF fresh THEN "PENDING"
                   ELSE IF lasting /\ a.decaying # "FALSE" THEN "STOPPING"
                   ELSE a.decaying,
      duration |-> IF fresh THEN DecayTime[t]
                   ELSE IF lasting THEN NoTime ELSE a.duration,
      stamp |-> a.stamp]

\* Item::CreateItem in the place of a dead item.
Created(S, j, t, l) ==
  [S EXCEPT !.item[j] = [type |-> t, decaying |-> "FALSE", stamp |-> NoTime,
                         duration |-> IF DecayTime[t] > 0 THEN DecayTime[t] ELSE NoTime],
            !.parent[j] = l, !.refs[j] = 1]

Dead(S) == {j \in Item : S.refs[j] = 0 /\ Contents(S, j) = {}}

-----------------------------------------------------------------------------
(* Starting *)

\* g_scheduler.addEvent: the event before keeps running.
AddEvent(d) ==
  /\ timers' = timers \cup ({current} \ {NoTime})
  /\ current' = d

\* Mutant: a check that is planned already is taken to be early enough.
LazyReplaceEvent(d) == UNCHANGED events

\* g_scheduler.stopEvent of the last event, and a new one.
ReplaceEvent(d) == current' = d /\ UNCHANGED timers

\* Decay::startDecay, with its stopDecay of an item that has a time stamp.
StartIn(S, i) ==
  LET a == S.item[i]
      found == InMap(S, i)
      m == IF found THEN S.map \ {<<a.stamp, i>>} ELSE S.map
      n == S.refs[i] - (IF found THEN 1 ELSE 0)
      at == a.duration
      delay == Larger(MinTicks, at)
  IN /\ Become([S EXCEPT !.item[i].decaying = "TRUE", !.item[i].stamp = at,
                         !.map = m \cup {<<at, i>>}, !.refs[i] = n + 1])
     /\ IF m = {} THEN AddEvent(delay)
        ELSE IF at < First(m) THEN ReplaceEvent(delay)
        ELSE UNCHANGED events

\* Game::startDecay of an item that has time left.
LaunchIn(S, i) ==
  LET a == S.item[i] IN
    IF a.decaying = "STOPPING" \/ (~CanDecay(S, i) /\ a.decaying = "TRUE")
      THEN Become(StopAll(S, {i})) /\ UNCHANGED events
    ELSE IF ~CanDecay(S, i) \/ a.decaying = "TRUE"
      THEN Become(S) /\ UNCHANGED events
    ELSE StartIn(S, i)

\* Game::internalDecayItem: the item goes, or becomes another type in place,
\* or another item takes its place.
DecayIn(S, i) ==
  LET t == DecayTo[S.item[i].type] IN
    IF t = Vanish THEN Become(Removed(S, i)) /\ UNCHANGED events
    ELSE \/ LaunchIn([S EXCEPT !.item[i] = SetID(@, t)], i)
         \/ \E j \in Dead(S) :
              LaunchIn(Created(Removed(S, i), j, t, S.parent[i]), j)

\* Game::startDecay.
BeginIn(S, i) ==
  IF CanDecay(S, i) /\ S.item[i].decaying \in {"FALSE", "PENDING"}
                    /\ DurationOf(S.item[i]) = 0
    THEN DecayIn(S, i) ELSE LaunchIn(S, i)

-----------------------------------------------------------------------------
(* What happens to items between checks *)

Idle == ~checking /\ UNCHANGED <<queued, check>>

Alive(i) == parent[i] # Nowhere

\* A new item comes into the world and starts to decay: a corpse, a field, a
\* splash, what a player takes along at login.
Create(j, t, l) ==
  /\ Idle
  /\ j \in Dead(Now)
  /\ l = World \/ (l \in Item /\ parent[l] = World /\ l # j)
  /\ LaunchIn(Created(Now, j, t, l), j)

\* item:decay(), or startDecaying() after a move.
Start(i) == Idle /\ Alive(i) /\ BeginIn(Now, i)

\* item:setAttribute() of the decay state, and stopDecaying().
Stop(i) == Idle /\ Alive(i) /\ Become(StopAll(Now, {i})) /\ UNCHANGED events

\* item:setAttribute() of the duration.
SetDuration(i, d) ==
  /\ Idle /\ Alive(i)
  /\ BeginIn([Now EXCEPT !.item[i].decaying = "PENDING", !.item[i].duration = d], i)

\* transformItem in place, by equipping, using or a script.
Transform(i, t) ==
  /\ Idle /\ Alive(i)
  /\ t # item[i].type
  /\ BeginIn([Now EXCEPT !.item[i] = SetID(@, t)], i)

\* internalRemoveItem.
Remove(i) == Idle /\ Alive(i) /\ Become(Removed(Now, i)) /\ UNCHANGED events

\* The destructor of a container lets go of what is in it.
Destroy(i) ==
  /\ Idle
  /\ refs[i] = 0 /\ Contents(Now, i) # {}
  /\ LET inside == Contents(Now, i) IN
       /\ parent' = [j \in Item |-> IF j \in inside THEN Nowhere ELSE parent[j]]
       /\ refs' = [j \in Item |-> refs[j] - (IF j \in inside THEN 1 ELSE 0)]
  /\ UNCHANGED <<item, decayMap, events>>

-----------------------------------------------------------------------------
(* The scheduler and checkDecay *)

Earlier(t) == IF t = NoTime \/ t = 0 THEN t ELSE t - 1

\* Time passes, but not while a check runs.
Tick ==
  /\ ~checking
  /\ item' = [i \in Item |-> [item[i] EXCEPT !.stamp = Earlier(@)]]
  /\ decayMap' = {<<Earlier(e[1]), e[2]>> : e \in decayMap}
  /\ current' = Earlier(current)
  /\ timers' = {Earlier(t) : t \in timers}
  /\ UNCHANGED <<parent, refs, queued, check>>

\* The scheduler thread hands a check that is due to the dispatcher.
Fire ==
  /\ \/ current = 0 /\ current' = NoTime /\ UNCHANGED timers
     \/ 0 \in timers /\ timers' = timers \ {0} /\ UNCHANGED current
  /\ queued' = TRUE
  /\ UNCHANGED <<items, check>>

\* checkDecay empties the buckets that are due; it stays at the next.
CheckBegin ==
  /\ queued /\ ~checking
  /\ LET due == {e \in decayMap : e[1] = 0} IN
       /\ temp' = {e[2] : e \in due}
       /\ decayMap' = decayMap \ due
       /\ next' = IF decayMap = due THEN End ELSE First(decayMap \ due)
  /\ checking' = TRUE
  /\ queued' = FALSE
  /\ UNCHANGED <<item, parent, refs, events>>

\* The bucket under the iterator is erased with its last item.
Follow(m) ==
  next' = IF next # End /\ \A e \in m : e[1] # next THEN Dangling ELSE next

\* Mutant: an expired item is worked off as if it were still in the map.
StaleExpired(S, i) == [S EXCEPT !.refs[i] = @ - 1]

\* setDecaying(DECAYING_FALSE), and the ReleaseItem at the end of the loop.
Expired(S, i) ==
  [S EXCEPT !.item[i].decaying = "FALSE", !.item[i].stamp = NoTime,
            !.refs[i] = @ - 1]

\* The duration of an item without time stamp is the low half of a number.
CheckItem(i) ==
  /\ i \in temp
  /\ IF CanDecay(Now, i)
       THEN DecayIn(Expired(Now, i), i)
       ELSE /\ \E d \in IF item[i].decaying = "TRUE" /\ item[i].stamp = NoTime
                          THEN {0, MaxTime} ELSE {GetDuration(item[i])} :
                 Become(Expired([Now EXCEPT !.item[i].duration = d], i))
            /\ UNCHANGED events
  /\ temp' = temp \ {i}
  /\ Follow(decayMap')
  /\ UNCHANGED <<queued, checking>>

\* Mutant: the next check is left to the next startDecay.
LastCheckEnd ==
  /\ checking /\ temp = {}
  /\ checking' = FALSE /\ next' = End
  /\ UNCHANGED <<items, events, queued, temp>>

\* Reading through the dangling iterator yields any moment: the one that was
\* there, or one of a bucket that got its memory.
CheckEnd ==
  /\ checking /\ temp = {}
  /\ IF next = End THEN UNCHANGED events
     ELSE \E d \in IF next = Dangling THEN Time ELSE {next} :
            AddEvent(Larger(MinTicks, d))
  /\ checking' = FALSE /\ next' = End
  /\ UNCHANGED <<items, queued, temp>>

-----------------------------------------------------------------------------

Init ==
  /\ \E w \in Worlds :
       /\ parent = w[2]
       /\ item = [i \in Item |->
            [type |-> w[1][i], decaying |-> "FALSE", stamp |-> NoTime,
             duration |-> IF DecayTime[w[1][i]] > 0 THEN DecayTime[w[1][i]] ELSE NoTime]]
       /\ refs = [i \in Item |-> IF w[2][i] = Nowhere THEN 0 ELSE 1]
  /\ decayMap = {} /\ current = NoTime /\ timers = {} /\ queued = FALSE
  /\ temp = {} /\ checking = FALSE /\ next = End

\* What the game and the scripts do to item i.
Touch(i) ==
  \/ Start(i) \/ Stop(i) \/ Remove(i) \/ Destroy(i)
  \/ \E d \in Durations : SetDuration(i, d)
  \/ \E t \in Type : Transform(i, t)
  \/ \E t \in Newborn, l \in Item \cup {World} : Create(i, t, l)

Check == CheckBegin \/ (\E i \in Item : CheckItem(i)) \/ CheckEnd

Next == (\E i \in Item : Touch(i)) \/ Tick \/ Fire \/ Check

Spec == Init /\ [][Next]_vars

\* The clock runs, the scheduler thread fires what is due, and the dispatcher
\* gets to every task; nothing obliges anyone to touch an item.
FairSpec == Spec /\ WF_vars(Tick) /\ WF_vars(Fire) /\ WF_vars(Check)

-----------------------------------------------------------------------------
(* Properties *)

\* As long as something decays a check will come for it: one is with the
\* dispatcher, or planned for no later than the first moment in the map (or
\* SCHEDULER_MINTICKS from now, whichever is later).  After a check that ends
\* on an iterator that dangles (IteratorValid) it may come later than that.
CheckPlanned ==
  ~checking /\ decayMap # {} =>
    \/ queued
    \/ \E t \in timers \cup {current} :
         t # NoTime /\ t <= Larger(MinTicks, First(decayMap))

\* Outside of a check an item counts as decaying exactly if it is in the
\* map, once, under its time stamp: else it would never decay, or twice.
StampMatchesMap ==
  ~checking =>
    /\ \A i \in Item : item[i].decaying = "TRUE" => InMap(Now, i)
    /\ \A e \in decayMap : /\ item[e[2]].decaying = "TRUE"
                           /\ item[e[2]].stamp = e[1]

\* Every entry of the map and of tempItems holds a reference, and nothing
\* else does but the parent: no item the map points to is deleted.
ReferencesHeld ==
  \A i \in Item :
    refs[i] = Cardinality({e \in decayMap : e[2] = i})
              + Cardinality(temp \cap {i})
              + (IF Alive(i) THEN 1 ELSE 0)

\* Nothing in the map has left the world, itself or with what it lay in.
NoDecayOutside ==
  ~checking => \A e \in decayMap : ~IsRemoved(Now, e[2])

\* Changing an item to a type that keeps time, and back, does not give it
\* new time: a ring taken off and put on lasts no longer.
NoTimeWon ==
  [][\A i \in Item : \A t \in Type :
       Transform(i, t) /\ (StopTime[t] \/ StopTime[item[i].type])
                       /\ item[i].duration # NoTime /\ item'[i].duration # NoTime
                       /\ item'[i].type = t
         => GetDuration(item'[i]) <= GetDuration(item[i])]_vars

\* What decays and is left alone leaves the map: it decays or has decayed.
DecayEnds ==
  \A i \in Item :
    \/ []<>(\A e \in decayMap : e[2] # i)
    \/ []<><<Touch(i)>>_vars

\* checkDecay's iterator points at a bucket that is there: "Iterating here is
\* unsafe so let's copy our items into temporary vector".
IteratorValid == next # Dangling
=============================================================================
