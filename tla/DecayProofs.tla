----------------------------- MODULE DecayProofs -----------------------------
(***************************************************************************)
(* Decay.tla for any items and types: what counts as decaying is in the    *)
(* map once, under its time stamp and in the world, and the references are *)
(* those of the map, of the check under way and of the parent.             *)
(*                                                                         *)
(* The functions of Decay and Game change a record S of the items; T are   *)
(* the items a check has taken out of the map and not worked off.          *)
(***************************************************************************)
EXTENDS Decay, FiniteSetTheorems, WellFoundedInduction, TLAPS

State == [item : [Item -> Attributes],
          parent : [Item -> Item \cup {World, Nowhere}],
          map : SUBSET (Time \X Item),
          refs : [Item -> Int]]

\* What lies in an item lies directly in it.
Shallow(S) == \A i \in Item : S.parent[i] \in Item => S.parent[S.parent[i]] \notin Item

\* An entry of the map is under the stamp of its item: there is one at most.
Stamped(S, T) ==
  \A e \in S.map : /\ S.item[e[2]].stamp = e[1]
                   /\ S.item[e[2]].decaying # "FALSE"
                   /\ e[2] \notin T

\* What is in the map decays, could decay and is in the world, but for items
\* X that are about to be stopped or started.
SettledBut(S, X) ==
  \A i \in Item \ X :
    InMap(S, i) => /\ S.item[i].decaying = "TRUE"
                   /\ DecayTime[S.item[i].type] > 0
                   /\ ~IsRemoved(S, i)

\* What decays is in the map, or with the check.
NoneLost(S, T) == \A i \in Item \ T : S.item[i].decaying = "TRUE" => InMap(S, i)

One(b) == IF b THEN 1 ELSE 0

Counted(S, T) ==
  \A i \in Item : S.refs[i] = One(InMap(S, i)) + One(i \in T) + One(S.parent[i] # Nowhere)

GoodBut(S, T, X) ==
  /\ S \in State /\ T \in SUBSET Item
  /\ Shallow(S) /\ Stamped(S, T) /\ SettledBut(S, X) /\ NoneLost(S, T) /\ Counted(S, T)

Good(S, T) == GoodBut(S, T, {})

\* The inductive invariant.
DecayInv == Good(Now, temp) /\ (checking \/ temp = {})

-----------------------------------------------------------------------------
(* Stopping and removing *)

\* What Game::stopDecay finds in the map, of the items X.
FoundIn(S, X) == {i \in X : S.item[i].decaying # "FALSE" /\ InMap(S, i)}

\* Game::stopDecay of the items X.
LEMMA StopIs ==
  ASSUME NEW S \in State, NEW X \in SUBSET Item
  PROVE  /\ StopAll(S, X) \in State
         /\ StopAll(S, X).parent = S.parent
         /\ StopAll(S, X).map =
              {e \in S.map : e \notin {<<S.item[i].stamp, i>> : i \in FoundIn(S, X)}}
         /\ \A i \in Item : StopAll(S, X).item[i] =
              IF i \in X /\ S.item[i].decaying # "FALSE"
                THEN Stopped(S.item[i], i \in FoundIn(S, X)) ELSE S.item[i]
         /\ \A i \in Item : StopAll(S, X).refs[i] =
              S.refs[i] - (IF i \in FoundIn(S, X) THEN 1 ELSE 0)
         /\ \A i \in Item :
              /\ Stopped(S.item[i], i \in FoundIn(S, X)).stamp = NoTime
              /\ Stopped(S.item[i], i \in FoundIn(S, X)).decaying =
                   IF i \in FoundIn(S, X) \/ S.item[i].stamp = NoTime THEN "FALSE"
                   ELSE S.item[i].decaying
<1> DEFINE found == FoundIn(S, X)
           R == StopAll(S, X)
<1> HIDE DEF found
<1>2. ASSUME NEW i \in Item
      PROVE  /\ Stopped(S.item[i], i \in found) \in Attributes
             /\ Stopped(S.item[i], i \in found).stamp = NoTime
             /\ Stopped(S.item[i], i \in found).decaying =
                  IF i \in found \/ S.item[i].stamp = NoTime THEN "FALSE" ELSE S.item[i].decaying
  <2>1. S.item[i] \in Attributes
    BY DEF State
  <2> QED
    BY <2>1, DecayAssumption DEF Stopped, Attributes, GetDuration, DurationOf, Time
<1>3. /\ R \in State
      /\ R.parent = S.parent
      /\ R.map = {e \in S.map : e \notin {<<S.item[i].stamp, i>> : i \in found}}
      /\ \A i \in Item : R.item[i] = IF i \in X /\ S.item[i].decaying # "FALSE"
                                       THEN Stopped(S.item[i], i \in found) ELSE S.item[i]
      /\ \A i \in Item : R.refs[i] = S.refs[i] - (IF i \in found THEN 1 ELSE 0)
  <2>1. [i \in Item |-> IF i \in X /\ S.item[i].decaying # "FALSE"
                          THEN Stopped(S.item[i], i \in found) ELSE S.item[i]]
          \in [Item -> Attributes]
    BY <1>2 DEF State
  <2>2. [i \in Item |-> S.refs[i] - (IF i \in found THEN 1 ELSE 0)] \in [Item -> Int]
    BY DEF State
  <2>3. {e \in S.map : e \notin {<<S.item[i].stamp, i>> : i \in found}} \in SUBSET (Time \X Item)
    BY DEF State
  <2>4. R = [S EXCEPT
               !.item = [i \in Item |-> IF i \in X /\ S.item[i].decaying # "FALSE"
                                          THEN Stopped(S.item[i], i \in found) ELSE S.item[i]],
               !.map = {e \in S.map : e \notin {<<S.item[i].stamp, i>> : i \in found}},
               !.refs = [i \in Item |-> S.refs[i] - (IF i \in found THEN 1 ELSE 0)]]
    BY DEF StopAll, found, FoundIn
  <2> HIDE DEF R
  <2> QED
    BY <2>1, <2>2, <2>3, <2>4 DEF State
<1> HIDE DEF R
<1> QED
  BY <1>2, <1>3 DEF found, R

\* Game::stopDecay settles what was not, and touches nothing else.
LEMMA StopKeeps ==
  ASSUME NEW S, NEW T, NEW X \in SUBSET Item, GoodBut(S, T, X)
  PROVE  /\ Good(StopAll(S, X), T)
         /\ StopAll(S, X).parent = S.parent
         /\ StopAll(S, X).map \subseteq S.map
<1> DEFINE found == FoundIn(S, X)
           R == StopAll(S, X)
<1>1. /\ S \in State /\ T \in SUBSET Item /\ Shallow(S) /\ Stamped(S, T)
      /\ SettledBut(S, X) /\ NoneLost(S, T) /\ Counted(S, T)
  BY DEF GoodBut
<1> HIDE DEF found
<1>2. \A i \in Item : /\ Stopped(S.item[i], i \in found).stamp = NoTime
                      /\ Stopped(S.item[i], i \in found).decaying =
                           IF i \in found \/ S.item[i].stamp = NoTime THEN "FALSE"
                           ELSE S.item[i].decaying
  BY <1>1, StopIs DEF found
<1>3. /\ R \in State
      /\ R.parent = S.parent
      /\ R.map = {e \in S.map : e \notin {<<S.item[i].stamp, i>> : i \in found}}
      /\ \A i \in Item : R.item[i] = IF i \in X /\ S.item[i].decaying # "FALSE"
                                       THEN Stopped(S.item[i], i \in found) ELSE S.item[i]
      /\ \A i \in Item : R.refs[i] = S.refs[i] - (IF i \in found THEN 1 ELSE 0)
  BY <1>1, StopIs DEF found
<1> HIDE DEF R
<1>4. \A i \in Item : i \in found <=> i \in X /\ InMap(S, i)
  BY <1>1 DEF Stamped, InMap, found, FoundIn
<1>5. \A e \in S.map : e \in R.map <=> e[2] \notin found
  <2> TAKE e \in S.map
  <2>1. e = <<S.item[e[2]].stamp, e[2]>> /\ e[2] \in Item
    BY <1>1 DEF State, Stamped
  <2>2. e \in {<<S.item[i].stamp, i>> : i \in found} <=> e[2] \in found
    BY <2>1
  <2> QED
    BY <1>3, <2>2
<1>6. \A i \in Item \ found : R.item[i] = S.item[i] \/
         (i \in X /\ ~InMap(S, i) /\ R.item[i].decaying \in {S.item[i].decaying, "FALSE"} /\ R.item[i].stamp = NoTime)
  BY <1>1, <1>2, <1>3, <1>4 DEF State
<1>7. \A i \in found : R.item[i].decaying = "FALSE" /\ R.item[i].stamp = NoTime
  <2>1. \A i \in found : i \in X /\ S.item[i].decaying # "FALSE"
    BY DEF found, FoundIn
  <2> QED
    BY <1>2, <1>3, <2>1
<1>n. \A i \in Item : <<NoTime, i>> \notin S.map
  BY <1>1, DecayAssumption DEF State, Time
<1>8. \A i \in Item : InMap(R, i) <=> InMap(S, i) /\ i \notin found
  <2> TAKE i \in Item
  <2>1. CASE i \in found
    BY <1>3, <1>7, <1>n, <2>1 DEF InMap
  <2>2. CASE i \notin found
    BY <1>3, <1>5, <1>6, <1>n, <2>2 DEF InMap
  <2> QED
    BY <2>1, <2>2
<1>9. Stamped(R, T)
  <2> SUFFICES ASSUME NEW e \in R.map
               PROVE  /\ R.item[e[2]].stamp = e[1] /\ R.item[e[2]].decaying # "FALSE"
                      /\ e[2] \notin T
    BY DEF Stamped
  <2>1. e \in S.map /\ e[2] \in Item /\ e = <<e[1], e[2]>>
    BY <1>1, <1>3 DEF State
  <2>2. /\ S.item[e[2]].stamp = e[1] /\ S.item[e[2]].decaying # "FALSE" /\ e[2] \notin T
        /\ InMap(S, e[2]) /\ e[2] \notin found
    BY <1>1, <1>5, <2>1 DEF Stamped, InMap
  <2> QED
    BY <1>6, <2>1, <2>2
<1>10. SettledBut(R, {})
  <2> SUFFICES ASSUME NEW i \in Item, InMap(R, i)
               PROVE  /\ R.item[i].decaying = "TRUE" /\ DecayTime[R.item[i].type] > 0
                      /\ ~IsRemoved(R, i)
    BY DEF SettledBut
  <2>1. InMap(S, i) /\ i \notin found /\ i \notin X /\ R.item[i] = S.item[i]
    BY <1>4, <1>6, <1>8
  <2> QED
    BY <1>1, <1>3, <2>1 DEF SettledBut, IsRemoved
<1>11. NoneLost(R, T)
  <2> SUFFICES ASSUME NEW i \in Item \ T, R.item[i].decaying = "TRUE"
               PROVE  InMap(R, i)
    BY DEF NoneLost
  <2>1. i \notin found /\ S.item[i].decaying = "TRUE"
    BY <1>6, <1>7
  <2> QED
    BY <1>1, <1>8, <2>1 DEF NoneLost
<1>12. Counted(R, T)
  <2> SUFFICES ASSUME NEW i \in Item
               PROVE  R.refs[i] = One(InMap(R, i)) + One(i \in T) + One(R.parent[i] # Nowhere)
    BY DEF Counted
  <2>1. S.refs[i] = One(InMap(S, i)) + One(i \in T) + One(S.parent[i] # Nowhere)
    BY <1>1 DEF Counted
  <2> QED
    BY <1>3, <1>4, <1>8, <2>1 DEF One
<1>13. Shallow(R)
  BY <1>1, <1>3 DEF Shallow
<1> QED
  BY <1>1, <1>3, <1>9, <1>10, <1>11, <1>12, <1>13 DEF Good, GoodBut, R

\* internalRemoveItem stops what goes out of the world with an item.
LEMMA RemovedKeeps ==
  ASSUME NEW S, NEW T, NEW i \in Item, Good(S, T), S.parent[i] # Nowhere
  PROVE  /\ Good(Removed(S, i), T)
         /\ Removed(S, i).parent = [S.parent EXCEPT ![i] = Nowhere]
         /\ Removed(S, i).map \subseteq S.map
<1> DEFINE U == [S EXCEPT !.parent[i] = Nowhere, !.refs[i] = @ - 1]
           X == {i} \cup Contents(S, i)
<1>1. /\ S \in State /\ T \in SUBSET Item /\ Shallow(S) /\ Stamped(S, T)
      /\ SettledBut(S, {}) /\ NoneLost(S, T) /\ Counted(S, T)
  BY DEF Good, GoodBut
<1>2. /\ U \in State /\ U.item = S.item /\ U.map = S.map
      /\ U.parent = [S.parent EXCEPT ![i] = Nowhere]
      /\ \A j \in Item : U.parent[j] = IF j = i THEN Nowhere ELSE S.parent[j]
      /\ \A j \in Item : U.refs[j] = IF j = i THEN S.refs[i] - 1 ELSE S.refs[j]
  <2>1. [S.parent EXCEPT ![i] = Nowhere] \in [Item -> Item \cup {World, Nowhere}]
    BY <1>1 DEF State
  <2>2. [S.refs EXCEPT ![i] = @ - 1] \in [Item -> Int]
    BY <1>1 DEF State
  <2>3. U = [S EXCEPT !.parent = [S.parent EXCEPT ![i] = Nowhere],
                      !.refs = [S.refs EXCEPT ![i] = @ - 1]]
    BY <1>1 DEF State
  <2> HIDE DEF U
  <2> QED
    BY <1>1, <2>1, <2>2, <2>3 DEF State
<1>3. Removed(S, i) = StopAll(U, X) /\ X \in SUBSET Item
  BY DEF Removed, Contents
<1> HIDE DEF U
<1>4. Shallow(U)
  BY <1>1, <1>2, DecayAssumption DEF Shallow
<1>5. Stamped(U, T) /\ NoneLost(U, T)
  BY <1>1, <1>2 DEF Stamped, NoneLost, InMap
<1>6. SettledBut(U, X)
  <2> SUFFICES ASSUME NEW j \in Item \ X, InMap(U, j)
               PROVE  /\ U.item[j].decaying = "TRUE" /\ DecayTime[U.item[j].type] > 0
                      /\ ~IsRemoved(U, j)
    BY DEF SettledBut
  <2>1. /\ S.item[j].decaying = "TRUE" /\ DecayTime[S.item[j].type] > 0
        /\ ~IsRemoved(S, j)
    BY <1>1, <1>2 DEF SettledBut, InMap
  <2>2. j # i /\ S.parent[j] # i
    BY DEF Contents
  <2>3. ~IsRemoved(U, j)
    BY <1>2, <2>1, <2>2 DEF IsRemoved
  <2> QED
    BY <1>2, <2>1, <2>3
<1>7. Counted(U, T)
  <2> SUFFICES ASSUME NEW j \in Item
               PROVE  U.refs[j] = One(InMap(U, j)) + One(j \in T) + One(U.parent[j] # Nowhere)
    BY DEF Counted
  <2>1. S.refs[j] = One(InMap(S, j)) + One(j \in T) + One(S.parent[j] # Nowhere)
    BY <1>1 DEF Counted
  <2>2. InMap(U, j) <=> InMap(S, j)
    BY <1>2 DEF InMap
  <2> QED
    BY <1>2, <2>1, <2>2 DEF One
<1> HIDE DEF X
<1>8. GoodBut(U, T, X)
  BY <1>1, <1>2, <1>4, <1>5, <1>6, <1>7 DEF GoodBut
<1> QED
  BY <1>2, <1>3, <1>8, StopKeeps

-----------------------------------------------------------------------------
(* Creating and starting *)

\* The next state of the items is the record the variables become.
LEMMA BecomeNow ==
  ASSUME NEW R \in State, Become(R)
  PROVE  Now' = R
BY DEF Become, Now, State

Free(S, T, j) ==
  j \notin T /\ S.parent[j] = Nowhere /\ Contents(S, j) = {} /\ \A e \in S.map : e[2] # j

\* A dead item is in no map, check or place.
LEMMA DeadIsFree ==
  ASSUME NEW S, NEW T, Good(S, T), NEW j \in Dead(S)
  PROVE  j \in Item /\ Free(S, T, j)
<1>1. j \in Item /\ S.refs[j] = 0 /\ Contents(S, j) = {}
  BY DEF Dead
<1>2. 0 = One(InMap(S, j)) + One(j \in T) + One(S.parent[j] # Nowhere)
  BY <1>1 DEF Good, GoodBut, Counted
<1>3. ~InMap(S, j) /\ j \notin T /\ S.parent[j] = Nowhere
  BY <1>2 DEF One
<1>4. \A e \in S.map : e[2] # j
  <2> SUFFICES ASSUME NEW e \in S.map, e[2] = j PROVE FALSE
    OBVIOUS
  <2>1. S.item[j].stamp = e[1] /\ e = <<e[1], e[2]>>
    BY DEF Good, GoodBut, State, Stamped
  <2> QED
    BY <1>3, <2>1 DEF InMap
<1> QED
  BY <1>1, <1>3, <1>4 DEF Free

\* startDecay leaves an item stopped, started, or as it should be: it may
\* start with an item that is in the map if that will be noticed.
Ready(S, i) ==
  /\ InMap(S, i) /\ ~CanDecay(S, i) => S.item[i].decaying \in {"TRUE", "STOPPING"}
  /\ CanDecay(S, i) /\ S.item[i].decaying \notin {"TRUE", "STOPPING"} =>
       S.item[i].duration \in Time

\* Item::CreateItem makes an item that startDecay can take.
LEMMA CreatedKeeps ==
  ASSUME NEW S, NEW T, NEW j \in Item, NEW t \in Type, NEW l,
         Good(S, T), Free(S, T, j),
         l = World \/ (l \in Item /\ l # j /\ S.parent[l] = World)
  PROVE  /\ GoodBut(Created(S, j, t, l), T, {j}) /\ Ready(Created(S, j, t, l), j)
         /\ Created(S, j, t, l).map = S.map
<1> DEFINE R == Created(S, j, t, l)
           a == [type |-> t, decaying |-> "FALSE", stamp |-> NoTime,
                 duration |-> IF DecayTime[t] > 0 THEN DecayTime[t] ELSE NoTime]
<1>1. /\ S \in State /\ T \in SUBSET Item /\ Shallow(S) /\ Stamped(S, T)
      /\ SettledBut(S, {}) /\ NoneLost(S, T) /\ Counted(S, T)
  BY DEF Good, GoodBut
<1>2. a \in Attributes
  BY DecayAssumption DEF Attributes, Time
<1>3. a.decaying = "FALSE" /\ (DecayTime[t] > 0 => a.duration \in Time) /\ a.type = t
  BY DecayAssumption DEF Time
<1> HIDE DEF a
<1>4. /\ R \in State /\ R.map = S.map
      /\ \A i \in Item : R.item[i] = IF i = j THEN a ELSE S.item[i]
      /\ \A i \in Item : R.parent[i] = IF i = j THEN l ELSE S.parent[i]
      /\ \A i \in Item : R.refs[i] = IF i = j THEN 1 ELSE S.refs[i]
  <2>1. [S.item EXCEPT ![j] = a] \in [Item -> Attributes]
    BY <1>1, <1>2 DEF State
  <2>2. [S.parent EXCEPT ![j] = l] \in [Item -> Item \cup {World, Nowhere}]
    BY <1>1 DEF State
  <2>3. [S.refs EXCEPT ![j] = 1] \in [Item -> Int]
    BY <1>1 DEF State
  <2>4. R = [S EXCEPT !.item = [S.item EXCEPT ![j] = a],
                      !.parent = [S.parent EXCEPT ![j] = l],
                      !.refs = [S.refs EXCEPT ![j] = 1]]
    BY <1>1 DEF Created, State, a
  <2> HIDE DEF R
  <2> QED
    BY <1>1, <2>1, <2>2, <2>3, <2>4 DEF State
<1> HIDE DEF R
<1>5. \A e \in S.map : e[2] \in Item \ {j}
  BY <1>1 DEF Free, State
<1>6. ~InMap(R, j) /\ ~InMap(S, j) /\ \A i \in Item \ {j} : InMap(R, i) <=> InMap(S, i)
  BY <1>4, <1>5 DEF InMap
<1>7. \A i \in Item : S.parent[i] # j
  BY DEF Free, Contents
<1>8. Shallow(R)
  BY <1>1, <1>4, <1>7, DecayAssumption DEF Shallow
<1>9. Stamped(R, T)
  BY <1>1, <1>4, <1>5 DEF Stamped
<1>10. SettledBut(R, {j})
  <2> SUFFICES ASSUME NEW i \in Item \ {j}, InMap(R, i)
               PROVE  /\ R.item[i].decaying = "TRUE" /\ DecayTime[R.item[i].type] > 0
                      /\ ~IsRemoved(R, i)
    BY DEF SettledBut
  <2>1. /\ S.item[i].decaying = "TRUE" /\ DecayTime[S.item[i].type] > 0
        /\ ~IsRemoved(S, i)
    BY <1>1, <1>6 DEF SettledBut
  <2>2. ~IsRemoved(R, i)
    BY <1>4, <1>7, <2>1 DEF IsRemoved
  <2> QED
    BY <1>4, <2>1, <2>2
<1>11. NoneLost(R, T)
  BY <1>1, <1>3, <1>4, <1>6 DEF NoneLost
<1>12. Counted(R, T)
  <2> SUFFICES ASSUME NEW i \in Item
               PROVE  R.refs[i] = One(InMap(R, i)) + One(i \in T) + One(R.parent[i] # Nowhere)
    BY DEF Counted
  <2>1. S.refs[i] = One(InMap(S, i)) + One(i \in T) + One(S.parent[i] # Nowhere)
    BY <1>1 DEF Counted
  <2>2. CASE i = j
    <3>1. l # Nowhere
      BY DecayAssumption
    <3> QED
      BY <1>4, <1>6, <2>2, <3>1 DEF One, Free
  <2>3. CASE i # j
    BY <1>4, <1>6, <2>1, <2>3 DEF One
  <2> QED
    BY <2>2, <2>3
<1>13. Ready(R, j)
  BY <1>3, <1>4, <1>6 DEF Ready, CanDecay
<1> QED
  BY <1>1, <1>4, <1>8, <1>9, <1>10, <1>11, <1>12, <1>13 DEF GoodBut, R

\* Decay::startDecay puts an item into the map that can decay, in place of an
\* entry it may have.
LEMMA StartKeeps ==
  ASSUME NEW S, NEW T, NEW i \in Item \ T, GoodBut(S, T, {i}),
         CanDecay(S, i), S.item[i].duration \in Time, StartIn(S, i)
  PROVE  Good(Now', T)
<1> DEFINE a == S.item[i]
           at == a.duration
           found == InMap(S, i)
           m == IF found THEN S.map \ {<<a.stamp, i>>} ELSE S.map
           n == S.refs[i] - (IF found THEN 1 ELSE 0)
           R == [S EXCEPT !.item[i].decaying = "TRUE", !.item[i].stamp = at,
                          !.map = m \cup {<<at, i>>}, !.refs[i] = n + 1]
<1>1. /\ S \in State /\ T \in SUBSET Item /\ Shallow(S) /\ Stamped(S, T)
      /\ SettledBut(S, {i}) /\ NoneLost(S, T) /\ Counted(S, T)
  BY DEF GoodBut
<1>2. Become(R)
  BY DEF StartIn
<1>3. /\ R \in State /\ R.parent = S.parent
      /\ R.map = m \cup {<<at, i>>}
      /\ \A j \in Item : j # i => R.item[j] = S.item[j] /\ R.refs[j] = S.refs[j]
      /\ R.item[i].type = a.type /\ R.item[i].decaying = "TRUE" /\ R.item[i].stamp = at
      /\ R.refs[i] = n + 1
  <2>1. a \in Attributes
    BY <1>1 DEF State
  <2> DEFINE b == [a EXCEPT !.decaying = "TRUE", !.stamp = at]
  <2>2. b \in Attributes /\ b.type = a.type /\ b.decaying = "TRUE" /\ b.stamp = at
    BY <2>1 DEF Attributes
  <2>3. m \cup {<<at, i>>} \in SUBSET (Time \X Item)
    BY <1>1 DEF State
  <2>4. n + 1 \in Int
    BY <1>1 DEF State
  <2>5. R = [S EXCEPT !.item = [S.item EXCEPT ![i] = b],
                      !.map = m \cup {<<at, i>>},
                      !.refs = [S.refs EXCEPT ![i] = n + 1]]
    BY <1>1 DEF State
  <2> HIDE DEF b, m, n, R
  <2>6. [S.item EXCEPT ![i] = b] \in [Item -> Attributes]
    BY <1>1, <2>2 DEF State
  <2>7. [S.refs EXCEPT ![i] = n + 1] \in [Item -> Int]
    BY <1>1, <2>4 DEF State
  <2> QED
    BY <1>1, <2>2, <2>3, <2>5, <2>6, <2>7 DEF State
<1> HIDE DEF R
<1>4. \A e \in m : e[2] # i /\ e \in S.map
  <2> SUFFICES ASSUME NEW e \in m, e[2] = i PROVE FALSE
    OBVIOUS
  <2>1. e \in S.map /\ e = <<e[1], i>> /\ e[1] = a.stamp
    BY <1>1 DEF State, Stamped
  <2> QED
    BY <2>1 DEF InMap
<1>5. \A e \in S.map : e[2] # i => e \in m
  OBVIOUS
<1> HIDE DEF m
<1>6. InMap(R, i) /\ \A j \in Item : j # i => (InMap(R, j) <=> InMap(S, j))
  BY <1>3, <1>4, <1>5 DEF InMap
<1>7. Shallow(R)
  BY <1>1, <1>3 DEF Shallow
<1>8. Stamped(R, T)
  <2> SUFFICES ASSUME NEW e \in R.map
               PROVE  /\ R.item[e[2]].stamp = e[1] /\ R.item[e[2]].decaying # "FALSE"
                      /\ e[2] \notin T
    BY DEF Stamped
  <2>1. CASE e = <<at, i>>
    BY <1>3, <2>1
  <2>2. CASE e \in m
    BY <1>1, <1>3, <1>4, <2>2 DEF Stamped, State
  <2> QED
    BY <1>3, <2>1, <2>2
<1>9. SettledBut(R, {})
  <2> SUFFICES ASSUME NEW j \in Item, InMap(R, j)
               PROVE  /\ R.item[j].decaying = "TRUE" /\ DecayTime[R.item[j].type] > 0
                      /\ ~IsRemoved(R, j)
    BY DEF SettledBut
  <2>1. CASE j = i
    BY <1>3, <2>1 DEF CanDecay, IsRemoved
  <2>2. CASE j # i
    BY <1>1, <1>3, <1>6, <2>2 DEF SettledBut, IsRemoved
  <2> QED
    BY <2>1, <2>2
<1>10. NoneLost(R, T)
  BY <1>1, <1>3, <1>6 DEF NoneLost
<1>11. Counted(R, T)
  <2> SUFFICES ASSUME NEW j \in Item
               PROVE  R.refs[j] = One(InMap(R, j)) + One(j \in T) + One(R.parent[j] # Nowhere)
    BY DEF Counted
  <2>1. S.refs[j] = One(InMap(S, j)) + One(j \in T) + One(S.parent[j] # Nowhere)
    BY <1>1 DEF Counted
  <2> QED
    BY <1>3, <1>6, <2>1 DEF One
<1>12. Good(R, T)
  BY <1>1, <1>3, <1>7, <1>8, <1>9, <1>10, <1>11 DEF Good, GoodBut
<1>13. Now' = R
  BY <1>2, <1>3, BecomeNow
<1> QED
  BY <1>12, <1>13

-----------------------------------------------------------------------------
(* The planned checks *)

\* There is a first moment in the map.
LEMMA FirstIs ==
  ASSUME NEW m \in SUBSET (Time \X Item), m # {}
  PROVE  First(m) \in Time /\ (\A e \in m : First(m) <= e[1]) /\ \E e \in m : e[1] = First(m)
<1> DEFINE moments == {e[1] : e \in m}
<1>1. moments \subseteq Nat /\ moments # {} /\ moments \subseteq Time
  BY DecayAssumption DEF Time
<1> DEFINE less == {p \in Nat \X Nat : p[1] < p[2]}
<1>2. IsWellFoundedOn(less, Nat)
  <2>1. less = OpToRel(<, Nat)
    BY Zenon DEF OpToRel
  <2> QED
    BY <2>1, NatLessThanWellFounded
<1>3. PICK x \in moments : \A y \in moments : ~(<<y, x>> \in less)
  BY <1>1, <1>2, WFMin
<1>4. \A y \in moments : x <= y
  <2>1. \A y, z \in Nat : y < z => <<y, z>> \in less
    OBVIOUS
  <2> HIDE DEF less, moments
  <2>2. \A y \in moments : ~(y < x) /\ x \in Nat /\ y \in Nat
    BY <1>1, <1>3, <2>1
  <2> QED
    BY <2>2
<1>5. \A e \in m : x <= e[1]
  BY <1>4
<1>6. First(m) \in moments /\ \A e \in m : First(m) <= e[1]
  BY <1>3, <1>5 DEF First
<1> QED
  BY <1>1, <1>6

EventsOK == current \in Time \cup {NoTime} /\ timers \in SUBSET Time

\* A check comes for an item that expires at d: it is with the dispatcher,
\* planned, or will be at the end of the one that runs.
Planned(d) ==
  \/ queued
  \/ \E t \in timers \cup {current} : t # NoTime /\ t <= Larger(MinTicks, d)
  \/ checking /\ next \in Time /\ next <= d

\* A step does this for the items that were in the map m.
Plans(m) ==
  /\ EventsOK => EventsOK'
  /\ EventsOK /\ UNCHANGED <<queued, checking, next>> /\ (\A e \in m : Planned(e[1])) =>
       \A e \in decayMap' : Planned(e[1])'

\* Moments are numbers, and those of the checks too.
LEMMA Moments ==
  /\ NoTime \notin Time /\ End \notin Time /\ Dangling \notin Time
  /\ \A d \in Time : Larger(MinTicks, d) \in Time /\ Earlier(d) \in Time
  /\ Earlier(NoTime) = NoTime
<1>1. Time \subseteq Int
  BY DEF Time
<1>2. {NoTime, End, Dangling} \cap Int = {}
  BY DecayAssumption
<1>3. \A d \in Time : Larger(MinTicks, d) \in Time /\ (IF d = 0 THEN d ELSE d - 1) \in Time
  BY DecayAssumption DEF Larger, Time
<1> QED
  BY <1>1, <1>2, <1>3 DEF Earlier

\* Nothing changes for the checks while nothing enters the map.
LEMMA StillPlanned ==
  ASSUME UNCHANGED events, NEW m, decayMap' \subseteq m
  PROVE  Plans(m)
BY DEF Plans, Planned, events, EventsOK

\* A step that does this for m does it for the items of a larger map.
LEMMA PlansMore ==
  ASSUME NEW m, NEW n, m \subseteq n, Plans(m)
  PROVE  Plans(n)
BY DEF Plans

\* What starting an item does to the events.
LEMMA StartPlans ==
  ASSUME NEW S \in State, NEW i \in Item, S.item[i].duration \in Time, StartIn(S, i)
  PROVE  Plans(S.map)
<1> DEFINE at == S.item[i].duration
           delay == Larger(MinTicks, at)
           m == IF InMap(S, i) THEN S.map \ {<<S.item[i].stamp, i>>} ELSE S.map
<1>1. m \subseteq S.map /\ m \in SUBSET (Time \X Item)
  BY DEF State
<1>2. decayMap' = m \cup {<<at, i>>}
  BY DEF StartIn, Become, State
<1>3. IF m = {} THEN AddEvent(delay)
      ELSE IF at < First(m) THEN ReplaceEvent(delay) ELSE UNCHANGED events
  BY DEF StartIn
<1> HIDE DEF m
<1>4. delay \in Time /\ delay # NoTime /\ \A d \in Time : at <= d => delay <= Larger(MinTicks, d)
  BY DecayAssumption DEF Larger, Time
<1> HIDE DEF at, delay
<1>5. CASE m = {}
  <2>1. AddEvent(delay) /\ decayMap' = {<<at, i>>}
    BY <1>2, <1>3, <1>5
  <2>2. EventsOK => EventsOK'
    BY <1>4, <2>1 DEF AddEvent, EventsOK
  <2>3. \A d \in Time : at <= d => Planned(d)'
    BY <1>4, <2>1 DEF AddEvent, Planned
  <2>4. at \in Time /\ at <= at
    BY DecayAssumption DEF Time, at
  <2> QED
    BY <2>1, <2>2, <2>3, <2>4 DEF Plans
<1>6. CASE m # {} /\ at < First(m)
  <2>1. ReplaceEvent(delay) /\ (EventsOK => EventsOK')
    BY <1>3, <1>4, <1>6 DEF ReplaceEvent, EventsOK
  <2>2. \A d \in Time : at <= d => Planned(d)'
    BY <1>4, <2>1 DEF ReplaceEvent, Planned
  <2>3. First(m) \in Time /\ \A e \in m : First(m) <= e[1]
    BY <1>1, <1>6, FirstIs
  <2>4. \A e \in m \cup {<<at, i>>} : e[1] \in Time /\ at <= e[1]
    BY <1>1, <1>6, <2>3, DecayAssumption DEF Time, at
  <2> QED
    BY <1>2, <2>1, <2>2, <2>4 DEF Plans
<1>7. CASE m # {} /\ ~(at < First(m))
  <2>1. UNCHANGED events
    BY <1>3, <1>7
  <2>2. PICK f \in m : f[1] = First(m) /\ f[1] \in Time
    BY <1>1, <1>7, FirstIs
  <2>3. f[1] <= at
    BY <1>7, <2>2, DecayAssumption DEF Time, at
  <2>4. Larger(MinTicks, f[1]) <= Larger(MinTicks, at)
    BY <2>2, <2>3, DecayAssumption DEF Larger, Time, at
  <2>5. EventsOK /\ Planned(f[1]) => Planned(at)
    BY <2>2, <2>3, <2>4, DecayAssumption DEF Planned, Larger, Time, at, EventsOK
  <2>6. EventsOK /\ (\A e \in S.map : Planned(e[1])) => \A e \in decayMap' : Planned(e[1])
    BY <1>1, <1>2, <2>2, <2>5
  <2> QED
    BY <2>1, <2>6 DEF Plans, Planned, events, EventsOK
<1> QED
  BY <1>5, <1>6, <1>7

-----------------------------------------------------------------------------
(* Starting and decaying as a whole *)

\* Game::startDecay of an item that has time left.
LEMMA LaunchKeeps ==
  ASSUME NEW S, NEW T, NEW i \in Item \ T, GoodBut(S, T, {i}), Ready(S, i), LaunchIn(S, i)
  PROVE  Good(Now', T) /\ Plans(S.map)
<1>1. CASE S.item[i].decaying = "STOPPING" \/ (~CanDecay(S, i) /\ S.item[i].decaying = "TRUE")
  <2>1. Become(StopAll(S, {i})) /\ UNCHANGED events /\ {i} \in SUBSET Item
    BY <1>1 DEF LaunchIn
  <2>2. Good(StopAll(S, {i}), T) /\ StopAll(S, {i}).map \subseteq S.map
    BY <2>1, StopKeeps
  <2>3. Now' = StopAll(S, {i})
    BY <2>1, <2>2, BecomeNow DEF Good, GoodBut
  <2> QED
    BY <2>1, <2>2, <2>3, StillPlanned DEF Become
<1>2. CASE /\ ~(S.item[i].decaying = "STOPPING" \/ (~CanDecay(S, i) /\ S.item[i].decaying = "TRUE"))
           /\ ~CanDecay(S, i) \/ S.item[i].decaying = "TRUE"
  <2>1. Become(S) /\ UNCHANGED events
    BY <1>2 DEF LaunchIn
  <2>2. Now' = S
    BY <2>1, BecomeNow DEF GoodBut
  <2>3. InMap(S, i) => S.item[i].decaying = "TRUE" /\ CanDecay(S, i)
    BY <1>2 DEF Ready
  <2>4. SettledBut(S, {})
    BY <2>3 DEF GoodBut, SettledBut, CanDecay
  <2> QED
    BY <2>1, <2>2, <2>4, StillPlanned DEF Good, GoodBut, Become
<1>3. CASE /\ ~(S.item[i].decaying = "STOPPING" \/ (~CanDecay(S, i) /\ S.item[i].decaying = "TRUE"))
           /\ ~(~CanDecay(S, i) \/ S.item[i].decaying = "TRUE")
  BY <1>3, StartKeeps, StartPlans DEF LaunchIn, Ready, GoodBut
<1> QED
  BY <1>1, <1>2, <1>3

\* Item::setID keeps the stamp, and leaves an item with time if it needs some.
LEMMA SetIDLeaves ==
  ASSUME NEW a \in Attributes, NEW t \in Type
  PROVE  /\ SetID(a, t) \in Attributes
         /\ SetID(a, t).type = t /\ SetID(a, t).stamp = a.stamp
         /\ DecayTime[t] > 0 => SetID(a, t).duration \in Time
         /\ \/ SetID(a, t).decaying = a.decaying
            \/ SetID(a, t).decaying = "STOPPING" /\ a.decaying # "FALSE"
            \/ /\ SetID(a, t).decaying = "PENDING"
               /\ DecayTime[t] > 0 /\ SetID(a, t).duration = DecayTime[t]
BY DecayAssumption DEF SetID, Attributes, Time

\* Item i with other attributes but under the same stamp.
Changed(S, i, a) == [S EXCEPT !.item[i] = a]

\* It leaves everything good but item i itself.
LEMMA ChangedKeeps ==
  ASSUME NEW S, NEW T, NEW i \in Item \ T, GoodBut(S, T, {i}), NEW a \in Attributes,
         a.stamp = S.item[i].stamp,
         InMap(S, i) => a.decaying # "FALSE",
         a.decaying = "TRUE" => InMap(S, i),
         NEW R, R = Changed(S, i, a)
  PROVE  /\ GoodBut(R, T, {i})
         /\ R.item[i] = a /\ R.parent = S.parent /\ R.map = S.map
         /\ InMap(R, i) <=> InMap(S, i)
<1>1. /\ S \in State /\ T \in SUBSET Item /\ Shallow(S) /\ Stamped(S, T)
      /\ SettledBut(S, {i}) /\ NoneLost(S, T) /\ Counted(S, T)
  BY DEF GoodBut
<1>2. /\ R \in State /\ R.parent = S.parent /\ R.map = S.map /\ R.refs = S.refs
      /\ R.item[i] = a /\ \A j \in Item : j # i => R.item[j] = S.item[j]
  BY <1>1 DEF State, Changed
<1>3. \A j \in Item : InMap(R, j) <=> InMap(S, j)
  BY <1>2 DEF InMap
<1>4. Stamped(R, T)
  <2> SUFFICES ASSUME NEW e \in R.map
               PROVE  /\ R.item[e[2]].stamp = e[1] /\ R.item[e[2]].decaying # "FALSE"
                      /\ e[2] \notin T
    BY DEF Stamped
  <2>1. /\ e \in S.map /\ e[2] \in Item /\ e = <<e[1], e[2]>>
        /\ S.item[e[2]].stamp = e[1] /\ S.item[e[2]].decaying # "FALSE" /\ e[2] \notin T
    BY <1>1, <1>2 DEF State, Stamped
  <2>2. e[2] = i => InMap(S, i)
    BY <2>1 DEF InMap
  <2> QED
    BY <1>2, <2>1, <2>2
<1>5. SettledBut(R, {i}) /\ NoneLost(R, T) /\ Shallow(R)
  BY <1>1, <1>2, <1>3 DEF SettledBut, NoneLost, Shallow, IsRemoved
<1>6. Counted(R, T)
  BY <1>1, <1>2, <1>3 DEF Counted, One
<1> QED
  BY <1>1, <1>2, <1>3, <1>4, <1>5, <1>6 DEF GoodBut

\* Game::internalDecayItem of an item that is not, or no longer, in the map.
LEMMA DecayKeeps ==
  ASSUME NEW S, NEW T, NEW i \in Item \ T, Good(S, T), ~InMap(S, i),
         S.item[i].decaying # "TRUE", CanDecay(S, i), DecayIn(S, i)
  PROVE  Good(Now', T) /\ Plans(S.map)
<1> DEFINE t == DecayTo[S.item[i].type]
<1>1. /\ S \in State /\ S.item[i] \in Attributes /\ S.parent[i] # Nowhere
      /\ t \in Type \cup {Vanish}
      /\ GoodBut(S, T, {i}) /\ Shallow(S)
  BY DecayAssumption DEF Good, GoodBut, State, SettledBut, CanDecay, IsRemoved, Attributes
<1>2. /\ Good(Removed(S, i), T)
      /\ Removed(S, i).parent = [S.parent EXCEPT ![i] = Nowhere]
      /\ Removed(S, i).map \subseteq S.map
  BY <1>1, RemovedKeeps
<1>3. CASE t = Vanish
  <2>1. Become(Removed(S, i)) /\ UNCHANGED events
    BY <1>3 DEF DecayIn
  <2>2. decayMap' \subseteq S.map
    BY <1>2, <2>1 DEF Become
  <2>3. Plans(S.map)
    BY <2>1, <2>2, StillPlanned
  <2> QED
    BY <1>2, <2>1, <2>3, BecomeNow DEF Good, GoodBut
<1>4. ASSUME t \in Type, LaunchIn([S EXCEPT !.item[i] = SetID(@, t)], i)
      PROVE  Good(Now', T) /\ Plans(S.map)
  <2> DEFINE a == SetID(S.item[i], t)
             R == Changed(S, i, a)
  <2>1. /\ a \in Attributes /\ a.type = t /\ a.stamp = S.item[i].stamp
        /\ DecayTime[t] > 0 => a.duration \in Time
        /\ a.decaying # "TRUE"
    BY <1>1, <1>4, SetIDLeaves
  <2>2. LaunchIn(R, i)
    BY <1>1, <1>4 DEF State, Changed
  <2> HIDE DEF a
  <2>3. GoodBut(R, T, {i}) /\ R.item[i] = a /\ ~InMap(R, i) /\ R.map = S.map
    BY <1>1, <2>1, ChangedKeeps
  <2> HIDE DEF R
  <2>4. Ready(R, i)
    BY <2>1, <2>3 DEF Ready, CanDecay
  <2> QED
    BY <2>2, <2>3, <2>4, LaunchKeeps
<1>5. ASSUME t \in Type, NEW j \in Dead(S),
             LaunchIn(Created(Removed(S, i), j, t, S.parent[i]), j)
      PROVE  Good(Now', T) /\ Plans(S.map)
  <2> DEFINE R == Removed(S, i)
             l == S.parent[i]
  <2>1. j \in Item /\ Free(S, T, j)
    BY DeadIsFree
  <2>2. l = World \/ (l \in Item /\ l # j /\ l # i /\ S.parent[l] = World)
    <3>1. l \in Item \cup {World}
      BY <1>1 DEF State
    <3>2. ASSUME l \in Item PROVE l # j /\ l # i /\ S.parent[l] = World
      <4>1. S.parent[l] # Nowhere /\ S.parent[l] \notin Item
        BY <1>1, <3>2 DEF CanDecay, IsRemoved, Shallow
      <4>2. S.parent[l] = World
        BY <1>1, <3>2, <4>1 DEF State
      <4> QED
        BY <2>1, <3>2, <4>1, <4>2 DEF Free, Contents
    <3> QED
      BY <3>1, <3>2
  <2>3. Free(R, T, j)
    <3>1. j \notin T /\ S.parent[j] = Nowhere /\ Contents(S, j) = {} /\ \A e \in S.map : e[2] # j
      BY <2>1 DEF Free
    <3>2. \A x \in Item : R.parent[x] = IF x = i THEN Nowhere ELSE S.parent[x]
      BY <1>1, <1>2 DEF State
    <3>3. Contents(R, j) = {}
      BY <2>1, <3>1, <3>2, DecayAssumption DEF Contents
    <3> QED
      BY <1>2, <2>1, <3>1, <3>2, <3>3 DEF Free
  <2>4. l = World \/ (l \in Item /\ l # j /\ R.parent[l] = World)
    BY <1>1, <1>2, <2>2 DEF State
  <2>5. LaunchIn(Created(R, j, t, l), j)
    BY <1>5
  <2> HIDE DEF R, l, t
  <2>7. Good(R, T) /\ R.map \subseteq S.map
    BY <1>2 DEF R
  <2>6. /\ GoodBut(Created(R, j, t, l), T, {j}) /\ Ready(Created(R, j, t, l), j)
        /\ Created(R, j, t, l).map = R.map
    BY <1>5, <2>1, <2>3, <2>4, <2>7, CreatedKeeps
  <2>8. Good(Now', T) /\ Plans(R.map)
    BY <2>1, <2>3, <2>5, <2>6, LaunchKeeps DEF Free
  <2> QED
    BY <2>7, <2>8, PlansMore
<1> QED
  BY <1>1, <1>3, <1>4, <1>5, DecayAssumption DEF DecayIn

\* Game::startDecay.
LEMMA BeginKeeps ==
  ASSUME NEW S, NEW T, NEW i \in Item \ T, GoodBut(S, T, {i}),
         InMap(S, i) =>
           \/ S.item[i].decaying \in {"TRUE", "STOPPING"}
           \/ CanDecay(S, i) /\ DurationOf(S.item[i]) # 0,
         BeginIn(S, i)
  PROVE  Good(Now', T) /\ Plans(S.map)
<1>0. S.item[i] \in Attributes
  BY DEF GoodBut, State
<1>1. CASE CanDecay(S, i) /\ S.item[i].decaying \in {"FALSE", "PENDING"} /\ DurationOf(S.item[i]) = 0
  <2>1. DecayIn(S, i) /\ ~InMap(S, i)
    BY <1>1 DEF BeginIn
  <2>2. Good(S, T)
    BY <2>1 DEF Good, GoodBut, SettledBut
  <2> QED
    BY <1>1, <2>1, <2>2, DecayKeeps
<1>2. CASE ~(CanDecay(S, i) /\ S.item[i].decaying \in {"FALSE", "PENDING"} /\ DurationOf(S.item[i]) = 0)
  <2>1. LaunchIn(S, i)
    BY <1>2 DEF BeginIn
  <2>2. Ready(S, i)
    BY <1>0, <1>2 DEF Ready, DurationOf, Attributes
  <2> QED
    BY <2>1, <2>2, LaunchKeeps
<1> QED
  BY <1>1, <1>2

-----------------------------------------------------------------------------
(* Between checks *)

\* An item of which the next state is known to be good.
LEMMA IdleKeeps ==
  ASSUME Idle, Good(Now', {}), DecayInv
  PROVE  DecayInv'
BY DEF Idle, DecayInv, check

\* Starting, stopping and removing an item.
LEMMA StartStopKeeps ==
  ASSUME DecayInv, NEW i \in Item, Start(i) \/ Stop(i) \/ Remove(i)
  PROVE  DecayInv' /\ Plans(decayMap)
<1>1. Idle /\ Alive(i)
  BY DEF Start, Stop, Remove
<1>2. Good(Now, {})
  BY <1>1 DEF DecayInv, Idle
<1>3. GoodBut(Now, {}, {i}) /\ (InMap(Now, i) => Now.item[i].decaying = "TRUE")
  BY <1>2 DEF Good, GoodBut, SettledBut
<1>4. CASE Start(i)
  <2>1. BeginIn(Now, i)
    BY <1>4 DEF Start
  <2>2. Good(Now', {}) /\ Plans(Now.map)
    BY <1>3, <2>1, BeginKeeps
  <2> QED
    BY <1>1, <2>2, IdleKeeps DEF Now
<1>5. CASE Stop(i)
  <2>1. Become(StopAll(Now, {i})) /\ UNCHANGED events /\ {i} \in SUBSET Item
    BY <1>5 DEF Stop
  <2>2. Good(StopAll(Now, {i}), {}) /\ StopAll(Now, {i}).map \subseteq Now.map
    BY <1>3, <2>1, StopKeeps
  <2>3. Now' = StopAll(Now, {i})
    BY <2>1, <2>2, BecomeNow DEF Good, GoodBut
  <2>4. decayMap' \subseteq decayMap
    BY <2>1, <2>2 DEF Become, Now
  <2> QED
    BY <1>1, <2>1, <2>2, <2>3, <2>4, IdleKeeps, StillPlanned
<1>6. CASE Remove(i)
  <2>1. Become(Removed(Now, i)) /\ UNCHANGED events /\ Now.parent[i] # Nowhere
    BY <1>6 DEF Remove, Alive, Now
  <2>2. Good(Removed(Now, i), {}) /\ Removed(Now, i).map \subseteq Now.map
    BY <1>2, <2>1, RemovedKeeps
  <2>3. Now' = Removed(Now, i)
    BY <2>1, <2>2, BecomeNow DEF Good, GoodBut
  <2>4. decayMap' \subseteq decayMap
    BY <2>1, <2>2 DEF Become, Now
  <2> QED
    BY <1>1, <2>1, <2>2, <2>3, <2>4, IdleKeeps, StillPlanned
<1> QED
  BY <1>4, <1>5, <1>6

\* Setting the duration of an item, and changing its type: what is in the map
\* decays, so there is time left.
LEMMA ChangeKeeps ==
  ASSUME DecayInv, NEW i \in Item,
         \/ \E d \in Durations : SetDuration(i, d)
         \/ \E t \in Type : Transform(i, t)
  PROVE  DecayInv' /\ Plans(decayMap)
<1>1. Idle
  BY DEF SetDuration, Transform
<1>2. Good(Now, {})
  BY <1>1 DEF DecayInv, Idle
<1>3. /\ Now \in State /\ Now.item[i] \in Attributes /\ GoodBut(Now, {}, {i})
      /\ InMap(Now, i) => /\ Now.item[i].decaying = "TRUE" /\ ~IsRemoved(Now, i)
                          /\ DecayTime[Now.item[i].type] > 0
      /\ Now.item[i].decaying = "TRUE" => InMap(Now, i)
  BY <1>2 DEF Good, GoodBut, SettledBut, NoneLost, State
<1>4. ASSUME NEW a \in Attributes, a.stamp = Now.item[i].stamp,
             InMap(Now, i) => a.decaying # "FALSE",
             a.decaying = "TRUE" => InMap(Now, i),
             InMap(Now, i) /\ a.decaying = "PENDING" =>
               DecayTime[a.type] > 0 /\ DurationOf(a) # 0,
             BeginIn(Changed(Now, i, a), i)
      PROVE  DecayInv' /\ Plans(decayMap)
  <2> DEFINE R == Changed(Now, i, a)
  <2>1. /\ GoodBut(R, {}, {i}) /\ R.item[i] = a /\ R.parent = Now.parent
        /\ InMap(R, i) <=> InMap(Now, i)
        /\ R.map = decayMap
    BY <1>3, <1>4, ChangedKeeps DEF Now
  <2>2. InMap(R, i) /\ a.decaying = "PENDING" => CanDecay(R, i)
    BY <1>3, <1>4, <2>1, DecayAssumption DEF CanDecay, IsRemoved, Attributes
  <2>3. a.decaying \in {"FALSE", "TRUE", "PENDING", "STOPPING"}
    BY DEF Attributes
  <2> HIDE DEF R
  <2>4. BeginIn(R, i)
    BY <1>4 DEF R
  <2>5. InMap(R, i) => \/ R.item[i].decaying \in {"TRUE", "STOPPING"}
                       \/ CanDecay(R, i) /\ DurationOf(R.item[i]) # 0
    BY <1>4, <2>1, <2>2, <2>3
  <2>6. Good(Now', {}) /\ Plans(R.map)
    BY <2>1, <2>4, <2>5, BeginKeeps
  <2> QED
    BY <1>1, <2>1, <2>6, IdleKeeps
<1>5. ASSUME NEW d \in Durations, SetDuration(i, d)
      PROVE  DecayInv' /\ Plans(decayMap)
  <2> DEFINE a == [Now.item[i] EXCEPT !.decaying = "PENDING", !.duration = d]
  <2>1. /\ a \in Attributes /\ a.stamp = Now.item[i].stamp /\ a.decaying = "PENDING"
        /\ a.type = Now.item[i].type /\ a.duration = d
    <3>1. d \in Time
      BY DecayAssumption DEF Time
    <3> QED
      BY <1>3, <3>1 DEF Attributes
  <2>2. DurationOf(a) # 0
    BY <2>1, DecayAssumption DEF DurationOf
  <2>3. BeginIn(Changed(Now, i, a), i)
    <3>1. Changed(Now, i, a) = [Now EXCEPT !.item[i].decaying = "PENDING", !.item[i].duration = d]
      BY <1>3 DEF Changed, State, Attributes
    <3> QED
      BY <1>5, <3>1 DEF SetDuration
  <2> HIDE DEF a
  <2> QED
    BY <1>3, <1>4, <2>1, <2>2, <2>3
<1>6. ASSUME NEW t \in Type, Transform(i, t)
      PROVE  DecayInv' /\ Plans(decayMap)
  <2> DEFINE a == SetID(Now.item[i], t)
  <2>1. /\ a \in Attributes /\ a.type = t /\ a.stamp = Now.item[i].stamp
        /\ \/ a.decaying = Now.item[i].decaying
           \/ a.decaying = "STOPPING" /\ Now.item[i].decaying # "FALSE"
           \/ a.decaying = "PENDING" /\ DecayTime[t] > 0 /\ a.duration = DecayTime[t]
    BY <1>3, SetIDLeaves
  <2>2. BeginIn(Changed(Now, i, a), i)
    <3>1. Changed(Now, i, a) = [Now EXCEPT !.item[i] = SetID(@, t)]
      BY DEF Changed, Now
    <3> QED
      BY <1>6, <3>1 DEF Transform
  <2> HIDE DEF a
  <2>3. InMap(Now, i) /\ a.decaying = "PENDING" => DecayTime[a.type] > 0 /\ DurationOf(a) # 0
    BY <1>3, <2>1, DecayAssumption DEF DurationOf
  <2> QED
    BY <1>3, <1>4, <2>1, <2>2, <2>3
<1> QED
  BY <1>5, <1>6

\* A new item.
LEMMA CreateKeeps ==
  ASSUME DecayInv, NEW j \in Item, NEW t \in Newborn, NEW l \in Item \cup {World}, Create(j, t, l)
  PROVE  DecayInv' /\ Plans(decayMap)
<1>1. Idle /\ j \in Dead(Now) /\ t \in Type
  BY DecayAssumption DEF Create
<1>2. Good(Now, {})
  BY <1>1 DEF DecayInv, Idle
<1>3. Free(Now, {}, j)
  BY <1>1, <1>2, DeadIsFree
<1>4. l = World \/ (l \in Item /\ l # j /\ Now.parent[l] = World)
  BY DEF Create, Now
<1>5. /\ GoodBut(Created(Now, j, t, l), {}, {j}) /\ Ready(Created(Now, j, t, l), j)
      /\ Created(Now, j, t, l).map = Now.map
  BY <1>1, <1>2, <1>3, <1>4, CreatedKeeps
<1>6. LaunchIn(Created(Now, j, t, l), j)
  BY DEF Create
<1>7. Good(Now', {}) /\ Plans(Now.map)
  BY <1>5, <1>6, LaunchKeeps
<1> QED
  BY <1>1, <1>7, IdleKeeps DEF Now

\* What a dead container lets go of has been stopped when it left the world.
LEMMA DestroyKeeps ==
  ASSUME DecayInv, NEW i \in Item, Destroy(i)
  PROVE  DecayInv'
<1> DEFINE inside == Contents(Now, i)
           S == Now
           R == Now'
<1>1. /\ Idle /\ S.refs[i] = 0
      /\ R.parent = [j \in Item |-> IF j \in inside THEN Nowhere ELSE S.parent[j]]
      /\ R.refs = [j \in Item |-> S.refs[j] - (IF j \in inside THEN 1 ELSE 0)]
      /\ R.item = S.item /\ R.map = S.map
      /\ R = [item |-> R.item, parent |-> R.parent, map |-> R.map, refs |-> R.refs]
  BY DEF Destroy, Now
<1>2. Good(S, {})
  BY <1>1 DEF DecayInv, Idle
<1>3. \A j \in Item : j \in inside <=> S.parent[j] = i
  BY DEF Contents
<1> HIDE DEF S, R, inside
<1>4. /\ S \in State /\ Shallow(S) /\ Stamped(S, {})
      /\ SettledBut(S, {}) /\ NoneLost(S, {}) /\ Counted(S, {})
  BY <1>2 DEF Good, GoodBut
<1>5. S.parent[i] = Nowhere
  BY <1>1, <1>4 DEF Counted, One
<1>6. \A j \in Item : InMap(R, j) <=> InMap(S, j)
  BY <1>1 DEF InMap
<1>7. \A j \in inside : j \in Item => ~InMap(S, j)
  BY <1>3, <1>4, <1>5 DEF SettledBut, IsRemoved
<1>8. R \in State
  <2>1. /\ R.parent \in [Item -> Item \cup {World, Nowhere}] /\ R.refs \in [Item -> Int]
        /\ R.item \in [Item -> Attributes] /\ R.map \in SUBSET (Time \X Item)
    BY <1>1, <1>4 DEF State
  <2> QED
    BY <1>1, <2>1 DEF State
<1>9. Shallow(R)
  BY <1>1, <1>4, DecayAssumption DEF Shallow
<1>10. Stamped(R, {})
  BY <1>1, <1>4 DEF Stamped
<1>11. SettledBut(R, {})
  <2> SUFFICES ASSUME NEW j \in Item, InMap(R, j)
               PROVE  /\ R.item[j].decaying = "TRUE" /\ DecayTime[R.item[j].type] > 0
                      /\ ~IsRemoved(R, j)
    BY DEF SettledBut
  <2>1. /\ S.item[j].decaying = "TRUE" /\ DecayTime[S.item[j].type] > 0 /\ ~IsRemoved(S, j)
    BY <1>4, <1>6 DEF SettledBut
  <2>2. j \notin inside /\ R.parent[j] = S.parent[j]
    BY <1>1, <1>6, <1>7
  <2>3. S.parent[j] \in Item => S.parent[j] \notin inside
    BY <1>3, <1>4 DEF Shallow
  <2>4. ~IsRemoved(R, j)
    BY <1>1, <2>1, <2>2, <2>3 DEF IsRemoved
  <2> QED
    BY <1>1, <2>1, <2>4
<1>12. NoneLost(R, {})
  BY <1>1, <1>4, <1>6 DEF NoneLost
<1>13. Counted(R, {})
  <2> SUFFICES ASSUME NEW j \in Item
               PROVE  R.refs[j] = One(InMap(R, j)) + One(j \in {}) + One(R.parent[j] # Nowhere)
    BY DEF Counted
  <2>1. S.refs[j] = One(InMap(S, j)) + One(j \in {}) + One(S.parent[j] # Nowhere)
    BY <1>4 DEF Counted
  <2>2. j \in inside => S.parent[j] # Nowhere
    BY <1>3, DecayAssumption
  <2>3. S.refs[j] \in Int
    BY <1>4 DEF State
  <2> QED
    BY <1>1, <1>6, <2>1, <2>2, <2>3 DEF One
<1>14. Good(Now', {})
  BY <1>8, <1>9, <1>10, <1>11, <1>12, <1>13 DEF Good, GoodBut, R
<1> QED
  BY <1>1, <1>14, IdleKeeps

-----------------------------------------------------------------------------
(* Time and checks *)

\* Time lowers the stamps of items and of their entries alike.
LEMMA TickKeeps ==
  ASSUME DecayInv, Tick
  PROVE  DecayInv'
<1> DEFINE S == Now
           R == Now'
<1>1. /\ ~checking /\ temp' = temp /\ checking' = checking /\ temp = {}
      /\ R.item = [i \in Item |-> [S.item[i] EXCEPT !.stamp = Earlier(@)]]
      /\ R.map = {<<Earlier(e[1]), e[2]>> : e \in S.map}
      /\ R.parent = S.parent /\ R.refs = S.refs
      /\ R = [item |-> R.item, parent |-> R.parent, map |-> R.map, refs |-> R.refs]
  BY DEF Tick, Now, check, DecayInv
<1>2. /\ S \in State /\ Shallow(S) /\ Stamped(S, {})
      /\ SettledBut(S, {}) /\ NoneLost(S, {}) /\ Counted(S, {})
  BY <1>1 DEF DecayInv, Good, GoodBut
<1> HIDE DEF S, R
<1>3. /\ \A t \in Time : Earlier(t) \in Time
      /\ Earlier(NoTime) = NoTime
  BY DecayAssumption DEF Earlier, Time
<1>4. \A i \in Item : /\ R.item[i] \in Attributes
                      /\ R.item[i].type = S.item[i].type
                      /\ R.item[i].decaying = S.item[i].decaying
                      /\ R.item[i].stamp = Earlier(S.item[i].stamp)
  <2> TAKE i \in Item
  <2>1. S.item[i] \in Attributes /\ R.item[i] = [S.item[i] EXCEPT !.stamp = Earlier(@)]
    BY <1>1, <1>2 DEF State
  <2> QED
    BY <1>3, <2>1 DEF Attributes
<1>5. R \in State
  <2>1. R.item \in [Item -> Attributes]
    BY <1>1, <1>4
  <2>2. R.map \in SUBSET (Time \X Item)
    BY <1>1, <1>2, <1>3 DEF State
  <2> QED
    BY <1>1, <1>2, <2>1, <2>2 DEF State
<1>6. \A i \in Item : InMap(R, i) <=> InMap(S, i)
  <2> TAKE i \in Item
  <2>1. ASSUME InMap(S, i) PROVE InMap(R, i)
    BY <1>1, <1>4, <2>1 DEF InMap
  <2>2. ASSUME InMap(R, i) PROVE InMap(S, i)
    <3>1. PICK e \in S.map : <<R.item[i].stamp, i>> = <<Earlier(e[1]), e[2]>>
      BY <1>1, <2>2 DEF InMap
    <3>2. e = <<e[1], e[2]>> /\ e[2] = i
      BY <1>2, <3>1 DEF State
    <3>3. S.item[i].stamp = e[1]
      BY <1>2, <3>2 DEF Stamped
    <3> QED
      BY <3>2, <3>3 DEF InMap
  <2> QED
    BY <2>1, <2>2
<1>7. Stamped(R, {})
  <2> SUFFICES ASSUME NEW f \in R.map
               PROVE  R.item[f[2]].stamp = f[1] /\ R.item[f[2]].decaying # "FALSE"
    BY DEF Stamped
  <2>1. PICK e \in S.map : f = <<Earlier(e[1]), e[2]>>
    BY <1>1
  <2>2. e[2] \in Item /\ S.item[e[2]].stamp = e[1] /\ S.item[e[2]].decaying # "FALSE"
    BY <1>2 DEF State, Stamped
  <2> QED
    BY <1>4, <2>1, <2>2
<1>8. SettledBut(R, {}) /\ NoneLost(R, {}) /\ Shallow(R)
  BY <1>1, <1>2, <1>4, <1>6 DEF SettledBut, NoneLost, Shallow, IsRemoved
<1>9. Counted(R, {})
  BY <1>1, <1>2, <1>6 DEF Counted, One
<1>10. Good(Now', {})
  BY <1>5, <1>7, <1>8, <1>9 DEF Good, GoodBut, R
<1> QED
  BY <1>1, <1>10 DEF DecayInv

\* What is due goes from the map to the check, with its references.
LEMMA CheckBeginKeeps ==
  ASSUME DecayInv, CheckBegin
  PROVE  DecayInv'
<1> DEFINE S == Now
           R == Now'
           due == {e \in decayMap : e[1] = 0}
           T == {e[2] : e \in due}
<1>1. /\ temp = {} /\ temp' = T /\ checking'
      /\ R.item = S.item /\ R.parent = S.parent /\ R.refs = S.refs
      /\ R.map = S.map \ due /\ due \subseteq S.map
      /\ R = [item |-> R.item, parent |-> R.parent, map |-> R.map, refs |-> R.refs]
  BY DEF CheckBegin, Now, DecayInv
<1>2. /\ S \in State /\ Shallow(S) /\ Stamped(S, {})
      /\ SettledBut(S, {}) /\ NoneLost(S, {}) /\ Counted(S, {})
  BY <1>1 DEF DecayInv, Good, GoodBut
<1>3. R \in State /\ T \in SUBSET Item
  BY <1>1, <1>2 DEF State
<1> HIDE DEF S, R
<1>4. \A e \in S.map : e \in due <=> e[2] \in T
  <2> SUFFICES ASSUME NEW e \in S.map, e[2] \in T PROVE e \in due
    OBVIOUS
  <2>1. PICK f \in due : f[2] = e[2]
    OBVIOUS
  <2>2. /\ e = <<e[1], e[2]>> /\ f = <<f[1], f[2]>>
        /\ e[1] = S.item[e[2]].stamp /\ f[1] = S.item[f[2]].stamp
    BY <1>1, <1>2 DEF State, Stamped
  <2>3. e = f
    BY <2>1, <2>2
  <2> QED
    BY <2>1, <2>3
<1>5. \A i \in T : InMap(S, i)
  <2> SUFFICES ASSUME NEW e \in due PROVE InMap(S, e[2])
    OBVIOUS
  <2>1. e \in S.map /\ e = <<e[1], e[2]>> /\ e[1] = S.item[e[2]].stamp
    BY <1>1, <1>2 DEF State, Stamped
  <2> QED
    BY <2>1 DEF InMap
<1> HIDE DEF due, T
<1>6. \A i \in Item : InMap(R, i) <=> InMap(S, i) /\ i \notin T
  BY <1>1, <1>4 DEF InMap
<1>7. Stamped(R, T)
  BY <1>1, <1>2, <1>4 DEF Stamped
<1>8. SettledBut(R, {}) /\ NoneLost(R, T) /\ Shallow(R)
  BY <1>1, <1>2, <1>6 DEF SettledBut, NoneLost, Shallow, IsRemoved
<1>9. Counted(R, T)
  <2> SUFFICES ASSUME NEW i \in Item
               PROVE  R.refs[i] = One(InMap(R, i)) + One(i \in T) + One(R.parent[i] # Nowhere)
    BY DEF Counted
  <2>1. S.refs[i] = One(InMap(S, i)) + One(i \in {}) + One(S.parent[i] # Nowhere)
    BY <1>2 DEF Counted
  <2> QED
    BY <1>1, <1>5, <1>6, <2>1 DEF One
<1> QED
  BY <1>1, <1>3, <1>7, <1>8, <1>9 DEF DecayInv, Good, GoodBut, R

\* The check lets go of an item before anything else can hold it.
LEMMA CheckItemKeeps ==
  ASSUME DecayInv, NEW i \in Item, CheckItem(i)
  PROVE  DecayInv' /\ Plans(decayMap)
<1> DEFINE T == temp \ {i}
<1>1. /\ i \in temp /\ temp' = T /\ checking /\ checking' = checking
  BY DEF CheckItem, DecayInv
<1>2. Good(Now, temp)
  BY DEF DecayInv
<1>3. ASSUME NEW d \in Time \cup {NoTime},
             NEW S, S = Expired([Now EXCEPT !.item[i].duration = d], i)
      PROVE  Good(S, T) /\ ~InMap(S, i) /\ S.item[i].decaying = "FALSE" /\ S.map = decayMap
  <2> DEFINE N == Now
             a == [N.item[i] EXCEPT !.duration = d, !.decaying = "FALSE", !.stamp = NoTime]
  <2>1. /\ N \in State /\ temp \in SUBSET Item /\ Shallow(N) /\ Stamped(N, temp)
        /\ SettledBut(N, {}) /\ NoneLost(N, temp) /\ Counted(N, temp)
    BY <1>2 DEF Good, GoodBut
  <2>2. a \in Attributes /\ a.decaying = "FALSE" /\ a.stamp = NoTime
    <3>1. N.item[i] \in Attributes
      <4> HIDE DEF N
      <4> QED
        BY <2>1 DEF State
    <3> HIDE DEF N
    <3> QED
      BY <3>1, DecayAssumption DEF Attributes
  <2>3. S = [N EXCEPT !.item = [N.item EXCEPT ![i] = a], !.refs = [N.refs EXCEPT ![i] = @ - 1]]
    BY <1>3, <2>1, ZenonT(60) DEF Expired, State, Attributes
  <2> HIDE DEF N, a
  <2>4. /\ S \in State /\ S.map = N.map /\ S.parent = N.parent
        /\ S.item[i] = a /\ \A j \in Item : j # i => S.item[j] = N.item[j]
        /\ \A j \in Item : S.refs[j] = IF j = i THEN N.refs[i] - 1 ELSE N.refs[j]
    <3>1. [N.item EXCEPT ![i] = a] \in [Item -> Attributes]
      BY <2>1, <2>2 DEF State
    <3>2. [N.refs EXCEPT ![i] = @ - 1] \in [Item -> Int]
      BY <2>1 DEF State
    <3> QED
      BY <2>1, <2>3, <3>1, <3>2 DEF State
  <2>5. /\ \A e \in N.map : e[2] \in Item \ {i}
        /\ ~InMap(N, i) /\ ~InMap(S, i)
    BY <1>1, <2>1, <2>4 DEF State, Stamped, InMap
  <2>6. \A j \in Item \ {i} : InMap(S, j) <=> InMap(N, j)
    BY <2>4 DEF InMap
  <2>7. Stamped(S, T)
    BY <2>1, <2>4, <2>5 DEF Stamped
  <2>8. SettledBut(S, {}) /\ Shallow(S)
    BY <2>1, <2>4, <2>5, <2>6 DEF SettledBut, Shallow, IsRemoved
  <2>9. NoneLost(S, T)
    BY <2>1, <2>2, <2>4, <2>6 DEF NoneLost
  <2>10. Counted(S, T)
    <3> SUFFICES ASSUME NEW j \in Item
                 PROVE  S.refs[j] = One(InMap(S, j)) + One(j \in T) + One(S.parent[j] # Nowhere)
      BY DEF Counted
    <3>1. N.refs[j] = One(InMap(N, j)) + One(j \in temp) + One(N.parent[j] # Nowhere)
      BY <2>1 DEF Counted
    <3> QED
      BY <1>1, <2>4, <2>5, <2>6, <3>1 DEF One
  <2> QED
    BY <2>1, <2>2, <2>4, <2>5, <2>7, <2>8, <2>9, <2>10 DEF Good, GoodBut, N, Now
<1>4. Now.item[i] \in Attributes
  BY <1>2 DEF Good, GoodBut, State
<1>5. CASE CanDecay(Now, i)
  <2> DEFINE S == Expired(Now, i)
  <2>1. S = Expired([Now EXCEPT !.item[i].duration = Now.item[i].duration], i)
    <3>1. [Now EXCEPT !.item[i].duration = Now.item[i].duration] = Now
      BY <1>2, <1>4 DEF Good, GoodBut, State, Attributes
    <3> QED
      BY <3>1
  <2>2. Good(S, T) /\ ~InMap(S, i) /\ S.item[i].decaying = "FALSE" /\ S.map = decayMap
    <3>1. Now.item[i].duration \in Time \cup {NoTime}
      BY <1>4 DEF Attributes
    <3> QED
      BY <1>3, <2>1, <3>1
  <2>3. DecayIn(S, i)
    BY <1>5 DEF CheckItem
  <2>4. CanDecay(S, i)
    <3>1. S.parent = Now.parent /\ S.item[i].type = Now.item[i].type
      BY <1>2, <1>4 DEF Expired, Good, GoodBut, State, Attributes
    <3> QED
      BY <1>5, <3>1 DEF CanDecay, IsRemoved
  <2> HIDE DEF S
  <2>5. Good(Now', T) /\ Plans(S.map)
    BY <2>2, <2>3, <2>4, DecayKeeps
  <2> QED
    BY <1>1, <2>2, <2>5 DEF DecayInv
<1>6. CASE ~CanDecay(Now, i)
  <2>1. PICK d \in IF item[i].decaying = "TRUE" /\ item[i].stamp = NoTime
                     THEN {0, MaxTime} ELSE {GetDuration(item[i])} :
              Become(Expired([Now EXCEPT !.item[i].duration = d], i))
    BY <1>6 DEF CheckItem
  <2>0. UNCHANGED events
    BY <1>6 DEF CheckItem
  <2>2. d \in Time \cup {NoTime}
    BY <1>4, <2>1, DecayAssumption DEF Now, Attributes, GetDuration, DurationOf, Time
  <2> DEFINE S == Expired([Now EXCEPT !.item[i].duration = d], i)
  <2>3. Good(S, T) /\ S.map = decayMap
    BY <1>3, <2>2
  <2> HIDE DEF S
  <2>4. Now' = S
    BY <2>1, <2>3, BecomeNow DEF Good, GoodBut, S
  <2>5. decayMap' \subseteq decayMap
    BY <2>3, <2>4 DEF Now
  <2> QED
    BY <1>1, <2>0, <2>3, <2>4, <2>5, StillPlanned DEF DecayInv
<1> QED
  BY <1>5, <1>6

-----------------------------------------------------------------------------
\* Nothing decays at the start.
LEMMA InitInv == Init => DecayInv
<1> SUFFICES ASSUME Init PROVE DecayInv
  OBVIOUS
<1> PICK w \in Worlds :
       /\ parent = w[2]
       /\ item = [i \in Item |->
            [type |-> w[1][i], decaying |-> "FALSE", stamp |-> NoTime,
             duration |-> IF DecayTime[w[1][i]] > 0 THEN DecayTime[w[1][i]] ELSE NoTime]]
       /\ refs = [i \in Item |-> IF w[2][i] = Nowhere THEN 0 ELSE 1]
  BY DEF Init
<1>1. w[1] \in [Item -> Type] /\ w[2] \in [Item -> Item \cup {World, Nowhere}]
  BY DecayAssumption
<1>2. \A i \in Item : item[i] \in Attributes /\ item[i].decaying = "FALSE"
  BY <1>1, DecayAssumption DEF Attributes, Time
<1>3. decayMap = {} /\ temp = {}
  BY DEF Init
<1>4. Now \in State
  <2>1. item \in [Item -> Attributes]
    BY <1>2
  <2> QED
    BY <1>1, <1>3, <2>1 DEF Now, State
<1>5. Shallow(Now)
  BY DecayAssumption DEF Shallow, Now
<1>6. \A i \in Item : ~InMap(Now, i)
  BY <1>3 DEF InMap, Now
<1>7. Stamped(Now, {}) /\ SettledBut(Now, {}) /\ NoneLost(Now, {})
  BY <1>2, <1>3, <1>6 DEF Stamped, SettledBut, NoneLost, Now
<1>8. Counted(Now, {})
  BY <1>6 DEF Counted, One, Now
<1> QED
  BY <1>3, <1>4, <1>5, <1>7, <1>8 DEF DecayInv, Good, GoodBut

-----------------------------------------------------------------------------
(* The checks that are planned *)

\* The moments events are due at, and the iterator of a check.
PlanType == EventsOK /\ next \in Time \cup {End, Dangling}

\* If the iterator has not dangled so far, a check comes for everything in the
\* map.
PlanInv == PlanType /\ \A e \in decayMap : Planned(e[1])

\* Between checks it is as good as what happens to the items.
LEMMA IdlePlans ==
  ASSUME PlanType, Idle, Plans(decayMap)
  PROVE  PlanType' /\ (PlanInv => PlanInv')
<1>1. UNCHANGED <<queued, checking, next>>
  BY DEF Idle, check
<1> QED
  BY <1>1 DEF Plans, PlanType, PlanInv

\* As time passes the checks come nearer with what they are for.
LEMMA TickPlans ==
  ASSUME PlanType, Tick, decayMap \in SUBSET (Time \X Item)
  PROVE  PlanType' /\ (PlanInv => PlanInv')
<1>1. \A t \in Time : /\ t \in 0..MaxTime /\ Earlier(t) # NoTime
                       /\ Earlier(t) = IF t = 0 THEN 0 ELSE t - 1
  BY Moments DEF Earlier, Time
<1>2. PlanType'
  BY Moments DEF PlanType, EventsOK, Tick, check
<1>3. \A d, t \in Time : t <= Larger(MinTicks, d) =>
        Earlier(t) # NoTime /\ Earlier(t) <= Larger(MinTicks, Earlier(d))
  BY <1>1, DecayAssumption DEF Larger
<1>4. ASSUME NEW e \in decayMap, Planned(e[1])
      PROVE  Planned(Earlier(e[1]))'
  <2>1. e[1] \in Time /\ ~checking /\ UNCHANGED queued
    BY DEF Tick, check
  <2>2. \A t \in timers \cup {current} : t # NoTime => t \in Time
    BY DEF PlanType, EventsOK
  <2>3. \A t \in timers \cup {current} : Earlier(t) \in timers' \cup {current'}
    BY DEF Tick
  <2> QED
    BY <1>3, <1>4, <2>1, <2>2, <2>3 DEF Planned
<1>5. \A e \in decayMap' : \E d \in decayMap : e[1] = Earlier(d[1])
  BY DEF Tick
<1> QED
  BY <1>2, <1>4, <1>5 DEF PlanInv

\* A check that begins will plan the next for what it leaves in the map.
LEMMA CheckBeginPlans ==
  ASSUME PlanType, CheckBegin, decayMap \in SUBSET (Time \X Item)
  PROVE  PlanType' /\ PlanInv'
<1> DEFINE m == {e \in decayMap : e[1] # 0}
<1>1. /\ decayMap' = m /\ checking' = TRUE /\ UNCHANGED events
      /\ next' = IF m = {} THEN End ELSE First(m)
  <2>1. m = decayMap \ {e \in decayMap : e[1] = 0}
    OBVIOUS
  <2> QED
    BY <2>1 DEF CheckBegin
<1>2. m # {} => First(m) \in Time /\ \A e \in m : First(m) <= e[1]
  BY FirstIs
<1> HIDE DEF m
<1>3. PlanType'
  BY <1>1, <1>2 DEF PlanType, EventsOK, events
<1>4. \A d \in Time : next' \in Time /\ next' <= d => Planned(d)'
  BY <1>1 DEF Planned
<1>5. \A e \in decayMap' : next' \in Time /\ next' <= e[1] /\ e[1] \in Time
  BY <1>1, <1>2 DEF m
<1> QED
  BY <1>3, <1>4, <1>5 DEF PlanInv

\* Its iterator stays, or dangles.
LEMMA CheckItemPlans ==
  ASSUME PlanType, NEW i \in Item, CheckItem(i), Plans(decayMap)
  PROVE  PlanType' /\ (PlanInv /\ next' # Dangling => PlanInv')
<1>1. UNCHANGED <<queued, checking>> /\ next' \in {next, Dangling}
  BY DEF CheckItem, Follow
<1> QED
  BY <1>1 DEF Plans, PlanType, PlanInv

\* A check that ends plans the next.
LEMMA CheckEndPlans ==
  ASSUME PlanType, CheckEnd, decayMap \in SUBSET (Time \X Item)
  PROVE  PlanType' /\ (PlanInv /\ next # Dangling => PlanInv')
<1>0. UNCHANGED <<queued, decayMap>> /\ next' = End
  BY DEF CheckEnd, items
<1>1. CASE next = End
  <2>1. UNCHANGED events
    BY <1>1 DEF CheckEnd
  <2>2. \A d \in Time : Planned(d) => Planned(d)'
    BY <1>0, <1>1, <2>1, DecayAssumption DEF Planned, events, Time
  <2> QED
    BY <1>0, <2>1, <2>2 DEF PlanType, PlanInv, EventsOK, events
<1>2. ASSUME NEW d \in Time, AddEvent(Larger(MinTicks, d)), next # Dangling => d = next
      PROVE  PlanType' /\ (PlanInv /\ next # Dangling => PlanInv')
  <2>1. Larger(MinTicks, d) \in Time /\ Larger(MinTicks, d) # NoTime
    BY Moments
  <2>2. PlanType'
    BY <1>0, <1>2, <2>1 DEF PlanType, EventsOK, AddEvent
  <2>3. \A c \in Time : d <= c => Planned(c)'
    <3>1. \A c \in Time : d <= c => Larger(MinTicks, d) <= Larger(MinTicks, c)
      BY DecayAssumption DEF Larger, Time
    <3> QED
      BY <1>2, <2>1, <3>1 DEF Planned, AddEvent
  <2>4. \A c \in Time : Planned(c) /\ d = next => Planned(c)'
    BY <1>0, <1>2, <2>3 DEF Planned, AddEvent
  <2> QED
    BY <1>0, <1>2, <2>2, <2>4 DEF PlanInv
<1> QED
  BY <1>1, <1>2 DEF CheckEnd, PlanType

\* Every step of the specification keeps the invariant.
LEMMA NextInv == DecayInv /\ [Next]_vars => DecayInv'
<1> SUFFICES ASSUME DecayInv, [Next]_vars PROVE DecayInv'
  OBVIOUS
<1>1. ASSUME UNCHANGED <<items, temp, checking>>
      PROVE  DecayInv'
  <2>1. Now' = Now
    BY <1>1 DEF Now, items
  <2> QED
    BY <1>1, <2>1 DEF DecayInv
<1>2. ASSUME NEW i \in Item, Start(i) \/ Stop(i) \/ Remove(i)
      PROVE  DecayInv'
  BY <1>2, StartStopKeeps
<1>3. ASSUME NEW i \in Item, \/ \E d \in Durations : SetDuration(i, d)
                             \/ \E t \in Type : Transform(i, t)
      PROVE  DecayInv'
  BY <1>3, ChangeKeeps
<1>4. ASSUME NEW i \in Item, NEW t \in Newborn, NEW l \in Item \cup {World}, Create(i, t, l)
      PROVE  DecayInv'
  BY <1>4, CreateKeeps
<1>5. ASSUME NEW i \in Item, Destroy(i)
      PROVE  DecayInv'
  BY <1>5, DestroyKeeps
<1>6. CASE Tick
  BY <1>6, TickKeeps
<1>7. CASE Fire
  BY <1>1, <1>7 DEF Fire, check
<1>8. CASE CheckBegin
  BY <1>8, CheckBeginKeeps
<1>9. ASSUME NEW i \in Item, CheckItem(i)
      PROVE  DecayInv'
  BY <1>9, CheckItemKeeps
<1>10. CASE CheckEnd
  <2>1. Now' = Now /\ temp' = {} /\ temp = {}
    BY <1>10 DEF CheckEnd, items, Now
  <2> QED
    BY <2>1 DEF DecayInv
<1>11. CASE UNCHANGED vars
  BY <1>1, <1>11 DEF vars, items, check
<1> QED
  BY <1>2, <1>3, <1>4, <1>5, <1>6, <1>7, <1>8, <1>9, <1>10, <1>11 DEF Next, Touch, Check

\* The invariant holds in every state of every behaviour.
THEOREM Invariance == Spec => []DecayInv
BY InitInv, NextInv, PTL DEF Spec

\* Outside of a check what counts as decaying is in decayMap exactly once,
\* under its time stamp, whatever is started, stopped, changed or removed.
THEOREM StampAlwaysMatches == Spec => []StampMatchesMap
<1>1. DecayInv => StampMatchesMap
  <2> SUFFICES ASSUME DecayInv, ~checking PROVE StampMatchesMap
    BY DEF StampMatchesMap
  <2>1. /\ Now \in State /\ Stamped(Now, {}) /\ SettledBut(Now, {}) /\ NoneLost(Now, {})
    BY DEF DecayInv, Good, GoodBut
  <2>2. \A e \in decayMap : /\ e[2] \in Item /\ e = <<e[1], e[2]>>
                             /\ item[e[2]].stamp = e[1]
    BY <2>1 DEF Now, State, Stamped
  <2>3. \A e \in decayMap : InMap(Now, e[2])
    BY <2>2 DEF InMap, Now
  <2>4. \A e \in decayMap : item[e[2]].decaying = "TRUE"
    BY <2>1, <2>2, <2>3 DEF SettledBut, Now
  <2>5. \A i \in Item : item[i].decaying = "TRUE" => InMap(Now, i)
    BY <2>1 DEF NoneLost, Now
  <2> QED
    BY <2>2, <2>4, <2>5 DEF StampMatchesMap
<1> QED
  BY <1>1, Invariance, PTL

\* No item that the map or a check points to has been given up: each of them
\* holds the one reference it took.
THEOREM ReferencesAlwaysHeld == Spec => []ReferencesHeld
<1>1. DecayInv => ReferencesHeld
  <2> SUFFICES ASSUME DecayInv, NEW i \in Item
               PROVE  refs[i] = Cardinality({e \in decayMap : e[2] = i})
                                + Cardinality(temp \cap {i})
                                + (IF Alive(i) THEN 1 ELSE 0)
    BY DEF ReferencesHeld
  <2>1. Now \in State /\ Stamped(Now, temp) /\ Counted(Now, temp)
    BY DEF DecayInv, Good, GoodBut
  <2>2. \A e \in decayMap : e[2] = i => e = <<item[i].stamp, i>>
    BY <2>1 DEF Now, State, Stamped
  <2>3. {e \in decayMap : e[2] = i} = IF InMap(Now, i) THEN {<<item[i].stamp, i>>} ELSE {}
    BY <2>2 DEF InMap, Now
  <2>4. Cardinality({e \in decayMap : e[2] = i}) = One(InMap(Now, i))
    BY <2>3, FS_EmptySet, FS_Singleton DEF One
  <2>5. temp \cap {i} = IF i \in temp THEN {i} ELSE {}
    OBVIOUS
  <2>6. Cardinality(temp \cap {i}) = One(i \in temp)
    BY <2>5, FS_EmptySet, FS_Singleton DEF One
  <2>7. refs[i] = One(InMap(Now, i)) + One(i \in temp) + One(parent[i] # Nowhere)
    BY <2>1 DEF Counted, Now
  <2> QED
    BY <2>4, <2>6, <2>7 DEF Alive, One
<1> QED
  BY <1>1, Invariance, PTL

\* Whatever leaves the world, itself or with what it lies in, leaves the map.
THEOREM NeverDecaysOutside == Spec => []NoDecayOutside
<1>1. DecayInv => NoDecayOutside
  <2> SUFFICES ASSUME DecayInv, NEW e \in decayMap PROVE ~IsRemoved(Now, e[2])
    BY DEF NoDecayOutside
  <2>1. Now \in State /\ Stamped(Now, temp) /\ SettledBut(Now, {})
    BY DEF DecayInv, Good, GoodBut
  <2>2. e[2] \in Item /\ InMap(Now, e[2])
    BY <2>1 DEF Now, State, Stamped, InMap
  <2> QED
    BY <2>1, <2>2 DEF SettledBut
<1> QED
  BY <1>1, Invariance, PTL

\* The planned checks take part in every step.
LEMMA NextPlans ==
  ASSUME DecayInv, PlanType, [Next]_vars
  PROVE  PlanType' /\ (PlanInv /\ IteratorValid /\ IteratorValid' => PlanInv')
<1>0. decayMap \in SUBSET (Time \X Item)
  BY DEF DecayInv, Good, GoodBut, State, Now
<1>1. ASSUME NEW i \in Item, Start(i) \/ Stop(i) \/ Remove(i)
      PROVE  PlanType' /\ (PlanInv => PlanInv')
  BY <1>1, StartStopKeeps, IdlePlans DEF Start, Stop, Remove
<1>2. ASSUME NEW i \in Item, \/ \E d \in Durations : SetDuration(i, d)
                             \/ \E t \in Type : Transform(i, t)
      PROVE  PlanType' /\ (PlanInv => PlanInv')
  BY <1>2, ChangeKeeps, IdlePlans DEF SetDuration, Transform
<1>3. ASSUME NEW i \in Item, NEW t \in Newborn, NEW l \in Item \cup {World}, Create(i, t, l)
      PROVE  PlanType' /\ (PlanInv => PlanInv')
  BY <1>3, CreateKeeps, IdlePlans DEF Create
<1>4. ASSUME NEW i \in Item, Destroy(i)
      PROVE  PlanType' /\ (PlanInv => PlanInv')
  <2>1. Idle /\ UNCHANGED events /\ decayMap' \subseteq decayMap
    BY <1>4 DEF Destroy
  <2> QED
    BY <2>1, StillPlanned, IdlePlans
<1>5. CASE Tick
  BY <1>0, <1>5, TickPlans
<1>6. CASE Fire
  <2>1. UNCHANGED <<decayMap, next>> /\ queued' = TRUE
    BY <1>6 DEF Fire, items, check
  <2>2. EventsOK'
    BY <1>6 DEF Fire, EventsOK, PlanType
  <2> QED
    BY <2>1, <2>2 DEF PlanType, PlanInv, Planned
<1>7. CASE CheckBegin
  BY <1>0, <1>7, CheckBeginPlans
<1>8. ASSUME NEW i \in Item, CheckItem(i)
      PROVE  PlanType' /\ (PlanInv /\ IteratorValid' => PlanInv')
  BY <1>8, CheckItemKeeps, CheckItemPlans DEF IteratorValid
<1>9. CASE CheckEnd
  BY <1>0, <1>9, CheckEndPlans DEF IteratorValid
<1>10. CASE UNCHANGED vars
  BY <1>10 DEF vars, items, events, check, PlanType, PlanInv, EventsOK, Planned
<1> QED
  BY <1>1, <1>2, <1>3, <1>4, <1>5, <1>6, <1>7, <1>8, <1>9, <1>10 DEF Next, Touch, Check

\* No check is planned at the start, and nothing is to be checked.
LEMMA InitPlans == Init => PlanInv
BY DEF Init, PlanInv, PlanType, EventsOK

\* The map is good and the events have their types in every state.
LEMMA Planning == Spec => [](DecayInv /\ PlanType)
<1>1. Init => DecayInv /\ PlanType
  BY InitInv, InitPlans DEF PlanInv
<1>2. DecayInv /\ PlanType /\ [Next]_vars => (DecayInv /\ PlanType)'
  BY NextInv, NextPlans
<1> QED
  BY <1>1, <1>2, PTL DEF Spec

\* The two flags are set and reset.
Flags == queued \in BOOLEAN /\ checking \in BOOLEAN

\* The two flags keep their type.
LEMMA Flagged == Spec => []Flags
<1>1. Init => Flags
  BY DEF Init, Flags
<1>2. Flags /\ [Next]_vars => Flags'
  <2> SUFFICES ASSUME Flags, [Next]_vars PROVE Flags'
    OBVIOUS
  <2>1. ASSUME UNCHANGED <<queued, checking>> PROVE Flags'
    BY <2>1 DEF Flags
  <2>2. ASSUME NEW i \in Item, Touch(i) PROVE UNCHANGED <<queued, checking>>
    BY <2>2 DEF Touch, Start, Stop, Remove, Destroy, SetDuration, Transform, Create, Idle, check
  <2>3. CASE Tick
    BY <2>1, <2>3 DEF Tick, check
  <2>4. CASE Fire
    BY <2>4 DEF Fire, check, Flags
  <2>5. CASE CheckBegin
    BY <2>5 DEF CheckBegin, Flags
  <2>6. ASSUME NEW i \in Item, CheckItem(i) PROVE UNCHANGED <<queued, checking>>
    BY <2>6 DEF CheckItem
  <2>7. CASE CheckEnd
    BY <2>7 DEF CheckEnd, Flags
  <2>8. CASE UNCHANGED vars
    BY <2>1, <2>8 DEF vars, check
  <2> QED
    BY <2>1, <2>2, <2>3, <2>4, <2>5, <2>6, <2>7, <2>8 DEF Next, Check
<1> QED
  BY <1>1, <1>2, PTL DEF Spec

\* The variables keep their types; no reference counter gets negative.
THEOREM TypeCorrect == Spec => []TypeOK
<1>1. DecayInv /\ PlanType /\ Flags => TypeOK
  <2> SUFFICES ASSUME DecayInv, PlanType, Flags PROVE TypeOK
    OBVIOUS
  <2>1. Now \in State /\ temp \in SUBSET Item /\ Counted(Now, temp)
    BY DEF DecayInv, Good, GoodBut
  <2>2. refs \in [Item -> Nat]
    <3>1. refs \in [Item -> Int] /\ \A i \in Item : refs[i] >= 0
      BY <2>1 DEF State, Counted, One, Now
    <3> QED
      BY <3>1
  <2> QED
    BY <2>1, <2>2 DEF State, Now, TypeOK, PlanType, EventsOK, Flags
<1> QED
  BY <1>1, Planning, Flagged, PTL

\* As long as the iterator of checkDecay has not been invalidated, there is a
\* check to come, in time, for whatever decays.
THEOREM ChecksAlwaysPlanned == Spec /\ []IteratorValid => []CheckPlanned
<1>1. PlanInv /\ DecayInv => CheckPlanned
  <2> SUFFICES ASSUME PlanInv, DecayInv, ~checking, decayMap # {}
               PROVE  \/ queued
                      \/ \E t \in timers \cup {current} :
                           t # NoTime /\ t <= Larger(MinTicks, First(decayMap))
    BY DEF CheckPlanned
  <2>1. decayMap \in SUBSET (Time \X Item)
    BY DEF DecayInv, Good, GoodBut, State, Now
  <2>2. \E e \in decayMap : e[1] = First(decayMap)
    BY <2>1, FirstIs
  <2> QED
    BY <2>2 DEF PlanInv, Planned
<1>2. /\ DecayInv /\ PlanInv /\ IteratorValid /\ IteratorValid' /\ [Next]_vars => PlanInv'
  BY NextPlans DEF PlanInv
<1> QED
  BY <1>1, <1>2, InitPlans, Invariance, PTL DEF Spec

-----------------------------------------------------------------------------
(* No time is won *)

\* An item that is to stop has been stopped at once: it has no time stamp, but
\* for items X that are about to be stopped.
Halted(S, X) ==
  \A i \in Item \ X : S.item[i].decaying = "STOPPING" => S.item[i].stamp = NoTime

\* internalRemoveItem stops items and changes no other attribute.
LEMMA RemovedStops ==
  ASSUME NEW S \in State, NEW i \in Item
  PROVE  \E U \in State : \E X \in SUBSET Item :
           U.item = S.item /\ U.map = S.map /\ i \in X /\ Removed(S, i) = StopAll(U, X)
<1> DEFINE U == [S EXCEPT !.parent[i] = Nowhere, !.refs[i] = @ - 1]
           X == {i} \cup Contents(S, i)
<1>1. U \in State /\ U.item = S.item /\ U.map = S.map
  <2>1. [S.parent EXCEPT ![i] = Nowhere] \in [Item -> Item \cup {World, Nowhere}]
    BY DEF State
  <2>2. [S.refs EXCEPT ![i] = @ - 1] \in [Item -> Int]
    BY DEF State
  <2>3. U = [S EXCEPT !.parent = [S.parent EXCEPT ![i] = Nowhere],
                      !.refs = [S.refs EXCEPT ![i] = @ - 1]]
    BY DEF State
  <2> HIDE DEF U
  <2> QED
    BY <2>1, <2>2, <2>3 DEF State
<1>2. Contents(U, i) \subseteq Item /\ X \in SUBSET Item /\ i \in X
  BY DEF Contents
<1>3. Removed(S, i) = StopAll(U, X)
  BY DEF Removed, Contents
<1> QED
  BY <1>1, <1>2, <1>3

\* Stopping leaves no stamp behind.
LEMMA StopHalts ==
  ASSUME NEW S \in State, NEW X \in SUBSET Item, Halted(S, X)
  PROVE  Halted(StopAll(S, X), {})
<1> SUFFICES ASSUME NEW i \in Item, StopAll(S, X).item[i].decaying = "STOPPING"
             PROVE  StopAll(S, X).item[i].stamp = NoTime
  BY DEF Halted
<1>1. /\ StopAll(S, X).item[i] = IF i \in X /\ S.item[i].decaying # "FALSE"
                                   THEN Stopped(S.item[i], i \in FoundIn(S, X)) ELSE S.item[i]
      /\ Stopped(S.item[i], i \in FoundIn(S, X)).stamp = NoTime
  BY StopIs
<1> QED
  BY <1>1 DEF Halted

\* So does removing.
LEMMA RemovedHalts ==
  ASSUME NEW S \in State, NEW i \in Item, Halted(S, {})
  PROVE  Removed(S, i) \in State /\ Halted(Removed(S, i), {})
<1>1. PICK U \in State, X \in SUBSET Item :
        U.item = S.item /\ Removed(S, i) = StopAll(U, X)
  BY RemovedStops
<1>2. Halted(U, X)
  BY <1>1 DEF Halted
<1> QED
  BY <1>1, <1>2, StopIs, StopHalts

\* A new item changes no other.
LEMMA CreatedIs ==
  ASSUME NEW S \in State, NEW j \in Item, NEW t \in Type, NEW l \in Item \cup {World, Nowhere}
  PROVE  /\ Created(S, j, t, l) \in State
         /\ Created(S, j, t, l).item[j].decaying = "FALSE"
         /\ \A i \in Item \ {j} : Created(S, j, t, l).item[i] = S.item[i]
<1> DEFINE a == [type |-> t, decaying |-> "FALSE", stamp |-> NoTime,
                 duration |-> IF DecayTime[t] > 0 THEN DecayTime[t] ELSE NoTime]
           R == Created(S, j, t, l)
<1>1. a \in Attributes /\ a.decaying = "FALSE"
  BY DecayAssumption DEF Attributes, Time
<1>2. R = [S EXCEPT !.item = [S.item EXCEPT ![j] = a], !.parent = [S.parent EXCEPT ![j] = l],
                    !.refs = [S.refs EXCEPT ![j] = 1]]
  BY DEF Created, State
<1> HIDE DEF a, R
<1>3. [S.item EXCEPT ![j] = a] \in [Item -> Attributes]
  BY <1>1 DEF State
<1>4. [S.parent EXCEPT ![j] = l] \in [Item -> Item \cup {World, Nowhere}]
  BY DEF State
<1>5. [S.refs EXCEPT ![j] = 1] \in [Item -> Int]
  BY DEF State
<1>6. R \in State /\ R.item = [S.item EXCEPT ![j] = a]
  BY <1>2, <1>3, <1>4, <1>5 DEF State
<1>7. \A k \in Item : R.item[k] = IF k = j THEN a ELSE S.item[k]
  BY <1>6 DEF State
<1> QED
  BY <1>1, <1>6, <1>7 DEF R

\* A new item does not decay yet.
LEMMA CreatedHalts ==
  ASSUME NEW S \in State, Halted(S, {}), NEW j \in Item, NEW t \in Type,
         NEW l \in Item \cup {World, Nowhere}
  PROVE  Created(S, j, t, l) \in State /\ Halted(Created(S, j, t, l), {})
<1> DEFINE R == Created(S, j, t, l)
<1>1. /\ R \in State /\ R.item[j].decaying = "FALSE"
      /\ \A i \in Item \ {j} : R.item[i] = S.item[i]
  BY CreatedIs
<1> HIDE DEF R
<1>2. Halted(R, {})
  BY <1>1 DEF Halted
<1> QED
  BY <1>1, <1>2 DEF R

\* Game::startDecay starts, stops or leaves an item.
LEMMA LaunchHalts ==
  ASSUME NEW S \in State, NEW i \in Item, Halted(S, {i}), LaunchIn(S, i)
  PROVE  Halted(Now, {})'
<1>1. CASE Become(StopAll(S, {i}))
  BY <1>1, StopHalts DEF Halted, Become, Now
<1>2. CASE Become(S) /\ S.item[i].decaying # "STOPPING"
  BY <1>2 DEF Halted, Become, Now
<1>3. CASE StartIn(S, i)
  <2>1. item' = [S.item EXCEPT ![i] = [S.item[i] EXCEPT !.decaying = "TRUE", !.stamp = S.item[i].duration]]
    BY <1>3 DEF StartIn, Become, State, Attributes
  <2>2. /\ item'[i].decaying = "TRUE"
        /\ \A j \in Item \ {i} : item'[j] = S.item[j]
    BY <2>1 DEF State, Attributes
  <2> QED
    BY <2>2 DEF Halted, Now
<1> QED
  BY <1>1, <1>2, <1>3 DEF LaunchIn

\* An item under another type, or another item in its place.
LEMMA DecayHalts ==
  ASSUME NEW S \in State, NEW i \in Item, Halted(S, {}), CanDecay(S, i), DecayIn(S, i)
  PROVE  Halted(Now, {})'
<1> DEFINE t == DecayTo[S.item[i].type]
<1>1. t \in Type \cup {Vanish} /\ S.item[i] \in Attributes /\ S.parent[i] \in Item \cup {World, Nowhere}
  BY DecayAssumption DEF CanDecay, State, Attributes
<1>2. Removed(S, i) \in State /\ Halted(Removed(S, i), {})
  BY RemovedHalts
<1>3. CASE Become(Removed(S, i))
  BY <1>2, <1>3 DEF Become, Halted, Now
<1>4. ASSUME t \in Type, LaunchIn([S EXCEPT !.item[i] = SetID(@, t)], i)
      PROVE  Halted(Now, {})'
  <2> DEFINE a == SetID(S.item[i], t)
             R == Changed(S, i, a)
  <2>1. a \in Attributes /\ LaunchIn(R, i)
    BY <1>1, <1>4, SetIDLeaves DEF Changed, State
  <2> HIDE DEF a
  <2>2. R \in State /\ Halted(R, {i})
    BY <2>1 DEF Changed, State, Halted
  <2> HIDE DEF R
  <2> QED
    BY <2>1, <2>2, LaunchHalts
<1>5. ASSUME t \in Type, NEW j \in Dead(S),
             LaunchIn(Created(Removed(S, i), j, t, S.parent[i]), j)
      PROVE  Halted(Now, {})'
  <2> DEFINE U == Removed(S, i)
             l == S.parent[i]
             R == Created(U, j, t, l)
  <2>1. /\ j \in Item /\ l \in Item \cup {World, Nowhere}
        /\ U \in State /\ Halted(U, {}) /\ t \in Type
    BY <1>1, <1>2, <1>5 DEF Dead
  <2>2. LaunchIn(R, j)
    BY <1>5
  <2> HIDE DEF U, l, t
  <2>3. R \in State /\ Halted(R, {})
    BY <2>1, CreatedHalts
  <2>4. Halted(R, {j})
    BY <2>3 DEF Halted
  <2> HIDE DEF R
  <2> QED
    BY <2>1, <2>2, <2>3, <2>4, LaunchHalts
<1> QED
  BY <1>1, <1>3, <1>4, <1>5 DEF DecayIn

\* Game::startDecay of an item that may be out of time.
LEMMA BeginHalts ==
  ASSUME NEW S \in State, NEW i \in Item, Halted(S, {i}), BeginIn(S, i)
  PROVE  Halted(Now, {})'
<1>1. CASE CanDecay(S, i) /\ S.item[i].decaying \in {"FALSE", "PENDING"} /\ DecayIn(S, i)
  <2>1. Halted(S, {})
    BY <1>1 DEF Halted
  <2> QED
    BY <1>1, <2>1, DecayHalts
<1>2. CASE LaunchIn(S, i)
  BY <1>2, LaunchHalts
<1> QED
  BY <1>1, <1>2 DEF BeginIn

\* Changing the type or the duration of an item, between checks.
LEMMA ChangeHalts ==
  ASSUME Now \in State, Halted(Now, {}), NEW i \in Item, NEW a \in Attributes,
         BeginIn(Changed(Now, i, a), i)
  PROVE  Halted(Now, {})'
<1> DEFINE R == Changed(Now, i, a)
<1>1. R \in State /\ Halted(R, {i})
  BY DEF Changed, State, Halted
<1> HIDE DEF R
<1>2. BeginIn(R, i)
  BY DEF R
<1> QED
  BY <1>1, <1>2, BeginHalts

\* A check works off an item.
LEMMA CheckItemHalts ==
  ASSUME Now \in State, Halted(Now, {}), NEW i \in Item, CheckItem(i)
  PROVE  Halted(Now, {})'
<1>1. CASE CanDecay(Now, i) /\ DecayIn(Expired(Now, i), i)
  <2> DEFINE a == [Now.item[i] EXCEPT !.decaying = "FALSE", !.stamp = NoTime]
             R == Expired(Now, i)
  <2>1. /\ a \in Attributes /\ a.type = Now.item[i].type /\ a.decaying = "FALSE"
    <3>1. Now.item[i] \in Attributes
      BY DEF State
    <3> QED
      BY <3>1 DEF Attributes
  <2>2. R = [Now EXCEPT !.item = [Now.item EXCEPT ![i] = a],
                        !.refs = [Now.refs EXCEPT ![i] = Now.refs[i] - 1]]
    BY DEF Expired, State, Attributes
  <2> HIDE DEF a, R
  <2>3. [Now.item EXCEPT ![i] = a] \in [Item -> Attributes]
    BY <2>1 DEF State
  <2>4. [Now.refs EXCEPT ![i] = Now.refs[i] - 1] \in [Item -> Int]
    BY DEF State
  <2>5. R \in State /\ R.parent = Now.parent /\ R.item = [Now.item EXCEPT ![i] = a]
    BY <2>2, <2>3, <2>4 DEF State
  <2>6. /\ R.item[i].type = Now.item[i].type /\ R.item[i].decaying = "FALSE"
        /\ \A j \in Item \ {i} : R.item[j] = Now.item[j]
    BY <2>1, <2>5 DEF State
  <2>7. CanDecay(R, i) /\ Halted(R, {})
    BY <1>1, <2>6, <2>5 DEF CanDecay, IsRemoved, Halted
  <2>8. DecayIn(R, i)
    BY <1>1 DEF R
  <2> QED
    BY <2>7, <2>8, <2>5, DecayHalts
<1>2. ASSUME NEW d, Become(Expired([Now EXCEPT !.item[i].duration = d], i))
      PROVE  Halted(Now, {})'
  <2>1. item' = [item EXCEPT ![i] = [item[i] EXCEPT !.duration = d, !.decaying = "FALSE", !.stamp = NoTime]]
    BY <1>2 DEF Become, Expired, Now, State, Attributes
  <2>2. item'[i].decaying = "FALSE" /\ \A j \in Item \ {i} : item'[j] = item[j]
    BY <2>1 DEF State, Attributes, Now
  <2> QED
    BY <2>2 DEF Halted, Now
<1> QED
  BY <1>1, <1>2 DEF CheckItem

\* Every step.
LEMMA NextHalts == DecayInv /\ Halted(Now, {}) /\ [Next]_vars => Halted(Now, {})'
<1> SUFFICES ASSUME DecayInv, Halted(Now, {}), [Next]_vars
             PROVE  Halted(Now, {})'
  OBVIOUS
<1>1. Now \in State
  BY DEF DecayInv, Good, GoodBut
<1>2. ASSUME item' = item PROVE Halted(Now, {})'
  BY <1>2 DEF Halted, Now
<1>3. ASSUME NEW i \in Item, Start(i) PROVE Halted(Now, {})'
  <2>1. Halted(Now, {i}) /\ BeginIn(Now, i)
    BY <1>3 DEF Halted, Start
  <2> QED
    BY <1>1, <2>1, BeginHalts
<1>4. ASSUME NEW i \in Item, Stop(i) PROVE Halted(Now, {})'
  <2>1. {i} \in SUBSET Item /\ Halted(Now, {i}) /\ Become(StopAll(Now, {i}))
    BY <1>4 DEF Halted, Stop
  <2>2. Halted(StopAll(Now, {i}), {})
    BY <1>1, <2>1, StopHalts
  <2> QED
    BY <2>1, <2>2 DEF Halted, Become, Now
<1>5. ASSUME NEW i \in Item, Remove(i) PROVE Halted(Now, {})'
  <2>1. Become(Removed(Now, i)) /\ Halted(Removed(Now, i), {})
    BY <1>1, <1>5, RemovedHalts DEF Remove
  <2> QED
    BY <2>1 DEF Halted, Become, Now
<1>6. ASSUME NEW i \in Item, NEW d \in Durations, SetDuration(i, d) PROVE Halted(Now, {})'
  <2> DEFINE a == [Now.item[i] EXCEPT !.decaying = "PENDING", !.duration = d]
  <2>1. d \in Time
    BY DecayAssumption DEF Time
  <2>2. Now.item[i] \in Attributes
    BY <1>1 DEF State
  <2>3. a \in Attributes
    BY <2>1, <2>2 DEF Attributes
  <2>4. Changed(Now, i, a) = [Now EXCEPT !.item[i].decaying = "PENDING", !.item[i].duration = d]
    BY <1>1 DEF Changed, State, Attributes
  <2>5. BeginIn(Changed(Now, i, a), i)
    BY <1>6, <2>4 DEF SetDuration
  <2> HIDE DEF a
  <2> QED
    BY <1>1, <2>3, <2>5, ChangeHalts
<1>7. ASSUME NEW i \in Item, NEW t \in Type, Transform(i, t) PROVE Halted(Now, {})'
  <2> DEFINE a == SetID(Now.item[i], t)
  <2>1. a \in Attributes
    BY <1>1, SetIDLeaves DEF State
  <2>2. BeginIn(Changed(Now, i, a), i)
    <3>1. Changed(Now, i, a) = [Now EXCEPT !.item[i] = SetID(@, t)]
      BY DEF Changed, Now
    <3> QED
      BY <1>7, <3>1 DEF Transform
  <2> HIDE DEF a
  <2> QED
    BY <1>1, <2>1, <2>2, ChangeHalts
<1>8. ASSUME NEW j \in Item, NEW t \in Newborn, NEW l \in Item \cup {World}, Create(j, t, l)
      PROVE  Halted(Now, {})'
  <2> DEFINE R == Created(Now, j, t, l)
  <2>1. t \in Type /\ LaunchIn(R, j)
    BY <1>8, DecayAssumption DEF Create
  <2>2. R \in State /\ Halted(R, {})
    BY <1>1, <2>1, CreatedHalts
  <2> HIDE DEF R
  <2>3. Halted(R, {j})
    BY <2>2 DEF Halted
  <2> QED
    BY <2>1, <2>2, <2>3, LaunchHalts
<1>9. CASE Tick
  <2>1. item' = [i \in Item |-> [item[i] EXCEPT !.stamp = Earlier(@)]]
    BY <1>9 DEF Tick
  <2>2. \A i \in Item : /\ item'[i].decaying = item[i].decaying
                        /\ item'[i].stamp = Earlier(item[i].stamp)
    BY <1>1, <2>1 DEF State, Attributes, Now
  <2> QED
    BY <2>2 DEF Halted, Earlier, Now
<1>10. ASSUME NEW i \in Item, CheckItem(i) PROVE Halted(Now, {})'
  BY <1>1, <1>10, CheckItemHalts
<1>11. CASE Fire \/ CheckBegin \/ CheckEnd \/ (\E i \in Item : Destroy(i)) \/ UNCHANGED vars
  BY <1>2, <1>11 DEF Fire, CheckBegin, CheckEnd, Destroy, vars, items
<1> QED
  BY <1>3, <1>4, <1>5, <1>6, <1>7, <1>8, <1>9, <1>10, <1>11 DEF Next, Touch, Check

\* At the start nothing decays.
LEMMA InitHalts == Init => Halted(Now, {})
BY DEF Init, Halted, Now

\* What decays under a time stamp, and has time left, is in the map under it.
Dated(S, i) ==
  S.item[i].decaying \in {"TRUE", "STOPPING"} /\ S.item[i].stamp # NoTime
                                 /\ S.item[i].duration # NoTime => InMap(S, i)

\* Item b is of the type of item a and has the time left that a has.
SameTime(a, b) ==
  /\ b.type = a.type
  /\ IF a.duration = NoTime THEN b.duration = NoTime ELSE GetDuration(b) = GetDuration(a)

\* Stopping keeps what time is left.
LEMMA StopTimes ==
  ASSUME NEW S \in State, NEW X \in SUBSET Item, NEW i \in Item, Dated(S, i)
  PROVE  SameTime(S.item[i], StopAll(S, X).item[i])
<1> DEFINE a == S.item[i]
           found == i \in FoundIn(S, X)
<1>1. a \in Attributes
  BY DEF State
<1>2. StopAll(S, X).item[i] = IF i \in X /\ a.decaying # "FALSE" THEN Stopped(a, found) ELSE a
  BY StopIs
<1>3. i \in X /\ a.decaying \in {"TRUE", "STOPPING"} /\ a.stamp # NoTime /\ a.duration # NoTime => found
  BY DEF Dated, FoundIn
<1>4. found \in BOOLEAN
  OBVIOUS
<1> HIDE DEF a, found
<1>5. CASE i \in X /\ a.decaying # "FALSE"
  <2>1. SameTime(a, Stopped(a, found))
    <3>1. CASE a.decaying \in {"TRUE", "STOPPING"} /\ a.stamp # NoTime /\ a.duration # NoTime
      BY <1>1, <1>3, <1>5, <3>1, DecayAssumption
         DEF SameTime, Stopped, GetDuration, DurationOf, Attributes, Time
    <3>2. CASE ~(a.decaying \in {"TRUE", "STOPPING"} /\ a.stamp # NoTime /\ a.duration # NoTime)
      BY <1>1, <1>4, <3>2, DecayAssumption
         DEF SameTime, Stopped, GetDuration, DurationOf, Attributes, Time
    <3> QED
      BY <3>1, <3>2
  <2> QED
    BY <1>2, <1>5, <2>1 DEF a
<1>6. CASE ~(i \in X /\ a.decaying # "FALSE")
  BY <1>2, <1>6 DEF SameTime, a
<1> QED
  BY <1>5, <1>6

\* Starting changes no type, and no other item.
LEMMA LaunchTypes ==
  ASSUME NEW S \in State, NEW i \in Item, LaunchIn(S, i)
  PROVE  /\ item'[i].type = S.item[i].type
         /\ \A j \in Item \ {i} : item'[j] = S.item[j]
<1>1. CASE Become(StopAll(S, {i}))
  <2>1. item' = StopAll(S, {i}).item /\ {i} \in SUBSET Item
    BY <1>1 DEF Become
  <2>2. /\ \A j \in Item \ {i} : StopAll(S, {i}).item[j] = S.item[j]
        /\ StopAll(S, {i}).item[i] \in {S.item[i], Stopped(S.item[i], i \in FoundIn(S, {i}))}
    BY <2>1, StopIs
  <2>3. S.item[i] \in Attributes
    BY DEF State
  <2>4. Stopped(S.item[i], i \in FoundIn(S, {i})).type = S.item[i].type
    BY <2>3 DEF Stopped, Attributes
  <2> QED
    BY <2>1, <2>2, <2>4
<1>2. CASE Become(S)
  BY <1>2 DEF Become
<1>3. CASE StartIn(S, i)
  <2>1. S.item[i] \in Attributes
    BY DEF State
  <2>2. item' = [S.item EXCEPT ![i] = [S.item[i] EXCEPT !.decaying = "TRUE", !.stamp = S.item[i].duration]]
    BY <1>3 DEF StartIn, Become, State, Attributes
  <2> QED
    BY <2>1, <2>2 DEF State, Attributes
<1> QED
  BY <1>1, <1>2, <1>3 DEF LaunchIn

\* Starting takes the time that is left for the time stamp.
LEMMA LaunchTimes ==
  ASSUME NEW S \in State, NEW i \in Item, LaunchIn(S, i), Dated(S, i),
         S.item[i].duration = NoTime => ~CanDecay(S, i)
  PROVE  SameTime(S.item[i], item'[i])
<1> DEFINE a == S.item[i]
<1>1. a \in Attributes
  BY DEF State
<1>2. CASE Become(StopAll(S, {i}))
  BY <1>2, StopTimes DEF Become
<1>3. CASE Become(S)
  BY <1>3 DEF Become, SameTime
<1>4. CASE StartIn(S, i) /\ CanDecay(S, i) /\ a.decaying \notin {"TRUE", "STOPPING"}
  <2>1. item' = [S.item EXCEPT ![i] = [a EXCEPT !.decaying = "TRUE", !.stamp = a.duration]]
    BY <1>4 DEF StartIn, Become, State, Attributes
  <2>2. item'[i] = [a EXCEPT !.decaying = "TRUE", !.stamp = a.duration]
    BY <2>1 DEF State
  <2>3. a.duration # NoTime
    BY <1>4
  <2> HIDE DEF a
  <2>4. SameTime(a, item'[i])
    BY <1>1, <1>4, <2>2, <2>3 DEF SameTime, GetDuration, DurationOf, Attributes
  <2> QED
    BY <2>4 DEF a
<1> QED
  BY <1>2, <1>3, <1>4 DEF LaunchIn

\* What is out of time goes, or becomes something else, itself or in another
\* item.
LEMMA DecayTimes ==
  ASSUME NEW S \in State, NEW i \in Item \ Dead(S), CanDecay(S, i), DecayIn(S, i),
         S.item[i].decaying \notin {"TRUE", "STOPPING"}
  PROVE  item'[i].type = S.item[i].type => SameTime(S.item[i], item'[i])
<1> DEFINE t == DecayTo[S.item[i].type]
<1>1. /\ S.item[i] \in Attributes /\ S.item[i].type \in Type
      /\ t \in Type \cup {Vanish} /\ t # S.item[i].type
      /\ S.parent[i] \in Item \cup {World, Nowhere}
  BY DecayAssumption DEF CanDecay, State, Attributes
<1>2. SameTime(S.item[i], Removed(S, i).item[i]) /\ Removed(S, i) \in State
  <2>1. PICK U \in State, X \in SUBSET Item :
          U.item = S.item /\ U.map = S.map /\ Removed(S, i) = StopAll(U, X)
    BY RemovedStops
  <2>2. Dated(U, i)
    BY <2>1 DEF Dated
  <2> QED
    BY <2>1, <2>2, StopTimes, StopIs
<1>3. CASE Become(Removed(S, i))
  BY <1>2, <1>3 DEF Become
<1>4. ASSUME t \in Type, LaunchIn([S EXCEPT !.item[i] = SetID(@, t)], i)
      PROVE  item'[i].type # S.item[i].type
  <2> DEFINE a == SetID(S.item[i], t)
             R == Changed(S, i, a)
  <2>1. /\ a \in Attributes /\ a.type = t /\ LaunchIn(R, i)
    BY <1>1, <1>4, SetIDLeaves DEF Changed, State
  <2> HIDE DEF a
  <2>2. R \in State /\ R.item[i] = a
    BY <2>1 DEF Changed, State
  <2> HIDE DEF R
  <2> QED
    BY <1>1, <2>1, <2>2, LaunchTypes
<1>5. ASSUME t \in Type, NEW j \in Dead(S),
             LaunchIn(Created(Removed(S, i), j, t, S.parent[i]), j)
      PROVE  item'[i] = Removed(S, i).item[i]
  <2> DEFINE U == Removed(S, i)
             l == S.parent[i]
             R == Created(U, j, t, l)
  <2>1. j \in Item /\ i # j /\ U \in State
    BY <1>2 DEF Dead
  <2>2. LaunchIn(R, j)
    BY <1>5
  <2>3. t \in Type /\ l \in Item \cup {World, Nowhere}
    BY <1>1, <1>5
  <2> HIDE DEF U, l, t
  <2>4. R \in State /\ R.item[i] = U.item[i]
    BY <2>1, <2>3, CreatedIs
  <2> HIDE DEF R
  <2> QED
    BY <2>1, <2>2, <2>4, LaunchTypes DEF U
<1> QED
  BY <1>1, <1>2, <1>3, <1>4, <1>5 DEF DecayIn

\* A change of the type that gives no new time leaves the time that was left,
\* or none at all.
LEMMA TransformTimes ==
  ASSUME DecayInv, Halted(Now, {}), NEW i \in Item, NEW t \in Type, Transform(i, t),
         StopTime[t] \/ StopTime[item[i].type], item[i].duration # NoTime,
         item'[i].duration # NoTime, item'[i].type = t
  PROVE  GetDuration(item'[i]) <= GetDuration(item[i])
<1> DEFINE a == item[i]
           b == SetID(a, t)
           R == Changed(Now, i, b)
<1>1. Idle /\ Alive(i) /\ t # a.type
  BY DEF Transform
<1>2. Good(Now, {})
  BY <1>1 DEF DecayInv, Idle
<1>3. /\ Now \in State /\ a \in Attributes /\ refs[i] # 0
      /\ a.decaying = "TRUE" => InMap(Now, i)
      /\ a.decaying = "STOPPING" => a.stamp = NoTime
  <2>1. Now \in State /\ Counted(Now, {}) /\ NoneLost(Now, {})
    BY <1>2 DEF Good, GoodBut
  <2>2. refs[i] = One(InMap(Now, i)) + One(i \in {}) + One(parent[i] # Nowhere)
    BY <2>1 DEF Counted, Now
  <2> QED
    BY <1>1, <2>1, <2>2 DEF NoneLost, Halted, Now, State, One, Alive
<1>4. b \in Attributes /\ b.type = t
  BY <1>3, SetIDLeaves
<1>5. \/ b = [a EXCEPT !.type = t]
      \/ b.duration = NoTime /\ DecayTime[t] = 0
  BY <1>3, <1>4, DecayAssumption DEF SetID, Attributes
<1>6. BeginIn(R, i)
  BY DEF Transform, Changed, Now
<1> HIDE DEF b
<1>7. /\ R \in State /\ R.item[i] = b /\ R.map = decayMap /\ R.refs = refs
  BY <1>3, <1>4 DEF Changed, State, Now
<1> HIDE DEF R
<1>8. Dated(R, i) /\ (b.duration = NoTime => ~CanDecay(R, i))
  <2>1. CASE b = [a EXCEPT !.type = t]
    <3>1. b.decaying = a.decaying /\ b.stamp = a.stamp /\ b.duration = a.duration
      BY <1>3, <2>1 DEF Attributes
    <3> QED
      BY <1>3, <1>7, <3>1 DEF Dated, InMap, Now
  <2>2. CASE b.duration = NoTime /\ DecayTime[t] = 0
    BY <1>4, <1>7, <2>2 DEF Dated, CanDecay
  <2> QED
    BY <1>5, <2>1, <2>2
<1>9. SameTime(b, item'[i])
  <2>1. CASE LaunchIn(R, i)
    BY <1>7, <1>8, <2>1, LaunchTimes
  <2>2. CASE CanDecay(R, i) /\ b.decaying \in {"FALSE", "PENDING"} /\ DecayIn(R, i)
    <3>1. i \notin Dead(R)
      BY <1>3, <1>7 DEF Dead
    <3> QED
      BY <1>4, <1>7, <2>2, <3>1, DecayTimes
  <2> QED
    BY <1>6, <1>7, <2>1, <2>2 DEF BeginIn
<1>10. b = [a EXCEPT !.type = t]
  BY <1>5, <1>9 DEF SameTime
<1>11. GetDuration(b) = GetDuration(a) /\ b.duration # NoTime
  BY <1>3, <1>10 DEF GetDuration, DurationOf, Attributes
<1>12. GetDuration(a) \in Int
  BY <1>3 DEF GetDuration, DurationOf, Attributes, Time
<1> HIDE DEF a
<1> QED
  BY <1>9, <1>11, <1>12 DEF SameTime, a

\* A ring taken off and put on again lasts no longer, whatever stops, starts
\* and checks come in between.
THEOREM TimeNeverWon == Spec => NoTimeWon
<1>1. DecayInv /\ Halted(Now, {}) /\ [Next]_vars =>
        [\A i \in Item : \A t \in Type :
           Transform(i, t) /\ (StopTime[t] \/ StopTime[item[i].type])
                           /\ item[i].duration # NoTime /\ item'[i].duration # NoTime
                           /\ item'[i].type = t
             => GetDuration(item'[i]) <= GetDuration(item[i])]_vars
  BY TransformTimes
<1> QED
  BY <1>1, InitHalts, InitInv, NextHalts, NextInv, PTL DEF Spec, NoTimeWon
=============================================================================
