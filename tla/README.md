# Baiak Thunder: a verification development

Baiak Thunder is a server for a tile-based role-playing game (a fork of The
Forgotten Server). `src/src` is the C++ engine, `src/data` its content: items,
monsters, maps, Lua scripts. This directory holds TLA+ modules for the parts of
the engine where steps of several threads, players, timers or objects meet, the
configurations that model-check them with TLC, and proofs checked by TLAPS.

Paths below are relative to the repository; `tasks.cpp` stands for
`src/tasks.cpp` and so on.

## 1. Inventory

### Threads and how they interact

| thread | runs | hands work to others by |
|---|---|---|
| main / network | `otserv.cpp` main, then the `io_service` of `server.cpp`: accepts, reads, writes, timers of connections, signals | `g_dispatcher.addTask` |
| dispatcher | `Dispatcher::threadMain`: every handler of the game, one task after the other | direct calls; `g_scheduler.addEvent`, `g_databaseTasks.addTask`, `Connection::send`, `Connection::close` |
| scheduler | `Scheduler::threadMain`: an `io_service` of timers | `g_dispatcher.addTask` when a timer expires |
| database | `DatabaseTasks::threadMain`: asynchronous queries | `g_dispatcher.addTask` of the callback |

Everything in the game (players, items, map) is touched by the dispatcher thread
only, so a handler is atomic there; the hazards inside the game are not data
races but what *other handlers* did between two steps of one protocol (a trade, a
decaying item). The queues, the shutdown and the connections are where threads
really interleave.

### Components

| component | state it keeps | operations | what is hard | what makes it correct | modelled in |
|---|---|---|---|---|---|
| Dispatcher (`tasks.cpp`) | `taskList`, thread state, mutex, condition | `addTask`, `shutdown`, `stop`, `threadMain` | signal only if the list was empty, after the unlock; state read outside the lock | no lost wake-up; tasks in order, one at a time; nothing accepted is left behind | TaskQueue, Dispatcher |
| Scheduler (`scheduler.cpp`) | `eventIdTimerMap`, timers, posted handlers | `addEvent`, `stopEvent`, `shutdown` | cancel against expiry against shutdown | a task is owned, and deleted, once | Scheduler |
| Database tasks (`databasetasks.cpp`) | `tasks`, thread state | `addTask`, `flush`, `shutdown`, `threadMain` | two threads execute from one queue | accepted queries are executed once; order; the thread ends | DatabaseTasks |
| Process life cycle (`otserv.cpp`, `signals.cpp`, `server.cpp`, `game.cpp` 75-200, 4530-4555) | game state, where each thread is | signals, `setGameState`, `saveGameState`, `Game::shutdown`, joins | four threads end each other | everything saved, everybody ends | ServerShutdown |
| Connections (`connection.cpp`) | socket, `connectionState`, `messageQueue`, two timers, `ConnectionManager` | accept, read, write, send, close, timeouts | `close` from several threads; close with messages queued; stale timeouts | one write at a time, order, one release, the socket closes | Connection |
| Login and waiting list (`protocolgame.cpp`, `waitlist.cpp`, `game.cpp`) | `Game::players`, `Player::client`, `isConnecting`, `Creature::referenceCounter`, wait lists | login, takeover, connect, logout, kick, death, release | two connections of one player; an event a second later; retry against timeout of a slot | a player is in the world once, has one client, and is released exactly when nobody refers to it; slots are kept | Session |
| Output pool (`outputmessage.cpp`, `protocol.cpp`) | buffers, the autosend list | add, remove, `sendAll` | a timer chain that plans itself again | a chain whenever there is output | Session |
| Chat channels (`chat.cpp`) | `users` by id, `invites`, owners | open, close, invite, exclude, create, leave all | pointers to players who leave while listed elsewhere | who hears a channel is in the game and may | Chat, over Session |
| Parties (`party.cpp`, `game.cpp` party handlers) | `Player::party`, `invitePartyList`, members, invitees, `ticksMap`, the channel by address | create, invite, revoke, join, leave, pass on, share, fight, walk | clearing lists that delete parties while they are walked | no pointer to a deleted party; who shares is together | Party |
| Items in the world (`tile.cpp`, `container.cpp`, `player.cpp`, `game.cpp` 990-1560) | parents, stacks, room, money | `internalAddItem`, `internalMoveItem`, `internalRemoveItem`, `removeMoney`, `addMoney` | a move is test, query, remove and add on different objects, parts of stacks merge | no item doubled, none lost but where there is no room | Items |
| Trades (`game.cpp` 2388-2762, `player.cpp`) | `tradeState`, `tradePartner`, `tradeItem` of players, `Game::tradeItems`, reference counters | request, accept, look, close, and every change of an item | everything may happen between the offer and the exchange | the partners agree, the offer is what was seen, both items change hands | Trade |
| Decay (`decay.cpp`, `item.cpp`, `game.cpp` 4428-4475) | `decayMap`, state, duration and stamp of items, planned checks | start, stop, check, transform | a check works off items that change each other; planned checks are replaced too late | what decays is in the map once, will be checked, ends, and is not freed in use | Decay |
| Creatures, monsters (`creature.cpp`, `monster.cpp`) | check lists, targets, friends, masters | think, walk, attack, remove | what a creature was when it came in decides where it is taken out | no dangling target | the check list of players, in Session |
| Combat and conditions (`combat.cpp`, `condition.cpp`) | condition lists, ticks | add, merge, execute, end | conditions that end themselves or kill | each ends once | - |
| Houses, beds (`house.cpp`, `bed.cpp`) | owner, doors, lists, transfer document | buy, sell, transfer, sleep | transfer by trade, owner offline | one owner; both halves of a bed agree | - |
| Spawns, raids (`spawn.cpp`, `raids.cpp`) | timers, counts | check, start, end | timers that plan themselves, a slot filled seconds after it was seen empty | the number of monsters is bounded | - |
| Guilds, VIP lists (`guild.cpp`, `player.cpp`) | ranks, lists of ids | load, add, remove | entries of players offline | lists agree with the database | - |
| Lua and scripts (`luascript.cpp`, `data/`) | environments, registries | callbacks into everything above | scripts act between two steps of a handler | what they may do is an action of the part concerned | - |
| Loaders, configuration, database access, tools | read once, or stateless | load, query | none of several steps | - | - |

`PROJECT.json` lists the same components with their files and the hazards of the
code at their lines, each with the properties that would catch it or the reason
why none does.

## 2. Plan

What exists, in the order of importance:

1. **TaskQueue, Dispatcher**: the queue everything else relies on; abstract
   specification and refinement; proofs of both.
2. **DatabaseTasks, Scheduler, ServerShutdown**: the other queues, composed with the
   dispatcher and the main thread into the shutdown; every safety property proved.
3. **Trade**: the protocol of several actors with the most ways to go wrong; proved.
4. **Decay**: timers, reference counts and items that change each other; its safety proved.
5. **Connection**: the boundary between network thread and dispatcher; its safety proved.
6. **Session** and **Chat** over it: players who come, are taken over and go, and what
   keeps pointers to them; proved.
7. **Party**: symmetric relations; proved.
8. **Items**: stacks and money; proved.

What is left, in this order: **Spawns** (the timer chain of a spawn over the scheduler, with
the hazards at `spawn.cpp:275`); **Monsters** (friends, targets and masters,
`monster.cpp:483`); **Conditions**, whose lists are walked while they change; **Houses** (ownership
and the transfer document, on top of Trade; beds); start-up and the acceptors of the
ports; containers in containers in Items. Every safety property that a run of the modules above
checks has its theorem; each new module is to get the same.

## 3. The modules

Each module names, above every definition, the handler it stands for;
`PROJECT.json` has the lines.

**TaskQueue** is what the dispatcher promises: an ordered queue, one worker, no locks.

**Dispatcher** has the list under its mutex, the worker's program counter
(`dPc`: at the head of the loop, about to test the list under the lock, waiting,
executing, exited), the set of threads that owe a signal after unlocking
(`dNotify`), and the thread state. A section under the lock is one step, a
`notify_one` after the unlock is another, and a waiting worker may wake up for no
reason. The module ends with an instance of TaskQueue under a refinement mapping.

**DatabaseTasks** and **Scheduler** are written the same way. A query is taken,
executed and answered in three steps, and `flush()` does the same on the
dispatcher thread. A scheduler handler (arm a timer, cancel one, complete one, drain
all) is a record in the io_service's queue.

**ServerShutdown** puts the three queues and the main thread together. A task of
the game is reduced to the calls it can make on the queues; the tasks of the
shutdown are followed statement by statement (`step`): `setGameState`, the save with
its flush, the task that runs `Game::shutdown`, the three `stop()`, the final flush,
the three `shutdown()`, the end of the services and the joins of `main`.

**Session** has protocols, Connection objects and Player objects. A protocol is new, has posted
its task of login, or has run it (`stage`). Its connection is open, closed (by anybody, at any
time: then the task of `release()` follows), and gone when the last handler that held it
is done; the time between the two is a step of its own, because `connect()` asks for the second
and means the first. A Player object is named after the protocol that made it and is counted
by its holders: the protocol, `Game::players`, the list `checkCreatures` walks (`thinking`) and
the list `cleanup()` works off (`toRelease`). The waiting list is `clientLogin` with its two
lists, where any entry may have timed out at a cleanup. `sendAll` is a chain of events, of which
there may be more than one (`chains`).

**Chat** extends Session: each step of it is a step of Session with its consequences for the
channels (`SessionStep`: who leaves the game, or gets a new client, leaves all of them), or a call
of the players on the channels themselves. Users and invitations are maps from the id of a
character to a Player object, as in the code, since a stale entry is found by the next login.

**Party** names a party by its address, because the channel of a party is found by it,
and the address is free again after `delete`. A handler is a function on a record of the state
(`Now`), composed in the order of the code; so `clearPartyInvitations` may delete parties of
others on its way, and the members a leader leaves behind choose a successor.

**Items** has the three kinds of cylinders of `internalMoveItem` with their queries and their
auto-stacking: a slot, a backpack, the ground. What is light enough to carry is a choice of each call.
`owed` is history: what scripts and shops have given, less what they have taken. A loop of the code is
one round (`AddRound`, `TakeRound`, `PayRound`) and a recursive function that takes it as often as there
can be rounds; a round after the end of the loop changes nothing.

**Trade** has `tradeState`, `tradePartner`, `tradeItem` of the players,
`Game::tradeItems`, `Item::referenceCounter` and `ToReleaseItems`, and the world
as far as trades see it: who is online, where each player stands on a line, and
the parent of every item (a slot, a bag, the ground). Bags nest. One action for
each handler: request or counter-offer, the first acceptance, the exchange with its
two tests and two moves, its failure, cancelling, walking, logging out; and what may
happen to items meanwhile: moves by anybody who can reach them, removal and change
(decay, scripts), `Game::cleanup`. The notifications `onAddContainerItem`,
`onRemoveContainerItem` and their kin are the sets `HitBy...`, evaluated in the state in
which the code calls them. Both outcomes of checks that look at things left out (line of
sight, Lua events) are possible.

**Decay** has for each item its type, decay state, duration, stamp, parent and
reference counter, `decayMap`, the planned check (`current`), the replaced ones that
were too late to be cancelled (`timers`), and `checkDecay` with its `tempItems` and its iterator
(`next`), one item of its loop at a time since each calls back into the rest. Moments count
from now: a step of time lowers them. Setting a type follows `Item::setID`.

**Connection** has one connection: state, socket, the outstanding read, the messages whose `async_write`
is outstanding and the number of writes that are complete with their handlers to come, `messageQueue`, both timers, timeouts that can no
longer be cancelled, the protocol object, a dispatcher that waits for the lock inside
`close()`, and the peer, who sends, reads, stalls or goes. Nothing in the state keeps writes apart: several may be
outstanding, and the peer then takes any of them. That there is one rests on `Queued`, which starts a write only if
the queue was empty (`connection.cpp:246`), and on `NextWrite`, the part of `onWriteOperation` that pops the front
and starts the next.

**MCTrade**, **MCDecay** give TLC its worlds; the other modules are checked as they are. The modules
whose names end in **Proofs** hold the theorems, those of a module and of the modules it extends together;
**Recursion** has the lemmas on recursive functions that they share.

How they compose: ServerShutdown extends DatabaseTasks and Scheduler, which extend
Dispatcher, which instantiates TaskQueue. Chat extends Session. Session refines the end of a
connection that Connection has: `Close` is the one `release()` which `ReleasedOnce` promises, and
`Destroy` is Connection's. All modules of the game rely on the dispatcher only through what
TaskQueue states: handlers run one at a time, in order.

Operators that begin with a comment `Mutant:` are not part of a specification. Each is a
plausible mistake in the definition below it, and shows that a property notices it.

## 4. Runs

| run | configuration | checks | distinct states |
|---|---|---|---|
| server | a message, an event, two queries (one with a callback), SIGTERM | seven properties: ownership, what is left, queries, wake-ups, refinement of TaskQueue with its fairness, both threads end | 649,027 |
| server_hang | the same with one query | **violated:** all threads end | - |
| chat | three connections, three characters, room for one, a normal and a private channel | seven properties of Session and Chat | 579,792 |
| session_leak | the same without channels | **violated:** a released protocol has let go of its player | - |
| party | three players, two addresses of parties, two ranges | soundness of all pointers, sharing | 39,155 |
| items | two kinds of ammunition, two of coins, stacks up to 3, a backpack of two | four properties of items and money | 7,062 |
| trade | three players, two nested bags and a sword, two places out of reach of each other | seven properties of trades | 193,872 |
| trade_exchange | two players | **violated:** an exchange swaps both items | - |
| decay | two torches that burn to stubs, can be put out and relit, or a corpse with one in it; a running clock | seven properties, among them that what decays ends | 234,127 |
| decay_iterator | a corpse with a torch in it and a torch beside it | **violated:** the iterator of a check stays valid | - |
| connection | up to three messages | order, one write, one release, last words, timeouts, destruction | 12,452 |
| connection_stall | up to two messages | **violated:** the socket of a closed connection closes | - |

What the properties say. The type invariants of ServerShutdown, Trade, Connection and Party
are proved (section 5) and not among the runs' properties; those of Session, Items and Decay are both.

- `NoSleepOverWork`: when the worker waits and the list is not empty, somebody owes it a
  signal. `ImplementsTaskQueue`: locks, signals and wake-ups add nothing to an ordered
  queue that is always worked off, also in the whole server and its shutdown.
- `OwnedOnce`: a task is in one place (list, hand, timer, posted handler), so it is deleted
  once. `NoTaskLeftBehind`: the dispatcher ends with an empty list. `QueriesDurable`: at
  the end each accepted query was executed, once. `OnlyInHandOvertaken`: `flush()` on the
  dispatcher thread can overtake a query only while one of the two threads has it in hand.
  So a save can be reordered with the one query the database thread had begun, and with
  nothing else. `DispatcherAndSchedulerEnd`: both end after a shutdown was asked for.
- `PlayersSound`: a Player object has as many references as holders and goes with the last
  one, clients and players point to each other, and a character is in the game once, through
  logins, takeovers, kicks, deaths and lost connections in any order. `WaitingListKept`: the
  server is no fuller than it may be, who waits is not in the game and waits once. `OutputServed`: a
  client with output has a `sendAll` to come, and a released one is not in its list.
- `HearersInGame`: every pointer of a channel leads to the player who is in the game under that id.
  `PrivateStaysPrivate`: nobody is in a private channel who is not invited, and it ends with its owner.
  `NewClientHearsNothing`: a client that takes a character over starts without the channels the one before
  had open.
- `PartiesSound`: players, parties, invitations and channels point to each other mutually, no party
  stays that nobody could end, nobody who left is listed. `SharingTogether`: a party that shares experience has
  been looked at after every step that could part it.
- `NothingDoubled`: there is never more than was given. `LostOnlyWhenFull`: nothing is lost where
  the backpack has room, but for the heavy part of a stack from the floor. `OverfullOnlyByExchange`: only an
  exchange of a part of a stack overfills a backpack.
- `PartnersAgree`, `OffersRegistered`, `ReferencesCounted`: the two sides of a trade, the
  map of offers and the counters fit together. `OffersApart`: no offer lies in another.
  `TradersInReach`: partners stay near each other and near what they offer. `OfferFrozen`: what is
  on offer cannot be altered while the offer stands. `RoomMeansSwap`: with room outside of the
  offers, an exchange completes.
- `CheckPlanned`: whatever decays, a check will come in time, in spite of replaced timers.
  It needs `IteratorValid`: after a check that ended on an iterator that dangles the next may come too late.
  In the decay run two items are too few for that, with three TLC shows it; the theorem has the
  condition. `StampMatchesMap`: an item counts as decaying exactly if it is in the map under its stamp.
  `ReferencesHeld`: entries and `tempItems` hold a reference each, nothing else does.
  `NoDecayOutside`: nothing decays that left the world, itself or with its container.
  `NoTimeWon`: types that keep their time do not gain any. `DecayEnds`: what is left alone
  ends.
- `OneWrite`: while messages are queued exactly one write is outstanding, of the front of the queue, or complete
  with its handler to come, otherwise none. `InOrder`: the peer gets them in order, without gap.
  `ReleasedOnce`: the game learns once of the end. `LastWordsArrive`: closing waits for what
  is queued. `SilenceEnds`: a silent connection is closed. `ClosedIsDestroyed`: the object
  goes if the peer takes what is written.

### Bounds and why they are enough

- *QueueBound*, *PostBound*, *MaxSends*, *RefBound*, *MaxTime*, *TileBound*, *OwedBound* are bounds in
  guards (or on constants) and limit only how much is under way at once. Three entries in a list have a
  front, a back and something between; the event handlers posted at once are at most an
  arm, a cancel and a completion of one event. *RefBound* is reached by one offer on top of
  the world's reference, with *released* pending from the one before.
- *server*: a message, an event, two queries and a signal are one of each thing that is under way when a
  shutdown comes, and two of what has an order; one query has a callback, which is a task again.
- *chat*: three connections are the client in the game, the one that takes over and a third that comes
  between; with room for one, two can wait behind each other. Of three characters one may always enter, one
  waits in the priority list and one in the ordinary list. One private channel is freed and taken again by another owner.
- *party*: three players are a leader, one who follows him, and one who is invited; two addresses are enough for
  an invitation to another party while in one, and for an address used again. Two ranges stand for
  "near enough to the leader in place and level" and not.
- *items*: a largest stack of 3 stands for 100: it has an empty, a partly filled and a full one, parts and
  rests, and makes change. A backpack of two has room for the one and not for the other. *OwedBound* lets
  three stacks of one kind exist. The constraint `Bounded` cuts behaviours in which more is given.
- Two players make a trade and the third interferes: takes the offer from the ground,
  asks one who is trading. Two bags and a sword give an offer in a bag in a bag. Places 0 and
  3 are the two sides of every distance in the code: 0 is within 1 and 2, 3 is beyond both.
  `Gear`, items for a slot other than the backpack, is empty in the run: such a slot adds
  what the backpack slot does. The proofs hold for any.
- *decay*: two items of one bucket and of two are both among the moments 0 to 2; one lies in the other or beside
  it. Durations set by scripts and the smallest delay are 1. What more items could add is proved, but for `DecayEnds`.
- *connection*: three messages are one being written, one queued and one sent after.
- Symmetry is used where only safety is checked: protocols (chat), players, addresses and ranges (party),
  ammunition (items), the two players other than the owner of the bag (trade).
- Deadlock is not checked where the system may stop for good: servers that have ended, connections that
  are gone, protocols that are used up, worlds in which all players have left.

### Fairness, and why the code justifies it

- *Dispatcher, ServerShutdown*: weak fairness of each thread, because the operating system
  runs threads that can run, and no lock is held for ever; of a signal once owed, because
  `notify_one` is the next statement of its thread; of timers. Nothing obliges a message,
  a query, an event or a spurious wake-up to come.
- *Decay*: the clock runs, the scheduler fires what is due, the dispatcher gets to a queued
  check (which `ImplementsTaskQueue` and `DispatcherAndSchedulerEnd` are about). Nobody has to touch an item.
- *Connection*: the handlers of the network thread, timers and the waiter for the lock are
  fair. The peer owes nothing; `ClosedIsDestroyed` states in its premise that it reads.
- *Session, Chat, Party, Items, Trade* have safety properties only and no fairness.

### Disagreements with what the code says of itself

1. **The process may not end** (`AllThreadsEnd`, `databasetasks.cpp:37`). The database
   thread tests its state, then locks, then waits for a signal. A shutdown between the
   test and the lock is missed and `main` joins the thread for ever.
2. **An exchange may drop an item** (`ExchangeComplete`, `game.cpp:1260`). The test of
   an exchange does not look at the room found by `queryMaxCount` when the destination is the player; with
   room only in the bag he himself offers, the second move takes the item from its place and
   puts it nowhere. `addMoney` has the same answer: into a full backpack it reports success.
3. **checkDecay keeps an iterator it invalidates** (`IteratorValid`, `decay.cpp:120`).
   Working off a container stops its contents, whose bucket may be the one the iterator stands on. The next check is
   then planned for whatever the freed memory says.
4. **A closed connection may stay** (`SocketCloses`, `connection.cpp:83`). Closed with a message
   pending and a peer that does not read, it is reached neither by its timeout nor by `closeAll()`.
5. **A released client may get a player** (`ReleasedLetsGo`, `protocolgame.cpp:191`). `connect()`
   takes a Connection object that is gone as the sign that `release()` has run; a closed connection whose
   last handler is not done is released and not gone, and becomes the client of the player for good.

## 5. Proofs

All for any values of the constants, under the named assumptions of the modules, which TLC evaluates on
the runs. They say that constants of different kinds differ, that bounds are numbers, and beyond that:
`ServerAssumption` and those it rests on, that messages, events, callbacks and the tasks of the
shutdown are different objects, and that the task of `Game::shutdown` has no deadline; `LayoutsAssumption`, that no item lies in itself at
the start and no bag has more in it than it can hold; `TradeAssumption`, that there are finitely many items;
`DecayAssumption`, what `items.xml` says of types (who decays does not keep time, and has a
successor other than itself or vanishes), that durations set by scripts are positive, and that containers
are one deep; `SessionAssumption`, finitely many connections and characters.

**ServerProofs** begins with the dispatcher alone. `DInv` is the type invariant, `NoSleepOverWork` and `EndsInLoop`:
the state is TERMINATED only when the worker is back at the head of its loop or gone. The last is what the
refinement needs: after the worker has finished the task that ends it, it takes no other. From
`DInv`: `TypeCorrect`, `NoLostWakeUp`, and `QueueRefined`, that the initial state and
every step map to TaskQueue (its fairness stays with TLC). Then every step of the server uses the dispatcher in one of the ways of `DMove`, so
`DInv` and the refinement carry over (`MoveInv`, `MoveQueue`). On top of it `BaseInv` has the types and what the program
counters mean. A shutdown goes through seven phases (`Open`, `Asked`, `Closing`, `Closed`, `Ending`, `Emptied`, `Ended`), each
saying which tasks of the shutdown are in the list and which states the queues have; `NoTaskLeftBehind` is
what the last one says. `Ledger` accounts for the queries: what is taken off the queue is a prefix of what was
accepted, each query of which was executed once or is in one of the two hands; `QueriesDurable` and `OnlyInHandOvertaken`
follow. `Own(x)` says of one task that it is at one place only, in every list once; `OwnedOnce` is that for all.

**TradeProofs.** `PartnersAgree`, `OffersRegistered` and `ReferencesCounted` are inductive together with the
types and `OfferedInWorld`: an offered item has not left the world. Without it, an
exchange could bring back an item whose reference the world has given up. All
ways to end a trade go through one lemma (`ClearOffers`): resetting a set of players that is
closed under partnership leaves the other trades whole and turns each erased entry of
`tradeItems` into one pending release. Each action then needs only that its set is closed
(`EndedClosed`) and that it does not remove what it moves. The second half is about bags in bags: `Holders` is a least
closed set, and from that alone follow that holding is transitive and linear and what a move changes
(`HoldersKept`, `HoldersMoved`). With `Acyclic`, that nothing lies in itself, `Spared` says that the
notifications find every offer that a move concerns; `OffersApart`, `TradersInReach` and `OfferFrozen` follow for
every action, for the exchange by using it twice, on the layout between the two moves as well.
`RoomMeansSwap` needs that no bag is overfull (`Fits`), which every action keeps. The room that the exchange's
test found for the second item is there after the first move (`RoomStays`): the bag with room is where it was, or it was
the offer given away or lay in it, and then that offer has left its place in the bag around it.

**DecayProofs.** Handlers change a record of the state, one item after the other; `GoodBut(S, T, E)` says that
it is good but for the items T being worked off and the items E between two statements: every entry is under the stamp of
its item, who counts as decaying is in the map, nobody in the map is lost, references are counted. Each
operator keeps it for what it does not touch, and a handler ends with T and E empty. From it: `StampAlwaysMatches`,
`ReferencesAlwaysHeld`, `NeverDecaysOutside`. `PlanInv` says that for each moment in the map a check is queued,
planned in time, or under way and looking at no later moment; it is kept as long as the iterator is
valid, which the theorem `ChecksAlwaysPlanned` has as its condition. `NoTimeWon` needs one thing more:
that an item which is still marked as stopping has no stamp left (`Halted`), or the time since that stamp would be
counted twice. Then stopping, setting the type and starting, one after the other, each keep the time left (`SameTime`).

**ConnectionProofs.** `ReleaseInv` adds to `ReleasedOnce` that an open connection has a read
outstanding, so that it cannot be destroyed before `close()` saw it, and that only an
accepted one has a protocol. `WriteInv` says that the queue is the run of numbers from the
first message the peer has not got, and that nothing is queued or written, or the front of the queue is being written,
or that write is complete and its handler to come (`Writing`); from that `LastWrite` has that a write which ends was the
only one. `LastWordsArrive` needs also that the manager has forgotten a closed connection, or `closeAll()` could cut it short (`Forgotten`).

**PartyProofs.** `SoundBut` says what holds between two calls of one handler: all pointers are sound but for
parties about to be deleted, parties about to look at their members, and players about to give up their
invitations. Each function the handlers are composed of has a lemma that says which of these it adds and
which it settles, and each handler ends with none.

**ChatProofs.** `Body` counts the references of Player objects with who and what they are, `Net` has the
order of a protocol's life; both are needed for the takeover, where the event of `connect()` acts on what it
finds. A step of Session keeps the channels but for those who leave (`SessionStep`), so the theorems about
channels and those about players are proved of one specification, ChatSpec. `WaitingListKept` is not inductive
by itself: a character who may always enter does so without a look at the lists, so `LineInv` says that no
such character is in them. `Kept`, the cleanup of a list, is a recursive function, whose result is a
part of the list, in order, by the lemmas of Recursion. The bounds in `SessionTypeOK` are theorems too: a
protocol starts a chain of `sendAll` at most once, when its login runs (`Bounds`), and a Player object has
three references at most, since who is in the game is not yet among those to be released (`Apart`).

**ItemsProofs, Recursion.** The prover has no induction over operators, so Recursion states it of sets and functions:
a set of numbers that is not empty has a least element (from the well-foundedness of the numbers), a set closed under
successors up to `n` has all of them (`UpTo`), and a step from a set to itself can be taken `n` times (`Steps`), which is
that the recursive functions of the model are there at all. With these each sum and each loop is followed by its
invariant, from sums of sequences through what a cylinder adds and removes, the rounds of the loops, and the three
forms of a move. `Fair` says what a call does to every account: it gains no more than is owed, and where
there is a free slot before and after it loses nothing, but for the heavy part from the floor; the last conjunct is
the overfull backpack. `Accounted`, that all that is there is owed and that stacks are of legal size in legal places, is
the inductive invariant. It is more than `NothingDoubled`, since the arithmetic of merging (`StackMax` less
what is there) is sound only for stacks within their bounds. `removeMoney` is the hard part: its rounds pay the
stacks worth least first, and the change of the last one is added before its coins are taken, so the position
of the stack moves by the number of new stacks; what is paid, less the change, is the price.

**Only model-checked**: liveness (`DispatcherAndSchedulerEnd`, `DecayEnds`, `SilenceEnds`,
`ClosedIsDestroyed`, and the fairness of TaskQueue in `ImplementsTaskQueue`), which is beyond the prover.

## 6. What is not modelled, and why

- Start-up, with the wait of `main` for the loader signal, and the acceptors of the ports; houses; monsters and
  spawns; conditions: planned (section 2). Their hazards are listed without a property.
- The data race of `ConnectionManager::closeAll()`, which uses sockets without their lock:
  one step here, as the grain of the model is the handler.
- In Session: the order in which `checkCreatures` goes through its list, loading and saving of characters, bans (all choices), the
  login list of ProtocolLogin, configurations other than that of `config.lua` (clones, several characters of an account). Guilds and VIP lists.
- In Items: containers in containers, weights (a choice of each call; within a payment what was added of platinum leaves
  less for the gold, since all coins weigh the same), depots, mail and stores, which refuse or forward what is
  moved into them.
- Stackable items in trades: what an exchange of stacks adds is the merging that Items has.
  A container leaves the world only when it is empty (`RemoveItem`), so a corpse that decays with its contents
  is left out, and so is the exchange of an item with the one in its slot (`game.cpp:1083-1113`): both
  notify the trades of what they touch as the removals and moves of the model do.
  House documents in trades belong to houses. Lua events during an exchange: those in
  `data/events` change nothing.
- In Decay: clones of decaying items; a script's `item:decay(id)` that changes what the type decays to while the
  server runs (`luascript.cpp:6474`, used by `actions/scripts/other/music.lua`): what types decay to is constant here; the loop of `Container::startDecaying`; the number of
  superfluous checks (checks due at the same moment are one); containers in containers;
  `ReleaseItem` gives a reference back at once.
- The bindings of Lua (a fifth of the engine's lines), loaders, tools and the schema: conversions and tables without
  steps of their own. Scripts of `data/` act through the operations modelled.
- Wording, packet layouts, encryption, formulas and content: data no property is about.
