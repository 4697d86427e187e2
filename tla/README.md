# Specifications of the Canary server

Canary is an Open Tibia server: one process that runs a game world for the
clients connected to it and keeps players, houses, guilds and settings in a MySQL
database.  Its code is in `src/src`; paths below are relative to that directory.

This directory models the parts of it on which the correctness of the rest
depends and which tests hardly reach: the event loop, the database session, the
key-value store, the login queue, the connections of the clients, the life of a
character between its clients and the database, and the bank with the market.  The
models are checked by TLC on small instances.  Every safety property that a passing run
checks, invariant, action property or refinement, is also proved for every instance with
TLAPS; the liveness properties are checked by TLC only.

## The system

One thread of the pool, the *dispatcher*, runs the game.  Everything else posts
events to it: the network thread (asio) posts what it parsed, the signal handlers
post, events post more events and schedule later ones.  Pool threads run the
asynchronous events of a parallel phase, detached saves (`toggleSaveAsync`) and
`DatabaseTasks`.  All of them share one MySQL session.

| component | state | operations | interacts with | what makes it correct |
|---|---|---|---|---|
| Dispatcher (`game/scheduling/dispatcher.*`, `task.*`) | per-thread queues with a mutex each, merged lists, scheduled tasks, ids, `hasPendingTasks`, condition variable | addEvent, asyncEvent, scheduleEvent, cycleEvent, stopEvent, init, shutdown | every other component | nothing lost, doubled or reordered; phases exclude one another; no missed wake-up; stopped means stopped |
| Thread pool (`lib/thread`) | stopped flag, thread numbers | detach_task, submit_loop, shutdown | Dispatcher, saves, DatabaseTasks | a number per thread; jobs end before shutdown does |
| Database (`database/database.*`) | the session, `databaseLock`, transaction state | executeQuery, storeQuery, begin, commit, rollback, DBInsert | saves, key-value store, DatabaseTasks | transactions are atomic and separate; the lock is returned |
| DatabaseTasks (`database/databasetasks.*`) | none | execute, store | Database, Dispatcher (callbacks) | each query is executed once and takes effect on its own |
| Key-value store (`kv`) | cache, LRU list, table | set, remove, get, keys, saveAll, flush | Database, Lua | a persistent map; bounded |
| Save manager (`game/scheduling/save_manager.*`) | times of the scheduled saves | scheduleAll, schedulePlayer, savePlayer, saveAll | Game, Database, pool | the last state of a player reaches the database |
| Waiting list (`creatures/players/management/waitlist.*`) | two lists, references into them | clientLogin, getClientSlot | ProtocolGame, Game | order kept, no dangling reference, honest place |
| Login and logout (`server/network/protocol/protocolgame.cpp`) | the player of each client, `eventConnect`, the maps of names | login, connect, logout, release, death screen | Game, Dispatcher, Save manager | one client and one copy per character |
| Connection (`server/network/connection`, `server/network/protocol/protocol.cpp`) | write queue, state, timers, one message buffer | send, close, parse, timers | Protocol, asio, Dispatcher | one writer, one reader, in order, drained on close |
| Output messages (`server/network/message/outputmessage.*`) | autosend list, an output buffer for each protocol | addProtocolToAutosend, sendAll | Protocol, Dispatcher | every buffer is sent while its protocol lives |
| Service ports, signals (`server/*.cpp`) | acceptor, pendingStart | open, accept, close | Dispatcher | one pending re-open |
| Decay (`items/decay`) | map of due times, event id | startDecay, stopDecay, checkDecay | Dispatcher, Game | each decaying item once in the map, an event for the earliest |
| Bank, market (`game/bank`, `io/iomarket.cpp`, `game/game.cpp:8860-9313`) | balances, offers | credit, debit, transfer; create, cancel, accept | Save manager, Database | money and goods are conserved |
| Trade (`game/game.cpp:4756-5165`) | trade states, `tradeItems` | request, accept, close | Game | both items change hands or neither |
| Game state, start and shutdown (`canary_server.cpp`, `game/game.cpp:555-625`) | `gameState` | setGameState, shutdown | all | saved before it stops |
| Party, guild, house, raids, spawns, chat, prey, wheel, ... | game content | on the dispatcher | Game | rules of the game |
| Map, containers, combat, path finding | game content | on the dispatcher | Game | rules of the game |
| Lua, protocol encoding, configuration, logging, metrics | | | | |

The hard behaviours are: posts racing the loop's merges and its decision to
sleep; a parallel phase between sequential ones; timers stopped at any moment; a
transaction that is opened under a lock, with a gap before the lock is kept;
failed statements and lost connections inside a transaction; a cache that evicts
while a copy of it is being written; handlers of a socket that let go of its lock
half-way, or that hand its one message buffer to another thread; a client that
breaks off, is replaced or falls silent at any moment; saves that overtake one
another or a login; offers paid out by a query that is out of date; iterators and
counters kept across calls that change the container.  `hazards` in
`PROJECT.json` lists them at their lines.

## The modules

| module | models | state and actions |
|---|---|---|
| `Dispatcher` | dispatcher, its tasks and timers, its jobs in the pool | inboxes (`queue`, `asyncQueue`, `timed`), merged lists (`serial`, `batch`, `sched`), ids, the place of the loop (`pc`), what each thread executes |
| `MCDispatcher` | | instances: the dispatcher's thread, another pool thread, the network thread |
| `Facts` | | lemmas that several proofs use: sequences, induction over numbers and finite sets, sums |
| `DispatcherProofs` | | theorems on `Dispatcher` |
| `DbTransaction` | database session, `DBTransaction`, `DatabaseTasks::execute` | the lock, the session (`inTransaction`, `working`, `durable`), the place of each call |
| `MCDbTransaction`, `DbTransactionProofs` | | instances; theorems |
| `KVMap` | what the key-value store promises | a map and what of it is saved |
| `KVStore` | the store as implemented | cache, LRU list, table, the copies of running saves |
| `MCKVStore` | | instances |
| `KVStoreProofs` | | theorems on `KVStore`, among them the refinement of `KVMap` |
| `WaitingList`, `MCWaitingList` | the login queue | both lists, the counters `std::list` keeps, the references, who is online |
| `WaitingListProofs` | | theorems on `WaitingList` |
| `Channel` | what the sending side of a connection promises the game | what was written, what arrived, whether it is over |
| `Connection` | one connection and its protocol | a record of the members; an operator for what each handler makes of it |
| `Network`, `MCNetwork` | the connections with the threads that work on them, and the autosend list | a record for each connection, the list, the pending events `sendAll`; an action for each handler |
| `NetworkProofs` | | lemmas on `Connection`, theorems on `Network`, among them that it implements `Channel` |
| `Session`, `MCSession` | a character between its clients, the world, the death screen, saves and copies | protocols, `Player` objects, both maps of names, saves at work, the row in the database |
| `SessionProofs` | | theorems on `Session` |
| `Market`, `MCMarket` | bank and market | the account in the `Player` and in the row, the offers, the query of expired offers |
| `MarketProofs` | | theorems on `Market` |

`Network` composes `Connection` with the dispatcher's events and with
`OutputMessagePool`.  `Session` and `Market` take the dispatcher as what
`Dispatcher` shows it to be, one thread that runs event after event, each of which
is one step, in the order of the thread that posted them.

Definitions called *Bug* are variants of the operator that follows them, used
only to see that a property notices such a mistake.  In `Dispatcher`, for
instance, `EndTimedWithoutPhase` is `EndTimed` without the parallel phase.

### Dispatcher

* A post is two steps: append under the thread's mutex, then `Notify`, which also
  releases it (the load, the store and `notify_one` of `notify()` are one step).
  `scheduleEvent` has a step more, as `Task::getId` increments and then reads
  the shared counter; two threads may draw the same id, and `emplace` then keeps
  the first entry.
* Time is the cached `OTSYS_TIME()`, which only the loop updates
  (`dispatcher.cpp:24,30`).  `left` counts down to -1, which is enough to tell
  due from expired.
* The loop's place `pc` follows `init`: `update`, `serial`, `mergeAsync` and
  `parallel` (after the serial and again after the scheduled events), `timed`,
  `merge`, `test`, `wait`, `asleep`.  Each thread's inbox is merged in a step of
  its own, in any order, under its mutex.  The clear-then-set of
  `checkPendingTasks` is one step: what another thread can see in between is what it
  sees before or after, and what it writes in between has the same effect as a
  write after it or before it.
* Events with a body take two steps, begin and end, between which the body
  posts, schedules and stops.  Bodies terminate.
* `wait_for` is given the time to the next scheduled event, and the longest
  duration there is if there is none.  Adding that to the clock overflows in some
  standard libraries, and the wait returns at once: `Spurious` covers this and
  real spurious wake-ups.
* `asyncWait` is called by the parallel phase only; its nesting guard is not
  modelled.

### DbTransaction

One session.  `BEGIN` takes and returns `databaseLock`; `Lock` takes it again for
the body; `BEGIN` inside a transaction commits it, as MySQL does.  A failing
`BEGIN` is ignored by `executeWithinTransaction`, so that the body runs unlocked and
`Commit` is called without ownership: unlocking then has no effect (the mutex is
recursive and checks its owner on the platforms the server runs on).  `Lose` is
the lost connection, with automatic reconnection in autocommit mode.

### KVStore

Each call of set, remove and get holds the mutex and is one step, with the
eviction and its write.  `saveAll` is two: the copy, under the mutex, and the
transaction.  Writes fail, up to `MaxFailures` times.  When that of `saveAll` does, what
was made before stays, as a body that returns false is committed: some of the deletions,
or all of them and the batches of rows that `DBInsert` had sent (`database.cpp:348-371`).
An eviction
ignores that its write failed (`kv.cpp:49`): `KVMap` says that exactly one key is then
again as the table has it (`LostOne`), and that nothing else changes for the caller.  `MAX_SIZE` is 1,000,000 in the code and 2 here; the interesting
states need only one key more than fit.  `keys` reads only.  `flush` is not
called on the store by the server (called, it would block on its own mutex).

### WaitingList

Every login is one event of the dispatcher, thus one step: both lists are
cleaned, the client takes or keeps its entry, and is admitted if its slot leaves
room.  The two lists and the lengths that `std::list` keeps are separate
variables, since `clientLogin` erases entries of the priority list through
`waitList` (`waitlist.cpp:83`).  That is undefined by the standard; the model
has what libstdc++ and its like do, the node is unhooked and the wrong counter
is decremented.  An entry may time out at any moment.  Premium status does not
change while queued.

### Connection and Network

* `ServiceManager` has one thread run the `io_service`, so that the handlers of all
  sockets exclude one another; the dispatcher's events do not exclude them.  The
  only handler that lets go of `connectionLock` half-way is the writer, for
  `onSendMessage`: `TakeFront` and `Encoded` are two steps, between which the
  dispatcher sends and closes.
* The content of a packet decides what becomes of it; where the code tests it (proxy
  line, lengths, rates, checksum, password), the handler's outcome is a choice.  Data
  for the client are numbered items, a message is a sequence of them, and notices
  that bypass the output buffer are empty messages.  A client may be disconnected with
  a notice or without one.
* The greeting and the release are posted for 30 s (`connection.cpp:65`), and discarded if
  the dispatcher takes them up later (`task.cpp:45`).  Time is not modelled: either may
  happen to each of them.  A protocol whose release was discarded stays in the autosend
  list.
* A packet is read into the connection's one buffer and parsed by an event on the
  dispatcher, and only then the next one is read (`ResumeWork`).
* `close` on a connection that is closed returns at once (`connection.cpp:59`), so that
  the write timer has no effect on a write that hangs after a graceful close.
  `ClosedLetsGo` therefore supposes that writes end, well or not.  It is about the
  socket only: that the protocol lets go of its player the code does not promise.
* `Strangers` are protocols of which only the place in the autosend list is modelled:
  with one other the list is emptied and refilled, which starts a second chain of
  `sendAll`; with two, the last of the list takes the place of a removed one.
  `chains` counts the chains.

### Session

* A `ProtocolGame` creates at most one `Player`, so that a `Player` is named by its
  client.  Shared pointers are modelled by who holds them (`Held`, `Alive`), as a
  weak pointer in `m_uniqueLoginPlayerNames` and in a scheduled save finds nothing once
  they are gone.
* The two maps of names are separate: `unique` (logins find a character there) and
  `mapped` (transfers and scripts do).  Death clears the second only.
* The release of a connection is an event of its own, which may wait (and, with its
  30 s of life, be discarded), while the character's next client logs in.
* Dying is two steps.  `changeHealth` leaves the `Player` at health 0 (`low`) and posts
  `executeDeath` (`creature.cpp:874`; `deaths` counts the events).  Until that runs the
  character is in the world and in both maps, while its packets are already taken to come
  from the death screen (`protocolgame.cpp:920`; `OnDeathScreen`).  Its health may rise
  again before (regeneration, or a save, which writes no health below 1); the event
  comes all the same and kills whoever has the id by then, which is that of the character:
  a later `Player` too.  `checkCreatures` kills whom it finds at health 0 without
  waiting for the event.
* A packet in that window starts the check of the death screen, which ends at once as
  the `Player` is not dead (`game.cpp:10371`), and counts as asked: after the death that
  follows this client starts no check until the character has respawned.
* `spawn` fails when the temple has no tile: the `Player` goes by `removeCreature`, which
  saves it and frees its name only if it was still on the map.
* `ParsePacketDead` is the whole handler of a packet from the death screen, with the
  check (`playerCheckActivity`) that its first packet runs before it is looked at.
  `m_deathTime` is never reset, so that checks of all deaths of a `Player` add up.
* A scheduled save is three steps: the tests on the pool thread, erasing the mark and
  reading the state, and the write.  The mark belongs to the character's guid, not
  to the `Player`.  A save whose `Player` is freed is skipped.
* `async` is the setting `toggleSaveAsync`, fixed at the start.

Behaviours that the model shows and `OneInWorld` excepts (`struck`): a character that is in
the world loses its name in the login map, so that the next login does not find it and
creates a second `Player`, while the map is there "to ensure no duplicate logins"
(`game.hpp:660`).

* A character's client breaks off while a packet that asks to respawn waits for the
  dispatcher, and the character dies.  The packet starts the check of the death screen,
  which finds the client gone and strikes the name (`game.cpp:10362-10367`), and the same
  handler then respawns the character (`protocolgame.cpp:922-928`, `:959`).
* Between health 0 and `executeDeath` a client of the other kind (`isOTC`) sends 0x14:
  the name is erased (`protocolgame.cpp:940-943`), the character is still in the world, and
  a login that waits in the dispatcher runs before the event.
* A `Player` that was struck on the death screen still has its client's last packet
  before the dispatcher: it respawns without a name, or erases, with 0x14, the name
  that a second `Player` has by then.

### Market

* An account is coins, bank balance and goods.  That of a character in the world or
  on the death screen is in its `Player`, that of any other in the database;
  `Change` is how the code reaches it: the `Player` found by guid or name, or else a
  copy that is loaded, changed and saved.  A `Player` in the world that is changed on
  account of somebody else is not saved then (`Change`'s second argument has those
  that are).
* Coins are removed before the bank's money, except where an offer is bought.
  `removeOfferItems` of more than there is removes what it finds (`game.cpp:8938`
  says so): `RemoveOfferItemsFails`, whose goods `lost` counts.
* `checkExpiredOffers` is three steps: the event, the query on a pool thread, the
  callback, which works on the query's result.  It gives back the amounts of the result
  (`iomarket.cpp:163`), out of date if the offer was accepted in part meanwhile: money or
  goods are then made.  A `Player` that respawns goes on with the account it died
  with, over a row that may have changed.  In both cases the execution is `disturbed`
  and not followed further.

## The runs

| run | instance | shows |
|---|---|---|
| `DispatcherPhases` | 3 threads, 2 of them in the pool; 2 serial events (one may expire), 2 asynchronous, 1 scheduled; 3.6 million states | `NoneLost`, `HeldOnce`, `PhaseExclusion`, `FifoPerThread`, `CompletionAfterAsync`, `NoSleepOverMerged` |
| `DispatcherLiveness` | 2 threads that both schedule, all kinds of events, one periodic | `EveryEventHandled`, `CyclesRecur`, `LoopStops`, and `StopIsFinal`: a stopped event never starts, wherever it is by then |
| `DispatcherLostWakeup` | a periodic and a serial event | **fails**: the dispatcher sleeps over a posted event |
| `DbTransaction` | 3 transactions on 2 threads, a standalone statement on a third, 2 statements each, 2 faults | `LockKept`, `Atomic`, `Finishes` |
| `DbTransactionRollback` | the default configuration: saves on the dispatcher only | **fails**: a rollback discards a statement of another call |
| `KVStore` | 3 keys, 2 values, room for 2, 2 failing writes, one thread; 31,000 states | `ListMatchesStore`, `SaveAllPersists`, and that `KVStore` implements `KVMap` |
| `KVStoreAsync` | the saves on a pool thread | **fails**: a save brings an old value back |
| `WaitingList` | 2 places, 2 premium players, 2 others, a gamemaster, 2 admissions from the lists | `ReferencesMatch`, `NoOvertaking`, `PlaceNotUnderstated` |
| `WaitingListPlace` | the same | **fails**: a client is told a wrong place |
| `Network` | one connection, 3 items, 5 reads, buffers of 2 items, numbers up to 2, 2 strangers; 660,000 states | `OneWriter`, `OneReader`, `Numbered`, `ReleasedIsForgotten`, that the connection implements `Channel`, `WrittenArrivesOrCloses`, `ClosedLetsGo` |
| `Session` | two clients of one character, 1 change, 1 pending `executeDeath`; one client and 3 saves when they are asynchronous; 2.4 million states | `OneInWorld`, `ClientHasPlayer`, `NothingLost`, `ScheduledIsSaved` |
| `Market` | two characters, 2 offers, amounts 1 and 2; 310,000 states | `MoneyKept`, `GoodsKept`, `ExpiredIsReturned` |

The instances are small because the properties speak of few actors at once: two
events and two posters make every order; a third thread separates the network
from the pool; two statements make a transaction that can be cut in the middle; one key
more than the cache holds forces evictions; two players per class and two places
make a queue behind which somebody waits, is admitted and comes back.  Three items fill
an output buffer and start the next; five reads bring a connection through proxy line,
header, first message and a second packet; numbers up to 2 wrap.  Two clients replace one
another, and a client that was replaced stays around; one change is enough to be lost, and
one death event to come late (`NothingIsLost` is proved for any number of both); three
saves overtake one another.  Offers of two items are accepted in part.
`DispatcherPhases` uses the symmetry of the asynchronous and of the scheduled events,
which no definition tells apart there.  Bounds that the code does not have: `MaxStep` (clock
steps), `MaxFaults`, `MaxFailures`, `MaxAdmitted`, that each event is posted once; `MaxData`,
`MaxPackets`, `MaxChains` of `Network`; `AsyncClients`, `KickAfter` (960 checks of a second with the default of 15 minutes),
`MaxChanges`, `MaxSaves`, `MaxChecks`, `MaxDeaths` of `Session`; `Ids`, `Lots` of `Market`.  Deadlock
is checked for `KVStore`; the other systems may stop (after shutdown, or when all
there is has been posted or sent).

The four failing runs are the findings in `PROJECT.json`:

1. *Lost wake-up* (`dispatcher.cpp:36`).  The loop finds `hasPendingTasks` false;
   before it waits, a thread appends, sets the flag and notifies nobody.  Later
   posts see the flag set and do not notify either.  The next scheduled event, or a
   wait that returns by itself, ends it; the server always has periodic
   events, so the effect is a delay, and `EveryEventHandled` still holds.
2. *Foreign statement in a transaction* (`database.cpp:61-65`).
3. *An old copy overwrites an evicted newer value* (`kv_sql.cpp:82`), only with the
   setting `toggleSaveAsync`, which `config.lua.dist` calls experimental.
4. *The wrong list* (`waitlist.cpp:83`).  Each client admitted from the priority list
   leaves its size one too high.  Places are then wrong, and after as many such
   admissions as there are places no queued client without premium time is let in.
   Nobody overtakes on account of it, premium players are told their own place and the
   others never one before theirs: `NoOvertaking` and `PlaceNotUnderstated` hold.

### Fairness

`DispatcherLiveness` assumes weak fairness of the loop's steps, of the steps that
finish what a thread has begun (registering, notifying, returning from a body),
of the pool taking up its jobs, of the timed wait and of the second half of a
shutdown.  All are code that runs once begun, on threads the system schedules.
Nobody has to post, stop or shut down, and no wake-up is spurious there.  A
periodic event is scheduled from the start, as `Game::start` does; without one
the lost wake-up would leave an event for ever.
`DbTransaction` assumes that a thread inside `executeWithinTransaction` goes on,
so that every statement returns; `storeQuery` itself retries for ever while the
session does not recover (`database.cpp:163`).
`Network` assumes that the dispatcher and the network thread take up what is posted to
them (the dispatcher may discard the greeting and the release when it does), that a read
or write on a broken connection fails, and that the write timer expires.  Clients owe nothing, and no write needs to succeed.
`Session` assumes that pool threads run the saves they are given, and nothing of
the clients or the dispatcher.  `Market` assumes that the periodic check, its query and its
callback run.

## The proofs

`DispatcherProofs`, for any sets of threads and events and any delays:

* `TypeCorrect`: `TypeOK` is inductive.
* `PhasesExclude`: `PhaseExclusion`.  It is not inductive, as it says nothing of
  why no pool thread is busy when the loop begins a serial event.  `PhaseInv` ties
  what threads execute to the loop's place: outside `parallel` the dispatcher's
  partition is empty and pool threads are idle, inside it the dispatcher executes
  asynchronous events only.
* `Ownership`: `NoneLost` and `HeldOnce`.  Inductive with `PhaseInv` (which thread's
  running event a step ends) and `IdInv` (an event has no id before it is posted,
  and the id it is registered under is not 0, so that it is registered once).  The moves
  between sequences rest on `Facts`.  `ExecutedOnce` states the second half by itself.
* `MergedEventsKeepItAwake`: `NoSleepOverMerged`, by `PhaseInv` and `SleepInv`, which
  says what is left of the merged lists at each place of a pass: no batch outside
  the parallel phase, and no serial event once the flag was found false.

`DbTransactionProofs`, for any calls, threads, lengths and numbers of faults:

* `TypeCorrect`.
* `LockIsKept`: `LockKept`, with the two facts of `LockInv` that a thread is in one
  call at a time and that a locked call is past its lock.
* `SealedAreAtomic`: `Atomic`.  `AtomicInv` adds that without faults every body
  holds the lock, and that every write in the session belongs to a statement that
  was executed.

`KVStoreProofs`, for any keys, values, sizes and threads:

* `TypeCorrect`, `ListIsStore`: `ListMatchesStore`.  `IInv` joins the two and adds that
  the cache is finite, without which its size is no number to compare.
* `StoreImplementsMap`: with one thread that uses and saves the store (`SingleThread`),
  `KVStore` implements `KVMap`.  The map is what is visible: the cached value, or else the
  row.  `SetLocked` maps to `Put`, `Load` to `Reload`, `GetCached` to `Read`,
  `WriteCopy` and `WriteCopyFails` to `Save`, `CopyStore` to no step.  An eviction
  maps to what it does to a key other than the one set, which is why `ListMatchesStore`
  is needed: the last key of the list is cached, and is not the new one.  The step of
  `WriteCopy` needs `CopyInv`: the copy that is being written is the cache.  With
  a saver on another thread it is not, as the run `KVStoreAsync` shows.
* `SavedIsAll`: `SaveAllPersists`, from the same invariants.

`NetworkProofs`, for any connections, strangers and bounds, from lemmas on `Connection`, one
for each operator, on the record it makes:

* `TypeCorrect`, `WriterIsOne`, `ReaderIsOne`, `NumbersCount` and `ReleasedIsOut`:
  the type invariant, `OneWriter`, `OneReader`, `Numbered` and `ReleasedIsForgotten`.
  `IInv` says, besides `TypeOK`, that a protocol is listed at most once (the list
  moves its last entry to the place of a removed one), and `Good` of every
  connection: its `Part` of each of these properties, and that an open connection has
  exactly one reader (a read at the socket, a packet in the hands of the
  dispatcher, or its return), never none and never two.  `Numbered` rests on facts about
  remainders.
* `NetworkImplementsChannel`: `ImplementsChannel`, that every connection implements
  `Channel`.  `Channel` sees the items written, the items delivered and whether it is
  over; it does not see that the items in between wait in the messages of a queue
  and in the output buffer, which is where an implementation could lose or exchange them.
  `FlowInv` says for each connection that what is on the wire, the messages of the queue and
  the buffer continue one another without a gap as long as it is open (`InOrder`), that the
  message being written is the one at the front of the queue (`AtFront`), and that
  what is not connected has no items and what is shut is closed (`InTurn`).  Each
  handler is then one of three steps of the channel: one that shows nothing (`Silent`), a write or
  a delivery; `Follows` chains the operators that one handler calls.

`SessionProofs`, for any clients and bounds, with synchronous and asynchronous saves:

* `TypeCorrect`, `InWorldOnce` (`OneInWorld`), `ClientKnows` (`ClientHasPlayer`)
  and `NothingIsLost` (`NothingLost`).  None of them is inductive.  `IInv` adds that a
  client that has not logged in has no `Player` (`Fresh`), that the client a `Player` names
  is one that has it (`Mine`), that a character which was dead for too long is out of
  the login map (`InTime`), that there are no tasks when saves are synchronous
  (`NoTasks`), and that a dead `Player` that may still respawn holds every
  change of the character (`DeadKeeps`): respawning brings it back without a look at
  the database.  `InWorldOnce` and `NothingIsLost` hold of characters that never lost
  their name in the world (`struck`), `NothingIsLost` also of synchronous saves and of
  characters no copy of which was changed while they were dead (`crossed`).

`DispatcherProofs` also proves the two properties of order and the one of stopping:

* `CompletionsWait`: `CompletionAfterAsync`.  By `PromiseInv`, until its asynchronous
  event has ended, a completion waits in the dispatcher's own inbox, with a parallel
  phase to go before that inbox is merged.
* `PostersKeepOrder`: `FifoPerThread`.  By `FifoInv`, of two serial events of a
  thread the earlier one is ahead in the inbox or in the merged list, is not left in the
  inbox when the later one is merged, and has ended when the later one begins.  The lemmas `BeforeAppend`, `BeforeConcat` and
  `BeforeTail` say what the three moves of an event do to that order.
* `StopsAreFinal`: `StopIsFinal`, an action property.  By `StopInv`, an event with an id
  of its own that still waits is cancelled, or it is registered under its id and
  `stopEvent` was not called for it.  Only `executeScheduledEvents` starts scheduled
  events (`Starting`), and it skips those that are cancelled.

`WaitingListProofs`, for any players of each class, places and admissions:

* `TypeCorrect`, `ReferencesCorrect` (`ReferencesMatch`).  `IInv` adds `SizesMatch`, what
  erasing through the wrong list makes of the two counters: their sum is right, and that
  of the priority list is never too small.  Without it a slot could be negative.
* `InTurn`: `NoOvertaking`.  The slot that `clientLogin` computes is larger than the number
  of players ahead of the client (`SlotCounts`), because a clean-up keeps the order of the
  entries that stay (`WithoutKeeps`), as many entries are before one as its position
  says (`BeforeCounts`), and by `SizesMatch`.  An admitted client's slot fits into the
  room that is left, so those ahead of it do.
* `PlacesAreNotBetter`: `PlaceNotUnderstated`, the part of `PlaceIsPosition` that is true,
  from the same lemmas.

`MarketProofs`, for any finite set of characters, any accounts, price, fee, amounts and
numbers of offers:

* `TypeCorrect`: `TypeOK`, which here says that no account and no offer becomes negative:
  each operation tests or takes no more than there is.
* `MoneyConserved` and `GoodsConserved`: `MoneyKept` and `GoodsKept`.  `IInv` is the type
  invariant, that the offers are a finite set with one offer for each id (`OffersOK`), and,
  unless `disturbed`, both balances.  The ids are what makes a sum over offers change by
  one offer when one is accepted in part.  For each operation a lemma says what it adds
  to which accounts and to the offers, and `Facts` what that makes of the sums.

`Facts` does the induction these need.  A theorem of the library that takes an operator as
a parameter cannot be instantiated by the provers, but a set can: what holds of 0 and of
n + 1 with n is put into a set of numbers, which `SetOfNat` says is all of `Nat`, and
`SetOfSubsets` does the same for the finite subsets of a set.  From these follow that sums
over a finite set (`MapThenSumSet`, `SumFunction`) exist, and what adding, removing or
changing an element makes of them; in `WaitingListProofs`, that the recursive function
`Without` filters its list and keeps the order.

The theorems rest on the assumptions named in the modules (`ThreadAssumption`,
`EventAssumption`, `TimeAssumption`, `StoreAssumption`, `QueueAssumption`,
`ConnectionAssumption`, `NetworkAssumption`, `MarketAssumption` and a `SessionAssumption`
each in `DbTransaction` and `Session`), which TLC evaluates in the runs, and on nothing
else but `SingleThread` where it is named.  `QueueAssumption` and `MarketAssumption` say
that the players and characters are finitely many: one counts them, the other adds up
their money.

Checked by TLC only: the liveness properties, which are out of the prover's reach, namely
`EveryEventHandled`, `CyclesRecur`, `LoopStops`, `Finishes`, `WrittenArrivesOrCloses`,
`ClosedLetsGo`, `ScheduledIsSaved` and `ExpiredIsReturned`; and the four properties that
fail.

## Plan

Done, in the order of what the rest depends on: the dispatcher, the database session,
the key-value store, the login queue, connections with the autosend list, the life of a
character with its saves, bank and market.  Next:

1. `Decay`: the map of due times and the chain of its events, with decays started and
   stopped from inside `checkDecay`.  Each decaying item is in the map once, and while
   there is one, an event is due no later than the earliest.
2. `Trade`: both items change hands or neither does, though the second move is not
   checked (`game.cpp:4994`).
3. `DbInsert`: rows sent once, over packets of limited size.
4. Service ports with their one pending re-open, and the states of the game from
   start to shutdown, with the saves in between.
5. Crashes: `Session` and `Market` over the row that the last transaction left.

Abstract specifications: `KVMap` and `Channel` (done); a store of players whose last
state is what a login reads, for `Session` with crashes.  Theorems: the safety of `Decay`.

## Not modelled

The contents of the game (map, combat, items, quests, parties, houses, spawns), the Lua
layer, encodings, RSA, configuration, logging and metrics: sequential code on the
dispatcher, tables and formulas, or input and output.  Decay, trade, `DBInsert`,
service ports and the states of the game are planned.

Within the modelled parts:

* thread numbers and the race in `getThreadId`, the life time of closures and tasks;
* the building of queries, connecting, the callback of `DatabaseTasks::execute`;
* values and scopes of the key-value store, and a load from it that fails (it answers
  that there is no row);
* a premium status that changes while its player queues;
* encryption, compression, the login and status protocols; spectators and the camera
  protocol; the checks that turn a client away, which are one choice;
* `scheduleAll` and `saveAll` of the save manager, and a save that fails;
* guild accounts, store coins, the inbox, history and statistics of the market; in
  `Market`, asynchronous saves, and crashes between a save and the next.
