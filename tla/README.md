# A verification of cpp-hiredis-cluster

TLA+ models of the cluster client in `include/` and of the connection pool in
`src/examples/threadpool.cpp`, TLC runs over small instances of them, and proofs
checked by TLAPS for every instance. Paths below are relative to the repository.

## 1. The system

The library is header-only C++ over hiredis. A *command* object takes a
connection from a *cluster* object, which delegates to a *container*; the reply
says whether the command is done or must be sent again to another node.

| Component | State | Operations | Talks to |
|---|---|---|---|
| `SlotHash` (`slothash.h`) | none | `SlotByKey`: CRC16 of the key or of its hash tag, modulo 2^14 | called by `Cluster::getConnection` |
| `Cluster` (`cluster.h`) | `connections_`, `readytouse_`, `moved_`, the moved callback, the destruct callback | constructor/`init` from a `cluster slots` reply, `getConnection`, `createNewConnection`, `releaseConnection`, `deleteConnection`, `moved`, `stop`, `disconnect`, destructor | container; commands; callbacks of the user |
| `DefaultContainer` (`container.h`) | `nodes_` (slot range to connection), `connections_` (host to connection) | `insert` x2, `searchBySlots`, `getConnection`, `releaseConnection` (does nothing), `deleteConnection`, `disconnect` | connect and free functions of the command classes |
| `ThreadedPool` (`threadpool.cpp`) | the same maps, to a queue and a condition variable each; one mutex `conLock_` | `insert` x2, `fillPool`, `pullConnection`, `pushConnection`, `getConnection`, `releaseConnection`, `disconnect` | any number of threads |
| `HiredisCommand` (`hirediscommand.h`) | one call of `process()`: two connection pairs, a reply | `createCluster`, `Command`/`AltCommand`, `process`, `asking` | cluster; hiredis (blocking) |
| `AsyncHiredisCommand` (`asynchirediscommand.h`) | a heap object per command: `con_`, callback, error callback; a `ConnectContext` per cluster | `createCluster`, `Command`, `processCommandReply`, `runRedisCallback`, `retry`, `disconnectCb`, `connect`, destructor | cluster; hiredis (asynchronous), the event loop |
| `HiredisProcess` (`hiredisprocess.h`) | none | `parsehostport`, `processResult`, `checkCritical` | both command classes |
| `ClusterException` (`clusterexception.h`) | none | constructors free the reply they are given | thrown everywhere |
| Adapters (`include/adapters/`) | libevent and libuv: none; boost asio: read/write requested and in-progress flags, the context | attach; `on_read`, `on_write`, handlers, `cleanup` | hiredis and the event loop |

### Behaviour that is hard to get right

* **Threads.** The blocking client is used by many threads over one
  `ThreadedPool`. A command takes up to two connections, one after the other;
  critical sections are short but `disconnect()` sleeps inside one; `notify_one`
  comes after the unlock; `readytouse_` is read under no lock.
* **Redirections.** ASK needs an `ASKING` in front of the command, on the same
  connection, with nothing in between; MOVED does not.
* **Failures.** A connect or a connection can fail at any step, and replies can
  be errors; an exception leaves `process()` from several places.
* **Callbacks.** The asynchronous client owns its commands and its connections
  through callbacks of hiredis, which runs them also while it tears a context
  down. Commands share redirection connections.
* **Teardown.** `stop()`, `disconnect()` and the destructor can meet commands
  under way.

### What makes each component correct

* `ThreadedPool` with `HiredisCommand`: a connection is in one hand at a time
  and returns to its own pool; no wakeup is lost; nobody waits for a connection
  while holding one; teardown frees no connection in use, and ends; a thread
  reads the reply to its own request; a command is served under `ASKING` if and
  only if it asked; errors come out as exceptions.
* `AsyncHiredisCommand`: each live command has exactly one callback pending,
  each user callback runs once, no freed command or context is used, a command
  ends at the node that owns its slot.
* `DefaultContainer::searchBySlots` finds the range that contains the slot, or
  throws, as a linear search would. `SlotHash` computes the cluster's slot.
* `HiredisProcess` rejects what it cannot parse.
* The boost adapter never has two reads or two writes in flight, and stops when
  hiredis lets go of the context.

`PROJECT.json` lists the hazards with their lines and the properties that would
catch them.

## 2. Plan

Done:

1. **`ThreadedPool`, `SyncCommand`**: the pool and the blocking client, with
   threads, faults and teardown.
2. **`AsyncCommand`**: the asynchronous client over hiredis contexts, with
   `DefaultContainer`, error callbacks, retries, lost connections and teardown.
3. **`SlotHash`, `SlotMap`, `ClusterSetup`**, composed in `ClusterRouting`: from
   `createCluster` to the connection a key is routed to.
4. **`Redirection`, `BlockingCommand`**: what the blocking client makes of replies.
5. **`BoostAdapter`**: the adapter for boost asio.
6. **`AsyncSubscription`**: subscriptions of the asynchronous client.
7. **`ConnectionPool`, `CommandService`**: what a container and a client promise,
   implemented by `SyncCommand` (`SyncRefinement`) and `AsyncCommand`
   (`AsyncRefinement`).

8. The proofs of the safety properties, of both refinements and of what `SlotHash`
   computes (section 5).

Left: subscriptions that are redirected, and the destruction of the boost adapter
with operations in flight (section 6). What is checked and not proved is beyond
the prover (end of section 5).

## 3. Modules

### `ThreadedPool`

Keys (slot ranges of `nodes_`, hosts of `connections_`) are numbers, in the order
in which the `std::map` keeps them. A pool is an object, apart from the key it is
under: `<<k, "first">>` is the one made for key `k` before `connections_` is
cleared, `<<k, "second">>` the one made after. `entry[k]` is the map entry:
`"absent"`, `"null"` after `disconnect()` has deleted the pool and before it clears
the map, or which pool it points to (`Live`, `At`, `Mapped`). `queue[p]` is the
`std::queue`, `sleeping[p]` the wait set of the condition variable, and `conLock` is
TRUE while the main thread keeps `conLock_` over several steps; a worker's
critical section is one step, so its lock needs no state. The module gives the
operations of the class as parameterised actions (`Pull`, `Wait`, `Push`,
`NotifyOne`, `CreatePool`, `CreatePoolFails`, `DeletePool`, `ClearMap`) and has no
next-state relation of its own. A connection is `<<p, i>>`: the `i`-th that
`fillPool` made for pool `p`; `NodeOf` is the node it leads to.

### `SyncCommand`

`Thread` runs `HiredisCommand::process()`; `Main` runs `stop()`, `disconnect()`.
Variables per thread: `pc`, the leg of `process()` it is on (`leg`), the
`SlotConnection` or `HostConnection` pair in use (`key`, `con`), the pool that
`pullConnection` or `pushConnection` has a reference to (`pool`) and `reply`. Per
connection: `err`, the requests written and not answered (`wire`), and the thread
whose ASKING is in force (`asking`). `phase`, `drain`, `left` follow
`disconnect()`: `drain` is the pool at its iterator, `left` how many connections
of it are still to be pulled. `behind` records for the properties the pools
inserted where the iterator had already been.

| Action | Code |
|---|---|
| `Begin`, `NotInitialized` | the test of `readytouse_` in `Cluster::getConnection` |
| `GetConnection`, `PullAgain`, `Insert` | the container's critical sections; `Take` is what `process()` does next with the connection |
| `Send`, `SendAsking` | the request is written |
| `AskingReply`, `SlotReply`, `AskReply`, `MovedReply` | the blocking read returns, `checkCritical` and `processResult` look at the result |
| `Release`, `Notify` | `pushConnection`: push under the lock, `notify_one` after it; then `process()` returns or starts the next leg |
| `Stop`, `Disconnect` | `Cluster::stop`, `Cluster::disconnect` |
| `EnterMap`, `DrainOne`, `DrainEnd`, `LeaveMap` | `disconnect(T&)` for each of the two maps: the iterator starts at the first key (`PointAt`); one connection is pulled and freed, or Main sleeps with `conLock_` open; the pool is deleted and the iterator goes to the next key that is in the map by then; at the end the map is cleared |
| `Spurious` | a `wait()` returns unasked |
| `UseDeletedPool` | a thread that `disconnect()` did not wait for, since it held no connection, touches the pool it has a reference to (`DrainEnd` moves it to `"dangling"`) |

Undefined behaviour is explicit. A NULL or deleted pool or a NULL reply that is
dereferenced sets `crashed` and the system stops; a `reply` that nobody wrote is
`"garbage"`, and where `checkCritical` inspects it the three outcomes (it
crashes, it throws, it sees nothing) are a choice.

`disconnect()` walks a map once, in key order. While it sleeps, `insert()` may make
a pool at a key the iterator has passed: that pool is neither drained nor deleted,
and `cons.clear()` drops its entry, whoever uses it (`Forgotten`). Its users then
release into a NULL pool, or into one made anew for the same node; whoever still
sleeps on the lost pool is not woken by that.

External and abstracted: hiredis is modelled by its contract (a request is
answered in order; `err` is never reset; `redisGetReply` leaves its argument
unwritten on failure); a node may answer any command with any of the replies
`process()` tells apart. Slots are not modelled below slot ranges. A fault the
`Faults` constant does not contain does not happen.

### `ConnectionPool`, `SyncRefinement`

`ConnectionPool` is what a container promises its users: a connection is idle,
in the hands of one client, or out of the pool; a client takes one idle
connection at a time, gives it back or loses it; only idle ones are closed; and
a node's connections are opened when none of it is open, but for those the pool
has lost track of (`forgotten`). `SyncRefinement` maps `idle` to the contents of
all queues, `held` to `con` and `forgotten` to the connections of the pools in
`Forgotten`, and states `ImplementsConnectionPool`. Sleeping, waking, the lock, the wire and the legs of
`process()` become stuttering; a redirection that finds a broken connection and
throws is `Close`, an exception with a connection in hand is `Abandon`, a
partial `fillPool` is `Open` with fewer connections, and `cons.clear()` is `Forget`.

### Proof modules

`SyncCommandProofs`, `SyncRefinementProofs`, `AsyncCommandProofs`,
`AsyncSubscriptionProofs`, `BoostAdapterProofs`, `ClusterSetupProofs`,
`SlotHashProofs` and `BlockingCommandProofs` hold the theorems about the module each
is named for; the refinement of `AsyncRefinement` is proved at the end of
`AsyncCommandProofs`, and `ClusterSetupProofs` is also about `SlotMap` and
`ClusterRouting`. See section 5. The `MC` modules give the symmetry sets and the finite tables TLC needs.

### `AsyncCommand`

One thread runs the event loop, so a callback of hiredis is one step with every
call it makes: what processing one reply does to the command, to its redirection
connection, to the maps and to the context it came from. A `redisAsyncContext` is
named by the slot range it serves or by the command that connected it (a command
connects once at most, because `con_` is never reset). `status[x]` is its life:
`"closing"` is the REDIS_DISCONNECTING flag, `"freed"` and `"lost"` memory that is
gone. `replies[x]` is the queue of registered callbacks; an element names the
command object that is the callback's data, and what the reply will be for.
`nodes` and `connections` are the two maps of `DefaultContainer`. Per command:
`obj`, the life of the object; `con`, the second half of `con_`. `heard`, `served`
and `told` record for the properties what the user's callback was given, how often
a node executed the command and which host it was last sent to.

| Action or operator | Code |
|---|---|
| `Command` | `Command()`, `process()`, `Cluster::getConnection` |
| `ProcessCommandReply` = `Ready` or `NotReady` | `processCommandReply`; `Redirect` is its ASK and MOVED cases, `CreateNewConnection` the container's `insert(host, port)` |
| `RunRedisCallback` = `AskingOK` or `AskingRefused` | the static `runRedisCallback`, the callback of ASKING |
| `Failed`, `Retry` | the `catch` block (an error callback answers RETRY, or there is none or it does not), `retry` |
| `Finish` | the user's callback, which may call `disconnect()`; then `delete that` with its destructor |
| `Disconnect`, `DeleteCluster` | `Cluster::disconnect` outside a callback; `~Cluster` |
| `Lose` | hiredis tears a context down after an error |

External: nodes answer a command with any reply the code tells apart, at most
`MaxHops` of them other than its result, and an ASKING is good for the next
command on its connection. hiredis answers in order, refuses requests on a
context marked by `redisAsyncDisconnect`, and frees it when nothing is
outstanding (as later versions do; version 0.12 looks only at what is unsent).
A use of freed memory and a NULL reply end the run with their reason in
`crashed`: what they do beyond that is undefined. Commands the user issues from a
callback are issued right after it, which the other connections cannot tell.

### `CommandService`, `AsyncRefinement`

`CommandService` is what a client promises the user of a command: accepted once,
reported once, executed exactly if the report is a result. `AsyncRefinement` maps
the life of the command object to it (`ImplementsCommandService`); the queues of
callbacks, redirections, ASKINGs and retries become stuttering. `"OK"` is
a failure there: it is the reply to an ASKING that the user gets for a command
nobody executed (`AskingReplyCause` says when).

### `SlotHash`, `SlotMap`, `ClusterSetup`, `ClusterRouting`

`SlotHash` is `crc16` and `SlotByKey` over sequences of signed chars, with the
table of the source, beside a reference that is not taken from the code: a bitwise
division by x^16 + x^12 + x^5 + 1 and a declarative hash tag. `SlotMap` is the map
`nodes_`: `Inserted` ignores a first slot it has, `Position` is where
`lower_bound({index + 1, 0})` and the step back arrive, `searchBySlots` tests the
range found there.

`ClusterSetup` is the life of a cluster in one thread. `pc` follows
`createCluster`: `Connect`, `Query`, `Construct`, then `Insert` once per element of
the reply, or `InitMalformed` or `InsertFails`, then `Return`. `con`, `reply`, `cc`
and `container` are the memory each step allocates or frees, `status` the
connection of each element. Afterwards the program asks for a key
(`GetConnection`), the loop loses a connection (`DisconnectCb`, asynchronous
client) or the cluster is deleted (`Delete`). The client is chosen at the start;
`"null"` passes a NULL function. `ClusterRouting` takes sequences of signed chars
for the keys of `ClusterSetup` and `SlotByKey` for its slot function
(`RoutingAssumption`), and compares it with the reference.

External: the ranges in an answer to `cluster slots` are disjoint.

### `Redirection`, `BlockingCommand`

`Redirection` has the functions of `HiredisProcess` over error texts that are
sequences of words and the separators `" "` and `":"`; `size_t` is 8 bits wide, so
that `npos + 1` is 0 as in the code. `BlockingCommand` is `process()` over the
`DefaultContainer` in one thread: what `SyncCommand` abstracts from, namely the
memory of every reply (`mem`: held, freed, freed twice, the caller's), the address
a text is parsed into, the exception that ends the command with its class, and
the connections the container keeps for redirections (`cached`), broken or not.
`MovedCb` is the callback of `setMovedCb`, which may throw or delete the cluster.

| Action | Code |
|---|---|
| `Begin`, `Stop` | the constructor, `getConnection`, `stop` |
| `SlotReply`, `SlotLost` | the first reply: `checkCritical`, `processResult`, the switch |
| `CreateNewConnection` | `DefaultContainer::insert(host, port)` and the tests of `err` after it |
| `Asking`, `AskReply`, `AskLost` | the ASK case |
| `MovedReply`, `MovedLost` | the MOVED case with `Cluster::moved` |

### `BoostAdapter`

One `redisBoostClient`. `client` has its four flags and the number of operations
in asio per direction; `queue` the handlers that are ready to run. `operate`,
`add`, `del` and `handle` are its methods; a call into hiredis is an operator from
the state to the set of states it can leave (`redisAsyncHandleRead` may free the
context, or run callbacks that send and disconnect). Between two handlers
the program may send a command or disconnect. `late` and `ended` record for the
properties what was queued when the context was freed, and which direction ended
in an error.

External: asio and hiredis. `Complete` queues a handler with or without an error;
an operation on a closed descriptor is dropped or ends in an error.

### `AsyncSubscription`

SUBSCRIBE, UNSUBSCRIBE and other commands on one connection. `Issued` is
`Command()`; `Call` runs the callback of the program (which may send another
command) and then `Deleted` looks at the flag REDIS_SUBSCRIBED, as
`processCommandReply` does. hiredis keeps three places for callbacks: `replies`,
`channels`, and `invalid` for commands sent under the flag; the flag goes with the
last channel before that channel's callback is called. `overlap` records what was
under way then. `Served` is what the node answers to a request (a reply for each
channel it names), and `Left` what hiredis does with a channel that is left.

### Mutants

The operators called mutants in the modules (`PullNoPop`, `TakeNoAsking`, ...)
are not part of the model: each is the named definition with a plausible mistake
in it, and shows that a property notices the mistake.

## 4. Runs

Runs that pass:

| Configuration | Instance | Shows |
|---|---|---|
| `SyncFaults` | 3 threads, 1 command each, pools of 2, 1 slot range, 2 hosts, all faults, threads joined first | the type invariant, `ConnectionExclusive`, `HomePool`, `OwnReply`, `AskingPaired`, `NoHoldAndWait`, `NoLostWakeup`, `SlotQueuesHealthy`, and the refinement `ImplementsConnectionPool` |
| `SyncShutdown` | 3 threads, 1 command each, pools of 1, 1 slot range, 2 hosts, all faults, `stop()` and `disconnect()` at any time | `NoLostWakeup`, `DeletedPoolUnused`, `ImplementsConnectionPool` |
| `SyncLive` | 3 threads, pools of 1, 2 hosts, no faults, joined first | `Terminates`; no deadlock |
| `AsyncSafety` | 3 commands, 2 slot ranges, 2 hosts, 2 hops, all faults, the loop left at any time | the type invariant, `OneToken`, `ContextLife` (a context being closed still has a callback to run, a live redirection connection belongs to a live command, slot connections in `nodes_` are open), the refinement `ImplementsCommandService`, and the causes of failures below |
| `AsyncLive` | 3 commands, 2 slot ranges, 2 hosts, 1 hop, no lost connection | `Answered`, `DisconnectEndsLoop`, each unless the process dies |
| `ClusterRouting` | up to 3 nodes over 6 ranges, both clients and a NULL function, some 300 keys | the type invariant, `ReplyFreedOnce`, `OwnedByCluster`, `RoutedToOwner`, `SlotIsStandard` |
| `BlockingCommand` | 3 commands in a row, 5 addresses, 9 error texts | the type invariant, `ReplyOnce`, `FollowsTold`, `FirstLegChecked` |
| `BoostAdapter` | 4 commands, 2 errors of asio | the type invariant, `OneOperation`, `Armed`, `UseAfterFreeCause`, `Served` |
| `AsyncSubscription` | 4 commands, 2 channels, 1 message | the type invariant, `DanglingCause`, `LeakCause`, `OwnReply` |

Runs that end in a violation, each a disagreement between the code and what it
says of itself (quoted under "findings" in `PROJECT.json`):

| Configuration | Property | What happens |
|---|---|---|
| `SyncLeak` | `DisconnectReturns` | CLUSTERDOWN throws before `releaseConnection`; `disconnect()` waits for ever |
| `SyncStopRace` | `NoCrash` | `stop()`, `disconnect()` while a command is between `push` and `notify_one`, or past the test of `readytouse_` |
| `AsyncAskShared` | `AskFollowed` | two ASKINGs, then two commands, on one connection: the second has no ASKING in force |

**Causes.** Where the code can fail, an invariant names what must have happened
first, so that the rest of the behaviour is shown to be free of the failure:

| Property | The failure | Its only causes |
|---|---|---|
| `DeletedPoolUnused` | a pool leaves the map while one of its connections is in use, and the node may be connected to a second time beside it | `insert()` added the pool behind the iterator of `disconnect()`, while that slept in `pullConnection` (`threadpool.cpp:186-203`) |
| `UseAfterFreeCause` (`AsyncCommand`) | a freed context is used: `deleteConnection` erases from copies of the maps, and a finished command closes the redirection connection the map still holds | a redirection connection was freed, or a slot connection lost |
| `RedirectionFollowed` | a command arrives without its ASKING | another command was sent over the same redirection connection |
| `RedirectionFollowed` | a MOVED is not followed to the host it names | the command was redirected before, and `con_` is kept |
| `AskingReplyCause` | the `+OK` of an ASKING is given to the user as the reply to his command | the connection was closed meanwhile, by the end of another command or by `disconnect()` |
| `FirstLegChecked` | a reply nobody wrote is read or returned; `std::stoi` throws past the ClusterExceptions; a redirection or CLUSTERDOWN comes out as a reply | the command was redirected; for CLUSTERDOWN, by a MOVED |
| `UseAfterFreeCause` (`BoostAdapter`) | a handler uses a freed context | it was queued, without an error, when the context was freed |
| `DanglingCause`, `OwnReply` (`AsyncSubscription`) | hiredis keeps a deleted object; a callback gets another command's reply | the last UNSUBSCRIBE was answered while a SUBSCRIBE (or a command sent under the flag) was under way |
| `LeakCause` | a command object is never deleted | it belongs to an UNSUBSCRIBE, or a subscription of another command got in between |

Two properties say less than their names suggest. `LeakCause` excuses the object of a
command as soon as any other command has been a SUBSCRIBE, at whatever time: it
says that the object of an only SUBSCRIBE does not leak. `Armed` and `Served` except a direction whose
operation ended in an error of asio: the code does not start it again, and they show
that nothing else leaves hiredis unserved.

Other failures of the code are steps of the models: the NULL reply of an
ASKING that loses its connection (`AskingReply`), the NULL reply of an asynchronous
connection lost under a command (`Lose`), the `ConnectContext` that `~Cluster`
frees before the connections that use it (`DeleteCluster`), the object that leaks
when `process()` throws past the `delete` in `Command()` (`Command`), a `fillPool`
that throws and leaves a pool on which later commands sleep for ever
(`CreatePoolFails`), what a throwing `createCluster` leaves behind
(`ClusterSetup`), and the broken redirection connection that stays in the
container (`CreateNewConnection` of `BlockingCommand`).

**Bounds.** Three threads on a pool of two give a holder, a sleeper and a thread
that can overtake the one just woken; one command per thread has two legs, so
threads meet on slot pools and on host pools, in both orders. Two hosts are
needed to confuse pools. `SyncShutdown` has two hosts, so that a pool can be inserted
behind the iterator, and three threads: one that holds the connection
`disconnect()` sleeps for, one that makes the pool behind, and one that comes after
the map was cleared and makes that pool again. Commands begin before and after
`stop()`, and meet maps that are half torn down. The keys of a map have an order, so
the runs are symmetric in the threads only. `PoolSize` is 10 in the code; the
proofs cover every value. `MaxCommands` bounds the commands of one thread.

In `AsyncSafety` three commands are what it takes for one to create a redirection
connection, one to share it and one to find it in the map afterwards; two hops
let a command be redirected twice, or redirected and then fail, so that a
connection is met live, closing and gone. The second slot range gives
`disconnect()` a context that is idle and one that is busy. `AsyncLive` has one
hop, enough for a redirection that arrives after `disconnect()`. The safety
properties hold up to and including the step in which the process dies.

In `ClusterRouting` three ranges (`MaxNodes`) are a neighbour on each side of the
one searched; the ranges touch, leave gaps, have one slot, and reach both ends;
the keys are every sequence of up to three of a letter and the two braces, some
longer ones around a tag, every single char (which reads the whole CRC table), and
keys whose slots are the ends of the ranges. In `BlockingCommand` three commands
let one connect to an address, one lose the connection and one find it broken;
the addresses include an empty host and two with colons. In `BoostAdapter` four
commands fill the output twice over while replies are outstanding, and two errors
(`MaxErrors`) can hit both directions. In `AsyncSubscription` four commands
are a SUBSCRIBE, the UNSUBSCRIBE of it, and two that overlap with the second.

`CHECK_DEADLOCK FALSE` is set where the code does stop: a connection
lost by an exception leaves `disconnect()` asleep (`SyncLeak`), and a crash ends
the program; the asynchronous program stops when its loop returns; the other
models end when the program has sent its commands. `SyncLive` checks deadlock.

**Fairness.** `FairSpec` of `SyncCommand` asks that each thread, and the main
thread, that can run does run at some time (weak fairness): what a preemptive
scheduler and hiredis connections that answer or fail provide. It does not ask
that a thread that competes for the lock ever wins against another, nor that a
wait wakes up spuriously. `Terminates` holds with that because commands are
finite. The `FairSpec` of `AsyncCommand` asks that the loop goes on serving every
context that has a callback outstanding: `event_base_dispatch` does, and the nodes
answer (`Lose` stands for those that do not). `Fairness` of `BoostAdapter` asks the
same of `io_service::run`: a queued handler runs, a socket that can be written to
is reported as long as somebody waits for it, and a reply that is due arrives;
it asks nothing of errors, which `Served` excepts.

## 5. Proofs

The proof modules establish the safety properties of the runs for every value of
the constants: any number of threads, commands, connections, channels, hosts, errors
and redirections, where the runs take two or three.

| Module | Theorem | States, under `Spec` |
|---|---|---|
| `SyncCommandProofs` | `Invariance` | `[]IInv` |
| | `TypeCorrect` | `[]TypeOK` |
| | `ConnectionsExclusive`, `ConnectionsGoHome` | `[]ConnectionExclusive`, `[]HomePool` |
| | `TeardownSafe` | `[]DeletedPoolUnused` |
| | `RepliesMatch`, `AskingMatches` | `[]OwnReply`, `[]AskingPaired` |
| | `HoldsNothingWaiting`, `SlotPoolsHealthy` | `[]NoHoldAndWait`, `[]SlotQueuesHealthy` |
| | `WakeupsSuffice` | `[]NoLostWakeup` |
| `SyncRefinementProofs` | `Refinement` | `ImplementsConnectionPool` |
| `AsyncCommandProofs` | `Invariance`, `TypeCorrect` | `[]IInv`, `[]TypeOK` |
| | `OneCallback`, `ContextsEnd` | `[]OneToken`, `[]ContextLife` |
| | `MemoryUse`, `Redirections`, `AskingReplies` | `[]UseAfterFreeCause`, `[]RedirectionFollowed`, `[]AskingReplyCause` |
| | `Refinement` | `ImplementsCommandService` |
| `AsyncSubscriptionProofs` | `Invariance`, `TypeCorrect` | `[]Base`, `[]TypeOK` |
| | `Dangling`, `OwnReplies`, `Leaks` | `[]DanglingCause`, `[]OwnReply`, `[]LeakCause` |
| `BoostAdapterProofs` | `Invariance`, `TypeCorrect` | `[]IInv`, `[]TypeOK` |
| | `Operations`, `AskedIsArmed`, `MemoryUse` | `[]OneOperation`, `[]Armed`, `[]UseAfterFreeCause` |
| `ClusterSetupProofs` | `Invariance`, `TypeCorrect` | `[]IInv`, `[]TypeOK` |
| | `SlotsReplyFreed`, `ClusterOwns`, `Routing` | `[]ReplyFreedOnce`, `[]OwnedByCluster`, `[]RoutedToOwner` |
| | `SlotsAreStandard` | `[]SlotIsStandard` |
| `SlotHashProofs` | `CrcIsRemainder` | `crc16` is the remainder of the bitwise division |
| | `SlotByKeyIsKeySlot` | `SlotByKey` is the slot of the cluster specification |
| `BlockingCommandProofs` | `Invariance`, `TypeCorrect` | `[]IInv`, `[]TypeOK` |
| | `RepliesOnce`, `FollowsAddress`, `FirstLeg` | `[]ReplyOnce`, `[]FollowsTold`, `[]FirstLegChecked` |

They rest on the assumptions that the modules name, which TLC evaluates in the
runs, and on nothing else. Besides types and disjoint sets of names these are:
a program has finitely many threads, and the keys of the two maps are numbers,
which stand for their order (`PoolAssumption`); a program sends finitely many
commands about finitely many channels (`SubscriptionAssumption`: a node counts the
channels that are left); the first slot of a
range is not after its last (`SetupAssumption`), and an answer's ranges are
disjoint (section 3); an address is a host and a port that are texts, the port is
one word that `stoi` reads, and a text fits in memory, that is, its length does not
reach `npos` (`AddressAssumption`); keys are sequences of chars of either sign, with a
length that `keylen` can hold, and their slot function is `SlotByKey`
(`RoutingAssumption`). No address is assumed to be free of colons:
`FollowsTold` itself excepts hosts that have one.

### The threaded client

`IInv` is the conjunction of five layers; `TypeInv` and `Walk` are inductive together,
each of the others given the ones before it.

* `TypeInv`: the types, and `ControlOf(t)`, which ties `pc` to the leg, to the
  kind of pool the thread names and to whether it holds a connection.
* `Walk`: where the iterator of `disconnect()` has been (`Visited`) the map has NULL,
  or a pool that was inserted behind; the pool at the iterator is in the map; and a
  thread inside `pullConnection` or `pushConnection` has a reference to a pool that is
  in the map or forgotten (`References`). `Advances` says that the iterator skips
  nothing but absent keys.
* `Custody`: `ConnectionExclusive`, `HomePool`, `OwnQueues` and `Lifetimes`. The
  first two are not inductive: `insert()` may make a new pool under a key whose old
  pool was torn down. `Lifetimes` says that the connections of the new one are
  nobody's: a pool that is neither in the map nor forgotten has no used connection,
  and one that is being drained has at most `left` of them, a count that goes down
  with each connection `disconnect()` pulls. `Used` counts a connection as used as
  long as it is idle, held, or carries a trace of use (`err`, `wire`, `asking`).
  `OwnQueues` says that until `connections_` is cleared a queue holds connections of
  its own pool only; afterwards those of a forgotten pool may come into the queue of
  the pool made anew for their node, which `HomePool` allows.
* `Dialogue`: where a thread stands in its exchange with the node (`TalkOf`), and
  that idle connections owe nothing unless they are broken, which only those
  of redirection pools can be (`IdleOf`).
* `Waking`: while somebody sleeps on a pool, the queue is no longer than the
  number of threads on their way to take from it (`Wakers`: woken, or about to
  call `notify_one`), to which the main thread adds the whole pool while it drains
  it (`WokenOf`). `NoLostWakeup` alone is not inductive: a thread that overtakes
  the one woken takes its connection, and what makes up for it is that one waker
  fewer is needed. The proof counts with the cardinalities of sets of threads.

The lemmas `CustodyKept`, `CustodyPulled`, `CustodyReleased`, `CustodyCreated`,
`CustodyDrained`, `CustodyMoved` and `CustodyCleared` say what each kind of step does to custody, `OnlyOneTalks`
what one thread's step leaves alone; the step lemmas only sort the actions.

For the refinement, the set of idle connections follows each change of a queue
(`QueuedPulled` and the lemmas beside it); with `Custody` a push puts back a
connection that was held and not idle. `NoneLeft` is what `Open` needs: with
`Lifetimes`, the connections of the pool that `insert()` makes are new, and any
others of the node belong to a pool the map has forgotten. That none are left at all
is not so, with two hosts or more.

### The asynchronous client

`Core` is what the library keeps. `Registered` says that a live command is
registered exactly once, on an open context; `Placed` that a command registered on a
redirection context has it in `con_`; `Linked` and `Ended` that pointers lead
to contexts which were created, and that a closed one is forgotten by the map or
was closed by the end of a command that used it. `Ghosts` is what nodes and users
see of it (`Asked`: an ASKING is still in force for every command behind one,
wherever it stands in its queue, or the connection is shared).

A callback is one step with a great many outcomes (the disjuncts of
`processCommandReply` times what the user does). `CallbackCases` sorts them into
a few classes, by what they do to the registrations: the command is registered
again on its own or another context, is finished, or the process dies. Each class
has one lemma for `Core` (`SentCore`, `JoinedCore`, `FinishedCore`, `DiedCore`,
and for the program's calls `AcceptedCore`, `LeakedCore`, `MapsClosedCore`,
`LostCore`) and one for `Ghosts`. The refinement then needs only the class of a
step: `CommandService` sees registrations as stuttering.

### Subscriptions

The client's state is a record (`Now`), and what hiredis and the program do to it
are functions on records. The parts of the invariant are predicates on a record
`r`, what is on its way back (`inc`) and the node's channels (`s`). `Inside` and
`Call` compose several functions, and keep a predicate because each function does.

* `Standing` holds in any order of replies: where the object of each kind of command
  waits (`Kinds`, `Distinct`), what each request on its way says (`Requests`), and
  that a channel is left once at a time (`LeftOnce`).
* `Orderly` holds until the flag goes under a SUBSCRIBE, and gives `DanglingCause`:
  what waits is not deleted (`Live`); a channel with a callback is one the node
  knows of, or will, or is about to drop (`Joined`); after the reply for the last
  channel nothing more is said of channels before the next SUBSCRIBE (`Emptied`);
  the queue of replies is for what comes first (`Ahead`), and without the flag
  nothing is subscribed on either side (`Quiet`). `DanglingCause` alone is
  not inductive: that the object of a channel may be deleted with the last reply
  needs `Emptied`, and with it that no other channel still names that object.
* `Replied` gives `OwnReply`. `Owed(r, inc, i, c)` says that the i-th of what is on
  its way, first back and then out, is an answer to `c` or will be. As long as
  the flag has not gone while something was under way, the two queues `replies` and
  `invalid` hold, one after the other, what is owed, in the same order (`Paired`).
* `Accounted` gives `LeakCause`. As long as only one command has subscribed, every
  channel that the node has, or has yet to hear of, has its callback, and a reply
  for a channel that is not the last leaves another channel with that callback
  (`OneOnly`). So its object waits on some channel until the last reply, which
  takes the flag and deletes it; whatever else stays behind had a subscription
  beside it (`Excusable`).

### The boost adapter

Each method of `redisBoostClient` and each call of hiredis is a function on
records, and `Legal(r, q)` says that a record fits the queue of handlers: a flag
is set while an operation waits in asio or its handler is queued, never both.
Every function keeps it (`OperateFits` and the lemmas after it), so a handler that
composes them does. `Leftover` is what `UseAfterFreeCause` lacks to be inductive:
once the context is freed, a handler without an error was queued before.

### The life of a cluster

`Loaded` is the loop invariant of `init()`: the elements before `next` are in the
map, each with the connection made for it. `SearchFindsOwner` says for any set of
disjoint ranges that `lower_bound({index + 1, 0})` and the step back arrive at the
range with the greatest first slot not above the one asked for, and that the test of
its last slot decides. `Routing` holds for every slot function; that `SlotByKey` is
the right one is `SlotsAreStandard`, from the theorems about `SlotHash`.

### The slot of a key

`Xor` is a sum over bits, so the proof begins with what that sum does to each bit
(`XorBits`); that it commutes, associates and cancels follows, because words with the
same bits are equal (`SameBits`). One bit of the division is linear
(`ShiftBitIsLinear`), and with it eight (`Shift8Linear`): eight bits of the division
of a word are those of its low byte, which only move it up, exclusive or those of
its high byte, which are the table's entry. That each of the 256 entries is right
is `Rows`, the entry of an index from the entry of half of it, since the division of
twice a byte is one more bit of the division of the byte. `RoundIsShiftByte` puts
them together for one char of either sign: masking the table index after the
exclusive or with a negative char takes its low byte, as `LowByteOfChar` says.

What a tag is, is not computed but described (`IsTag`); `TagIsFound` says that the
two loops over the key stop at its braces, and that there is no other tag.

The recursive functions of `SlotHash` are unfolded without the induction theorem of
the library, whose parameter is an operator: `UpTo` is induction for a set, from a
least counterexample, and `Recursion` says that a function with given steps exists, so
that the `CHOOSE` behind a recursive definition has something to choose.

### Replies of the blocking client

`Course` says which replies are freed at each point of `process()`, `Following`
that the leg and the address are those of the first reply. `FollowsAddress` needs
that `parsehostport` reads back what a node prints, `ParsesPlain`: the positions
that `find` and `substr` compute, for a text of any length, modulo 2^w.

### Model-checked and not proved

* Liveness: `Terminates`, `DisconnectReturns`, `Answered`, `DisconnectEndsLoop`
  and `Served` are beyond the prover. Every invariant a passing run checks is
  proved.

## 6. Not modelled

* The libevent and libuv adapters: one call each, no state.
* The formatting of commands and the text of exceptions. Two things are not
  visible for that reason: `process()` reads `hcon.second->errstr` after it has
  released the connection (`hirediscommand.h:231`), and the reason
  `"asking error"` of `hirediscommand.h:219` is passed where a bool is expected.
* Of the asynchronous client: a moved callback that throws through hiredis or
  deletes the cluster, and subscriptions that are redirected or share
  their connection with a `disconnect()`.
* Of the threaded pool: a second `disconnect()`, by which `~ThreadedPool` would
  drain pools that were made after the first.
* Of the hiredis behind subscriptions: `AsyncSubscription` has the bookkeeping of
  hiredis 0.12 to 1.0.0; later versions also count what is under way, and end the
  subscribed state later.
* Of the boost adapter: its destruction with operations in flight, the descriptor
  that the socket and hiredis both close, the reuse of its number, and
  `client_vector_`, which only grows.
* The examples other than the thread pool, and the tests, which need a live
  cluster: straight-line callers, whose callbacks are choices of the program in the
  models.
