# Verification of the Redis event loop, networking layer and cluster manager

TLA+ models of the code in `src/src/redis-ae` (the event loop `ae`, the networking
layer and threaded I/O, the radix tree and the cluster manager of redis-cli, taken out
of the Redis server), model-checked with TLC, and theorems about them checked by
TLAPS. Line numbers below are those of `src/src/redis-ae`.

## The system

| Part | Files | Operations | Modules |
|---|---|---|---|
| File events | ae.c, ae_epoll.c, ae_select.c, ae_kqueue.c, ae_evport.c | create, delete, resize, poll, dispatch | `Ae` |
| Time events | ae.c | create, delete, nearest timer, scan | `AeTime` |
| Threaded I/O | networking.c 2548-2820 | start, stop, distribute, publish, wait, collect; the thread's loop | `IOThreads`, `IOBatch` |
| Clients | networking.c | accept, read, process, execute, reply, write, block, pause, protect, close, free | `Clients` |
| Query parsing | networking.c 1308-1767, sds.c | read, inline and multibulk parser, protocol errors, stream of a master | `Parser`, `Sds` |
| Reply buffers, output limits | networking.c 188-745, 1100-1194, 2339-2442 | the addReply family, deferred lengths, CLIENT REPLY, HELLO, write, limits | `Reply`, `ReplyPeer` |
| Radix tree | rax.c | insert, find, remove, iterate, seek | `Rax`, `OrderedMap` |
| Cluster manager: slots | redis-cli.c 2278-5907 | check, fix, reshard, rebalance | `ClusterSlots`, `ClusterPlan` |
| Cluster manager: nodes | redis-cli.c 2278-5500 | create, add-node, del-node | `ClusterNodes`, `ClusterLayout` |

`aeMain` calls `beforeSleep` and `aeProcessEvents` for ever. `aeProcessEvents` sleeps
in the backend's poll until a descriptor is ready or the nearest timer is due, calls
the handlers of the fired file events and then the time events. The handlers of
networking.c accept clients, read and parse their queries (`Parser`), execute them and
queue their replies (`Reply`). With I/O threads a readable handler only queues its
client; `beforeSleep` lets the threads read and parse the queued clients, and executes
what they parsed. Clients that cannot be freed where they are found to be dead are
queued and freed by `serverCron`, a time event. A command that runs for long calls
`processEventsWhileBlocked`, which calls `aeProcessEvents` from inside a handler. The
cluster manager is a program of its own, which talks to the nodes of a cluster over
one connection each.

`beforeSleep`, `serverCron`, `processCommand`, blocked.c and the cluster bus are not
in the repository. What the code needs of them is modelled from how it uses them and
marked external in `PROJECT.json`, which also lists the hazards of the code with their
lines and the properties that cover them.

## Modules

Each `MC...` module holds only the bounds of its runs.

**IOThreads, IOBatch.** One action per access to shared state, so that the main thread
and the threads interleave between any two. The main thread's position is `pc`: `loop`
(event handlers run), `unlock` and `lock` (startThreadedIO, stopThreadedIO),
`distribute`, `publish`, `wait`, `collect` (the two functions that serve a batch; they
are the same code up to the queue, which `batch` names). A thread is in `spin`,
`check`, `lock`, `unlock`, `work` or `drop` of IOThreadMain. What a read or a write
does to its client is left out; the ghost `visits` counts them. The counter is
`_Atomic` in the code and its accesses are sequentially consistent, which is why
interleaving is enough. `IOBatch` is what the rest of the server may rely on: batches
of clients that are served one at a time, each client once, and that end. `IOThreads`
implements it (`AbstractSpec`): while counters are published or awaited the clients of
the batch that were not visited are `IOBatch`'s `todo`.

**Ae.** The state is the loop's (`mask`, `rproc`, `wproc`, `maxfd`, `setsize`,
`fired`), the backend's (`kernel`: what it waits for; `pending`: the extra table of
event ports), and a stack `frames` with the locals of every running call of
`aeProcessEvents`. While a handler is on top of the stack, registering, deleting,
resizing and a nested call are actions of their own, so a handler is any sequence of
them. The four backends differ in how masks are merged and in which entries a poll may
return: epoll reports an error as AE_WRITABLE even when nothing waits for it, kqueue
reports two entries for one descriptor, select goes up the descriptors. `gen` counts
reallocations of the events array; a load through `fe` after one yields any value.

**AeTime.** The timers are nodes with `next` and `prev`, allocated from a finite set so
that an address is used again. The clock is one number of ticks, `TicksPerSecond` of
which are a second, because `lastTime` is in seconds and the timers are in
milliseconds. `called` is the clock when the running `aeProcessEvents` was called.

**Clients.** A client is a record: its flags, how many complete commands are in its
query buffer, whether it has output, its handlers, and how often
clients_pending_write, clients_to_close and unblocked_clients hold it.
clients_pending_read is a sequence, because it is changed under an iterator (`rest`).
The functions of networking.c that change one client are operators from record to
record (`addReply`, `freeClientAsync`, `unlinkClient`, `writeToClient`, ...); the
handlers and the steps before sleeping are the actions. A command is one of a few
kinds, each with the effect on clients that some command of networking.c has. The
kinds that run from a readable handler (`Commands`) and during the walk over
clients_pending_read (`BatchCommands`) are separate constants. The handshake is
`IOThreads`'s; here `ThreadRead` serves the clients of the batch in any order, as
`IOBatch` promises. Only the reply to malformed input, which a thread links into the
shared clients_pending_write, is split into its load and its store (`ThreadLink`).

**Parser, Sds.** One connection, byte by byte. `readQueryFromClient` takes any number
of the unread bytes up to what the code asks for, or fails; `Parse` is one round of
processInputBuffer, with processInlineBuffer and processMultibulkBuffer as operators on
the client record, resumed from `multibulklen`, `bulklen` and `argv`. A connection is
a normal one (read by the main thread or an I/O thread), a replica or the link to a
master, whose offset and forwarded stream are in `repl`. A command may block the
client, pause all clients, time out a script, open or end a transaction, or do nothing
to the connection. `Sds` has sdssplitargs, sdscatrepr and sdsrange.

**Reply, ReplyPeer.** One client. A reply is a value; the functions of the addReply
family are operators from client to client, on the static buffer and the list of
blocks, and `addReplyValue` is what a command calls for a value, in RESP2 or RESP3,
with a known or a deferred length (`Open`, the elements, `Close`). The unit is a token:
a header, a piece of data or an end of line. `AddReplyFromClient` (a module's fake
client), CLIENT REPLY, HELLO and QUIT are commands of their own; writeToClient sends any
part of what is there. `ReplyPeer` is the other end: it decodes what it received
(`Decode`, the reference definition) and must find the replies.

**Rax, OrderedMap.** A tree is a nested record, a node is named by the path to it, and
every node carries the size of its allocation. Insertion, removal and the moves of the
iterator are operators that follow the cases of the code; `OrderedMap` is a map with a
cursor, and `found` (what raxFind returns for every key) and the iterator are mapped
to it. `answer` holds the arguments and results of the last call, so that the
refinement ties results to arguments.

**ClusterLayout, ClusterPlan, ClusterSlots, ClusterNodes.** `ClusterLayout` has the plan
of create: the order of the nodes, the masters' slots, the replicas and the
anti-affinity score. The cursor that divides the slots is a 32-bit float in the code; here
a float is a number of units, `One` of which are 1, and sums and quotients are rounded
to the nearest multiple of the spacing of the floats around them, to the even one of two.
With `One` = 2^23 and 16384 slots the ranges are those of the compiled loop for every
number of masters that was compared, 1 to 1499. `ClusterPlan` has what reshard and
rebalance compute: shares and balances. In `ClusterSlots` the manager's program `prog`
is a sequence of instructions, one for each command or decision; a failure unwinds it to
the caller that looks at the return value. Between any two instructions clients write,
nodes gossip, a link fails or the manager dies. `ClusterNodes` has a `pc` and a loop
`todo` for create, add-node and del-node. A manager that is interrupted (`Interrupt`)
leaves the nodes as they are, and the create may be run again (`CreateAgain`): nodes
that know no other count as empty although they have slots and an epoch from before.

## Runs

| Run | Bounds | States | What it shows |
|---|---|---|---|
| io_threads | 4 clients (2 of them replicas), 2 threads | 389 038 | the main thread never touches lists or clients a thread works on; a client has one thread; stopping leaves no read behind and ends; the handshake implements `IOBatch`, whose batches serve each client once and end |
| file_events | 2 descriptors on each backend, calls nested to depth 2 | 1 618 963 | maxfd, masks and the kernel agree at all times; every handler that is due is called once, in the order the barrier asks for; no handler of a deleted event is called; overwriting the fired array under an outer call is harmless |
| timers | 3 addresses, 3 timers, a clock that is set back | 126 048 | the scan never stands on freed memory, the sleep delays no timer, each timer is finalized when freed, a due timer runs |
| clients | 2 clients with 2 commands of every kind | 220 136 | queues and flags agree, no reply is forgotten, a client to be closed is closed, commands are served |
| requests | streams of 1 or 2 requests of 19 forms, cut into reads at any byte | 1 034 702 | the commands that run are those that were sent; nothing is left in the buffer; a connection is given up with a cause; a master's offset is what was applied; the assertions hold |
| replies | 3 commands, 11 kinds of reply, 6 other commands, buffers of 2 tokens | 483 373 | the peer decodes exactly the replies; `reply_bytes` is exact; the hard limit closes |
| rax | 6 keys with common prefixes, nodes of 3 characters | 116 240 | nodes fit into their memory, the counters are exact, the tree implements an ordered map |
| cluster_slots | 3 masters, 2 slots, 2 keys, 2 commands, 2 faults | 2 190 200 | no update is lost and keys stay reachable through interrupted moves; a successful reshard, rebalance or fix did what it says |
| cluster_nodes | 24 layouts of 4 to 7 nodes; 1 fault, or 3 member commands, or 2 with a fault | 415 941 | the plan is sound for any hosts; a create, add-node or del-node that succeeds is complete, also a create after one that was interrupted; commands end |

### The bounds

- *io_threads*: four clients are the fewest with which two threads are started
  (`pending < io_threads_num*2`); two are replicas, whose reads are never threaded, and
  two reads are enough for both threads to read. The proofs cover all other sizes.
- *file_events*: two descriptors let a handler change an entry that is still to come.
  `NestedBound` leaves out combinations of nested calls with barriers and resizes, and
  of nesting with the other backends.
- *timers*: three timers let the scan stand between two others; an address is used
  again when a timer was reaped before the third is created; one tick, a second, is
  enough to wait for a timer, to reach it and to be set back.
- *clients*: two clients give every pair of roles (the client whose command runs, and
  the one it is done to). The number of pending clients that starts and stops the
  threads is a free choice, two clients standing for many. One of the peers sends
  malformed input, so that no two threads reply at once, and some kinds of command are
  not run during the walk over clients_pending_read: see below.
- *requests*: the code's limits are scaled down so that a request of a few bytes meets
  each of them (a read of 6 bytes, a line of 5, a big argument of 2). Requests are
  chosen for the branches of the parsers: empty arguments and requests, bytes that look
  like protocol, NULs, quotes and escapes, every protocol error.
- *replies*: the static buffer and a block hold 2 tokens and at most 3 are moved for a
  length, so that every reply is split, glued or kept as a block of its own somewhere.
- *rax*: the keys make every case of the two splitting algorithms happen, and the
  longest is longer than a node.
- *cluster_slots*: one slot with keys, one without, and a master that owns neither; a
  command that is interrupted anywhere is followed by any other.
- *cluster_nodes*: three hosts are the fewest on which a replica has a choice. A fault
  is a link that fails, a node that does not answer or a manager that is interrupted;
  what follows a create is checked with and without one. With 97 slots and `One` = 64
  the quotient is rounded for three and five masters, and the sums are rounded up and
  down; the precision of the code is left to the proofs.

### Where the code differs from its comments and assertions

Three runs find a property violated.

| Run | What happens |
|---|---|
| clients_thread_error | two threads that answer malformed input link into clients_pending_write at once and one entry is lost; unlinkClient's assertion (networking.c:929) fails |
| reply_soft_limit | the time the soft limit was first reached is not forgotten when the output drains, as there is no check then (networking.c:2434); the client is closed although it was not at the limit "continuously" (2402) |
| rax_seek_data | raxSeek with `<` or `<=` that stops inside a compressed node whose key is the answer does not set `it->data` (rax.c:1663) |

The following were met while modelling. They bound what the passing runs cover; each
comes back when the constant or the conjunct named here is changed.

- CONFIG SET maxclients in a readable handler reallocates the events array; `fe`
  (ae.c:426) is stale when the writable event is tested. `CommandsInHandlers = TRUE`
  violates `EventStillValid`.
- aeDeleteFileEvent updates the mask after aeApiDelEvent (ae.c:176), which with event
  ports expects it updated (ae_evport.c:213): `PortMatchesMask` does not hold.
- ae.h:44-48 say of AE_BARRIER that the writable event never fires if the readable one
  has fired in the same iteration. It does with kqueue, which reports two entries for a
  descriptor, after a nested call, whose poll may put a descriptor that was handled
  already into the rest of the array, and when the descriptor's own readable handler
  installs the barrier. `EntriesServed` is about one entry, and about a descriptor whose
  registration stays as it is while its handlers run.
- During the walk over clients_pending_read a long command queues clients that
  `listEmpty` drops with CLIENT_PENDING_READ set (networking.c:2818, "busy" in
  `BatchCommands` violates `UnlinkAssertsHold`); CLIENT KILL frees the node the
  iterator holds (networking.c:2809, adlist.c:216, "kill" violates `IteratorValid`);
  the commands the threads have parsed run although an earlier command of the batch
  paused the clients (networking.c:2814, "pause" violates `NoCommandWhilePaused`).
- CLIENT_CLOSE_AFTER_REPLY never closes a client that turned replies off
  (`ClosingHasReply` excludes it).
- aeProcessEvents handles file events before time events and looks for a clock set back
  only after it has slept, where the comments at ae.c:353 and ae.c:290 say otherwise.
- A NUL hides the end of an inline line, so that the line waits for ever ("stalls" in
  `Parser`); whether a line just over the limit is refused depends on how it is cut
  ("either"); the byte after CR and the two bytes after a bulk are not looked at; a
  master's offset does not advance over empty lines.
- AddReplyFromClient appends blocks without looking at the limits
  (`HardLimitCloses` excludes a module's reply until something is added).
- HELLO in sentinel mode announces seven pairs and sends thirteen elements
  (networking.c:2214-2239): `Sentinel = TRUE` violates `PeerSeesReplies`.
- raxRemove counts the characters of a chain up to RAX_NODE_MAX_SIZE and then copies
  the whole chain (rax.c:1161, 1183): `Overruns = TRUE` violates `AbstractSpec`. The
  code's limit is 2^29 - 1 characters. It recompresses only around a node with one
  character (rax.c:1081), so a key that is removed from a compressed node stays a node
  of its own, where rax.h:91-93 say that such a chain must be compressed back.
- With `LiveFix = TRUE` a client that writes while fix retries a MIGRATE loses an update
  in the window between the comparison of the values and the REPLACE
  (redis-cli.c:3312-3327).
- The float cursor of create divides the slots wrongly when there are thousands of
  masters: the first count for which the ranges of the compiled loop are not a division
  of the 16384 slots is 7542. The range before the last then ends with slot 16383, and
  redis-cli.c:5169 gives the last master the slot 16384.
- clusterManagerFlushNodeConfig forgets that a master is dirty even when ADDSLOTS
  failed; a create with more nodes left over than masters leaves the rest without a
  role; the answers to SET-CONFIG-EPOCH and the result of the last check are ignored (for
  this reason a create can be repeated on nodes that have their slots and epochs already,
  which refuse both commands); a link lost while the nodes join makes
  create and add-node wait for ever (`CommandsEnd` excludes it); the failure of one
  open slot is hidden by the success of a later one (`FixHeals` excludes that slot);
  del-node of an empty master may tell a replica to follow the node that is being
  deleted (redis-cli.c:5472), and one that fails half-way leaves nodes that still know
  the removed one.

### Fairness

- `IOThreads`: weak fairness of the busy main thread and of each thread (they are
  operating system threads), strong fairness of the main thread taking a mutex, which
  the thread holds only for an instant between two runs of its million-fold spin.
  Nothing is assumed of clients.
- `AeTime`: weak fairness of the loop's own steps. The poll returns when its timeout
  is over; a poll without a timeout may last for ever. Ticks of the clock are not
  fair, and a clock set back excuses a timer until it is due again.
- `Clients`: weak fairness of the main thread and of the threads; strong fairness of
  the two things serverCron does, because serverCron is a time event, and the loop
  comes round to time events again and again (`DueTimerFires` in `AeTime`). Nothing is
  assumed of peers.
- `ClusterNodes`: weak fairness of the manager, a sequential program whose commands are
  answered or fail, and of the gossip between the nodes. The user may leave a question
  unanswered for ever.
- The other modules are checked for safety only.

## Proofs

`IOThreadsProofs` proves, for every set of clients and every number of threads up to
IO_THREADS_MAX_NUM, from the assumption `ConfigAssumption` on the configuration only:

- `TypeCorrect`: `Spec => []TypeOK`. `TypeOK` is inductive; it is proved in four
  parts, one lemma per group of variables, one step per action.
- `MainWaits`: `Spec => []MainWaitsWhileThreadsWork`, the claim of the comment in
  IOThreadMain that the main thread never touches a thread's list before its counter
  is zero. It is not inductive: that the wait is not left too early needs that the sum
  of the counters was zero, which was read counter by counter while threads ran.
  `CountersInv` adds what makes it so: a counter is set only between its publication
  and the end of the wait, a working thread has its counter set, and as long as the
  main thread's sum is zero every counter it has read in this round is zero (a counter
  only ever falls while the main thread waits). `ListsInv` is proved beside it: a list
  is filled before its counter is set and empty before it is reset.
- `StopIsClean`: while the threads are stopped no client waits to be read by them
  (`NoReadLeftBehind`) and the main thread holds every mutex
  (`StoppedThreadsAreParked`). `ModeInv` relates the main thread's position to the
  threads being active (reads are only queued for active threads, and a stop serves
  them first); `MutexInv` says which mutexes are held while a start or a stop goes
  through them.
- `OneThreadPerClient`: `Spec => []ClientHasOneThread`. The queues hold no client twice
  (`Injective`, from the flags that postponeClientRead and clientInstallWriteHandler
  test), and while the clients are handed out the lists hold only those handed out so
  far (`HandedOut`), so that the next one is in none.
- `OpFrozen`: io_threads_op only changes while no thread works and no counter is set,
  which is why it can be a plain variable.
- `ImplementsBatches`: every step of the handshake is a step of `IOBatch` or leaves its
  state alone. `VisitsInv` is what it needs: a client in a list is of the batch, and
  visited exactly if the thread's iterator has passed it; a client of the batch that
  was not visited is in a list. When all counters are zero the lists are empty, hence
  every client was visited, and the abstract batch may end. `BatchInv` says that the
  batch is not empty and that io_threads_op is its kind.

`AeTimeProofs` proves, for every set of addresses, any number of timers, any delays
and any clock, from `AeTimeAssumption`:

- `ScanIsSafe`: `Spec => []CursorIsAllocated`. A handler may create and delete timers
  while the scan stands on one. `LinksInv` says that the list is linked both ways over
  allocated nodes, with the head as its only node without a predecessor: only with this
  does unlinking a timer in Reap leave every pointer on allocated memory. `ScanInv` says
  that the scan stands on an allocated timer.
- `TimersAreFinalized`: `Spec => []FinalizedWhenFreed`, whatever order timers are
  created, deleted and reaped in, addresses used again included.
- `NewTimersAreSkipped`: `Spec => []NoNewTimerMet`, the comment on the test against
  maxId. `OrderInv` (numbers are unique, newer timers come first) is what it needs: the
  scan only goes to older timers.
- `SleepIsShort`: `Spec => []SleepDelaysNoTimer`, however the clock moves, also
  backwards. That needs only the types of the timers' times.

`AeProofs` proves, for any number of descriptors, every backend and calls nested to any
depth, from `AeAssumption`:

- `MaxfdStaysHighest` and `KernelFollowsMask`: the loop's tables agree with each other
  and with the backend after any order of creating, deleting and resizing. `LoopInv`
  adds that nothing is watched beyond the set (`ApiInv`), so that the slots a resize adds
  begin with nothing.
- `WalkInBounds`: `Spec => []FiredInBounds`. A nested call overwrites the array the
  outer one walks over; `BoundInv` and `FiredInv` say that what an outer call still has
  to visit was written by some poll and names a slot of the set, which only grows.
- `HandlersAreServed`: `Spec => EntriesServed`. Each of the three tests of an entry
  reads the mask again. `EntryInv` says which handlers were called at each point between
  them if the registration has not changed: a function of the reported events, the
  registered ones and the barrier; `LeftWhenServed` reads the property off at the end.
- `HandlersAreRegistered`: `Spec => []EventStillValid`, assuming `~CommandsInHandlers`.
  With a resize in a handler it is false (see above). `ValidInv` says that the pointer
  into the array is not stale, `ProcInv` that a registered event has a handler.

`ClientsProofs` proves, for any number of clients, commands and batches, from
`ClientsAssumption`, with the inductive invariant and its lemmas in `ClientsInvariant`:

- `ClosingClientsHaveReplies`: `Spec => []ClosingHasReply`.
- `RepliesAreWritten`: `Spec => []NoReplyStranded`, and `QueuesAreSound`:
  `Spec => []QueuesNameFlagged`, both assuming `Sequential`: one client at most gets an
  error reply from a thread. Without it they are false: TLC violates each of them with
  the constants of the run clients_thread_error.
- `AssertsHold`: `Spec => []UnlinkAssertsHold`, assuming also `NoBusy`: no long command
  runs during the walk over the queue of reads, which would lose what it queues.

The invariant says for each client that its flags are the numbers of times the queues
hold it (`FlagInv`, `PwInv`), except for the client a thread is linking, whose flag is set
and whose entry is still to be made, and that output has someone to write it (`OutInv`);
for the queue of reads that it holds live, flagged clients once, while it is walked over
too, and what the threads and the iterator still have to do is part of it (`QueueInv`).
Each function of networking.c on one client has a lemma that says it keeps this
(`Makes`); an action cites the lemmas of the functions it calls.

`ReplyProofs` proves, for any sizes of the buffers, any limits and any sequence of
commands, from `ReplyAssumption`:

- `RepliesAreCounted`: `Spec => []ReplyBytesExact`: `reply_bytes` is the sum of the
  blocks' sizes, whichever of them a deferred length was glued to, and no placeholder
  outlives its command.
- `HardLimitIsKept`: `Spec => []HardLimitCloses`.

Between two commands the invariant `IInv` says little more than this. The work is inside a
command, which makes any number of calls: `Reached(old, cl, N)` is the invariant of
those, where `old` is the client when the command began and `N` the places of the
placeholders. The limit may be exceeded there: addReplyDeferredLen adds a node and does
not look at the limits, and setDeferredAggregateLen may glue the length to the next node.
So `LimitInv` says that the limit is kept up to placeholders at the end, or that nothing
but those was added. Every operator of the addReply family has a lemma that it keeps
`Reached`, with the same `N`, or with the placeholder `Open` adds and `Close` removes.

`ClusterNodesProofs` proves, for any number of nodes, hosts, replicas and slots and
whichever links fail, from `NodesAssumption` (which asks of the floats that they are
`CloseEnough` for every number of masters that the nodes of a layout allow), with the
inductive invariant and the steps of the members' commands in `ClusterNodesInvariant`:

- `SlotsAreDivided`: the ranges that create computes with its float cursor divide the
  slots, and none is empty, for all numbers of masters and slots and every precision with
  `CloseEnough`. The cursor after i masters is within i times the spacing of the exact
  sum (`RangesFollow`), so as long as all errors together are below half a slot the
  ranges advance, and the one before the last ends before the last slot. With the floats
  of C and 16384 slots `CloseEnough` holds for 1 to 3848 masters.
- `PlanDividesSlots`: `Spec => [](Planned => SlotsDivided /\ ReplicasFit)`, the first
  two conjuncts of `PlanSound`, through the interleaving of hosts, the choice of replicas
  and the swaps of the optimizer.
- `CreateIsComplete`: `Spec => []CreateComplete`. `CreateInv` says for each step of the
  command what the nodes its loop has passed were told, what is still dirty, and which
  of it a failed link excuses. `KeptInv` says of what an earlier create left that it is
  what this one would tell the nodes: the masters, their slots and the epochs are a
  function of the command line, the optimizer only exchanges replicas.
- `MembersAreComplete`: `Spec => []MembersComplete`. `DelInv` says that a node that was
  told to forget the removed one also bans it, so that gossip does not bring it back;
  `AddInv` that the new node knows the first one.

The slots, the replicas and the replies are computed by recursive functions. Where a
lemma needs an induction over one, it takes the least number at which the claim fails
(`LeastNatural` and, over the well-founded order of the library, `Climb`) and
contradicts it; `Recursion` shows that a function given by a first value and a step exists.

The assumptions give the constants their types; `ConfigAssumption` adds the limit that
initThreadedIO enforces on the number of threads, `FloatAssumption` that 1 is a multiple
of every spacing, and `NodesAssumption` the bound on the nodes. TLC evaluates them in
the runs.

Only model-checked:

- liveness and fairness (also the ending of `IOBatch`'s batches), which are out of the
  prover's reach;
- `PeerSeesReplies`, `Parser`, `Sds` and `Rax`: what a recursive operator over nested data
  decodes, parses or finds needs inductions over that data, and tlapm has no SMT backend
  in modules with RECURSIVE operators;
- `ClusterSlots`, whose program is a stack of instructions of any depth: an invariant
  would have to describe every suffix of every program, interrupted anywhere;
- the rest of `PlanSound`: that every node has a role is not true of every layout (with
  more nodes left over than masters the last ones have none), and that the optimizer
  always has a replica to swap rests on sums over the groups of every host.

## What is not modelled

- *Clients*: masters, replicas, MULTI and Lua clients and monitors, whose functions
  are in files outside the repository. The end of a pause noticed by a thread instead
  of serverCron (networking.c:2499): the clock that clientsArePaused compares with is
  advanced by serverCron, which asks first. The AE_BARRIER that a handler installed after
  a threaded write lacks (networking.c:2738): what it orders is a reply and the fsync
  of the append-only file, which is not in the repository.
- *Event loop*: aeWait, a single poll(2) outside of the loop.
- *Query parsing, replies*: the wording of errors, the formatting of numbers, Gopher
  replies, the text of CLIENT LIST. copyClientOutputBuffer, which only replication calls.
- *Radix tree*: the branches for failed allocations, which zmalloc turns into an abort;
  raxRandomWalk, raxCompare, raxTouch, raxShow and node callbacks. The tree is changed
  only while no iterator is on, as its documentation asks, and an iterator is
  positioned when it is new or from the key it is at.
- *Cluster manager*: import, call, info, set-timeout and backup of configurations;
  replicas in `ClusterSlots`, which every loop there skips; rebalancing with all weights
  zero, which divides by zero. A create runs on new nodes, or on what the same
  create left of them; nodes that were given slots by hand, or that are listed in another
  order the second time, are not modelled. A node keeps a FORGET for good; the minute
  after which the server lifts the ban is not in the repository.
- *redis-cli* beyond the cluster manager (prompt, help, latency, pipe, scan and
  intrinsic modes): a sequential program around one connection and a terminal.
- *Linked list*: its operations appear as operations on sequences. *Strings*: headers
  and growth, which the unit test in sds.c covers. *Memory accounting*: one atomic
  counter; the only decision the modelled code takes from it is when a write stops, and
  `Reply` lets a write stop anywhere.
- *Start-up*, *sockets*, *configuration*, *byte order*, the vendored libraries:
  sequential code that runs once, wrappers of system calls, text handling, and
  third-party code.
