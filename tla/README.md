# libFAUDES in TLA+

TLA+ models of the parts of libFAUDES (a C++ library for discrete event systems) that are
hard to get right by testing: devices that exchange events between threads and over a
network, timed execution with cached results, the copy on write of the containers, and the
fixpoint at the centre of supervisory control. TLC checks the models on small instances. TLAPS proves the most important
properties for all instances.

Paths below are relative to `src/` of the repository; `PROJECT.json` maps each definition to
the lines it models.

    tlc -config SimplenetUp.cfg MCSimplenet.tla     # a run
    tlapm SupConProofs.tla                          # a proof

Contents: [inventory](#inventory), [modules](#modules), [runs](#runs), [proofs](#proofs),
[findings](#findings), [not modelled](#not-modelled), [plan](#plan).


## Inventory

libFAUDES consists of a core (`src/cfl_*`) and plug-ins (`plugins/*`). Most of it are
sequential functions that map finite automata to finite automata. Concurrency, failure and
time are in the plug-ins iodevice and simulator.

| Component | State | Operations | What makes it correct |
|---|---|---|---|
| **vDevice**, `iop_vdevice.cpp` | input buffer, reset request, buffer mutex, wait mutex and condition | Start, Stop, Reset, WaitInputs, WaitInputsMs, ReadInput, InputReady, ResetRequest | no wake-up is lost; WaitInputs() comes back and its answer is right |
| **nDevice**, `iop_simplenet.cpp` | operating state, addresses and sockets of servers, sockets and subscriptions of clients, line buffers | listen thread, Start, Stop, Reset, WriteOutput | nodes find each other and stay connected in spite of losses and crashes; events arrive once and in order; sockets are not leaked; requests are answered |
| **sDevice**, `iop_sdevice.cpp` | sampled levels, image of the outputs, operating state, mutex | cyclic thread, Start, Stop, Reset, Configure, WriteOutput, WriteSignal | an edge is one event; outputs follow what is written and are low after a stop; a call returns |
| **xDevice**, `iop_xdevice.cpp` | list of devices, the buffer they share | all of vDevice, passed on | nothing of an earlier run is read; members are started, stopped and asked consistently |
| drivers: Comedi, Modbus, Wago, serial, D3RIP | hardware | | |
| **Executor**, `sp_executor.cpp` | timed state, time, cached enabled status | Reset, queries, ExecuteTime, ExecuteEvent, assignments | the cached status is the one of the present state |
| **ParallelExecutor**, `sp_pexecutor.cpp` | executors, time, copy of the states, cached enabled status | the same | synchronised execution: all that take part or none |
| **ProposingExecutor**, **LoggingExecutor** | proposed transition, random times, log | ProposeNextTransition, ExecuteNextTransition | the proposal fits the present state |
| **DeviceExecutor**, `sp_dplpexecutor.cpp` | the above, real time, device | SyncTime, SyncEvents, SyncWait | simulated and real time stay together |
| **intervals of time**, `tp_timeinterval.cpp` | | Intersect, PositiveLeftShift, ... | |
| **SupCon**, `syn_supcon.cpp` | result so far, stacks, critical states | SupCon, SupConClosed | the supremal solution, found in any order |
| other synthesis: normality, completeness, standard, compositional, reduction | | | like SupCon |
| **containers**, `cfl_baseset.h`, `cfl_attrmap.h` | elements and attributes, host and clients of shared data, flags, iterators | construct, assign, destroy, Clear, Lock, insert, erase, set operations, attributes, Find | a change of one set is not seen in another; data are freed once; a locked set stays where it is |
| symbol table | names and indices | | |
| generators and algorithms: composition, projection, subset construction, minimisation | | | the language they define |
| files, registry, bindings, tools | | | |
| plug-ins coordinationcontrol, diagnosis, hiosys, hybrid, iosystem, multitasking, observability, observer, omegaaut, priorities, pushdown | | | |

How they interact:

- An application calls a device in its own thread. Each device has a background thread (the
  listen thread of an nDevice, the cyclic thread of an sDevice), which puts events into the
  input buffer under the buffer mutex and broadcasts the condition on which WaitInputs()
  waits. The members of an xDevice use the mutexes, the condition and the buffer of their
  container (`iop_xdevice.cpp:300-302`).
- nDevices talk to each other: datagrams to learn addresses, one TCP connection per direction
  and pair of nodes. A client subscribes to events of a server; Reset() requests resets.
- A ParallelExecutor owns Executors, and computes its status from theirs. A DeviceExecutor
  drives a ProposingExecutor, which is a ParallelExecutor, and a device.
- SupCon uses the containers and the reachability of the generators.

Hard behaviours are listed as hazards in `PROJECT.json`, each at its line and with the
properties that would notice it going wrong.


## Modules

| Module | Models |
|---|---|
| `InputWait` | waiting for events: application and background threads around buffer, wait mutex and condition |
| `SignalDevice` | signal devices, alone or in a container, with their threads and an application |
| `Simplenet` | a network of nDevices |
| `EventNetwork` | what such a network promises (abstract) |
| `TimeInterval`, `TimedGenerator` | intervals of time; timed generators as data |
| `Executor` | operations of an Executor, as operators on a record |
| `ParallelExecutor` | a ParallelExecutor with its members |
| `TimedProduct` | the parallel composition of timed generators (abstract) |
| `BaseSet` | TBaseSet with attributes: sharing, detaching, locking, iterators |
| `ValueSets` | sets that are values (abstract) |
| `SupCon` | SupCon() and its subroutines |
| `MC...` | instances for TLC |
| `...Proofs` | theorems and their proofs |

Definitions named `Fault...` are slips that somebody might make in the code. No action uses
them. Put in place of the definition they imitate, they show that a property is sensitive to
that definition; `PROJECT.json` lists the combinations under `mutants`.

### InputWait

`appPc` is the position of the application in WaitInputs(): `WaitTest` takes the wait mutex
and tests the buffer, `WaitBlock` is the entry of `cond_timedwait`, `WaitRetest` its return,
`WaitTimeout` the time running out. `NetReceive` ... `NetNotify` are a round of a listen thread,
as far as the buffer is concerned; `SignalEdge` and `SignalNotify` those of a cyclic thread. The
critical sections of the buffer mutex are straight-line code, each is one step. The buffer is a
counter for each device that events come from; ReadInput() takes an event of any. An application
of one thread is assumed, as the classes are documented. InputReady() tests the buffer of the
device itself (`iop_vdevice.cpp:984`), which is the shared one of a single device and of a container; a
member of a container, asked or waited for directly, would never be ready. That case is left out.

### SignalDevice

`pc` is the position of a cyclic thread, SDeviceSynchro(), in its cycle: `CycleBegin` takes the mutex
and, on start up, clears the outputs, `StartEdges` samples the inputs and declares the device up,
`BeginInputs`, `Sense` and `Push` detect edges and buffer their events, `WriteLevels` and `SettleLevels`
write what is pending, `CycleEnd` unlocks. `todo` is what is left of the call that the application is
in: Start(), Stop(), Reset() and Configure() put a step there for each member, in the order of the
container (`ForEach`), and `ResetDevice`, `StartDevice`, `TestState` and `StopDevice` replace a step by what
the call goes on with in the state they find. The tests of `mState` by
ClrInputSignals() and ClrOutputSignals() are steps of their own, since they are made without the mutex.

A cycle is cut where something that is not under the mutex can come in between: flushing the buffer,
the tests of the state, asynchronous writes, the hardware. Loops over the signals are single steps
otherwise, since signals do not interact.

`wire`, `line` and `ok` are the hardware: levels of inputs and outputs, and whether it can be reached
(`DoReadSignalsPre`, `DoWriteSignalsPre`). An entry of the buffer stands for the events of one edge. `old`
and `past` are history: the edges of the device have been sampled anew since, the device has been
started again since. `cleared` is the result of the last attempt to clear the outputs.
`rel`, which signals are cleared, is what the allocation leaves behind until the first cycle sets it.

`Started` is one reading of `mState`, as in builds with optimisation; the code compares it twice without
the mutex (516, 538, 1065), and a build that reads it twice could meet "StartUp" and then "Up", and take the
device for not started.

Left out: the flags `lost`, `pos`, `neg` and the counters of cycles, on which nothing depends;
ReadSignal(), which changes nothing; the wake-up of the application, see `InputWait`; the
destructor and StopAll(), which stop a device as Stop() does.

### Simplenet

Each node has a listen thread, `NDeviceListen()`, and an application. A round of the listen
thread is cut where others can make a difference: `Scan` (what is missing, state, broadcast),
`Connect` once for each server missing, `Select`, then a step per ready socket in the order of
the code: `Accept`, `HandleUdp`, `ReadServer` or `EofServer`, `ReadClient` or `EofClient`.
`EofServer` and `ClearSocket` are two steps since the code does both without the mutex.
`Start`, `StopRequest`/`StopJoin`, `Reset`, `WriteOutput`, `ReadInput` and `ResetRequest` are
the application. `mMutexLost` is the state of a mutex that an exception has left locked.

The network is the environment (marked external where the code only calls it):

- A TCP connection has two ends. Data between them arrive in order. Who reads after the other
  end has been closed gets the rest and then eof, or a reset (`PeerReset`). What is written to an
  end that is closed may be lost, or fail. One write, one message; several may be read at once,
  and a process that dies may leave a fragment of a notification behind. Not represented: that `send()`
  takes a part of the data only, upon which `syncSend()` (248-261) would send the head again; that a
  connection fails during the exchange of greetings (853-861) other than by the end of the server; and
  that the number of a closed socket is given to another one.
- Datagrams may be lost, up to `MaxLoss`. Equal ones that wait at a node count as one, they
  wait in the order of arrival, and a node ignores its own. The datagram that Stop() sends to
  itself only wakes `select()`, which has a timeout, and is left out.
- `Crash` ends a process at any step. That covers SIGPIPE on writing to a closed connection, and
  the exception of a failing subscription, which leaves the thread. With `HostFails` the host
  vanishes, its connections stay half open. `GreetFails` are an `accept()` that fails, for want of
  resources or since the client has gone, and a write that fails while greeting with an error instead of
  a signal, as on Windows or after a reset; both end the listen thread. The exceptions of Start() (597-659),
  when the operating system refuses a socket or a thread, are left out.
- Time is not measured: `BroadcastDue` are the 5 seconds between two broadcasts.

`written` and `heard` are history: the number of events executed by a node, the last one that
has been buffered by another.

### Executor, ParallelExecutor

An Executor is a record, each operation an operator on it. `Query` computes and caches the
status, as any of the functions EnabledTime() ... EnabledGuardTime() does.
`ComputeEnabled` is `ComputeEnabledNonConst()`, `Shifted` the part of ExecuteTime() that moves
the status along. What remains of an invalid status is dropped, since no function reads it
without computing it first. `Intersection` is the result of a loop of Intersect().

`ParallelExecutor` has an action per operation. `StatusOnly` is any query of the parallel status,
and an execution that is refused. `QueryMember` is the access to a member, which may compute its
status in between. `SetCurrentParallelTimedState` with a state that a member refuses returns to
the copy, and yet resets the time, as the code does (`sp_pexecutor.cpp:349-367`); `TimedProduct`
permits this.

Left out: the logical time and the most recent event (nothing depends on them), and names. The
setters of a member cannot be reached through a ParallelExecutor. Durations are such that time and
clocks stay below `Time::Max()`, or go on for ever (`NoOverflow`): the code does not check, and
signed overflow is undefined. Lower bounds of intervals are only used from zero on, so `-inf`
needs no special value.

`TimedProduct` has no caches: `Pass(d)` if all invariants hold, `Execute(e)` if all that have e
enable it.

### BaseSet

`mem` is a record with a function for each field of the sets (`pHostSet`, `pSet`, `mpSet`,
`mpClients`, `mDetached`, `mLocked`, `mIterators`), the containers on the heap and the iterators of
the application. The std::set and the map of attributes, which the code allocates, hands over and
frees together, are one container; an attribute is present or not. An iterator is the container it
points into, since which element it denotes is the affair of std::set.

Each public operation is an action. The private functions (`RelinkClients`, `AttachClient`,
`DetachClient`, `Detach`, `Lock`, `DoCopy`, ...) are operators from memory to memory, or to a set of
memories where the code leaves a choice: the first client of a list of pointers, the address of a new
container, and the loop of `Detach()` that removes iterators from the set it walks through
(`cfl_baseset.h:1522-1541`, undefined behaviour: any of the iterators may have been moved, but
at least the first one). `Typing` are the ways to type the sets, one of which is chosen at the start:
an assignment between sets with attributes of different types makes a deep copy.

In `ValueSets` nothing is shared: each operation gives one set a new value.

### SupCon

A state of the result is a pair of states; the code numbers the pairs, in the composition map.
Each stack is a set: any of its elements may be next, the last one is the choice of the code. One
step is one turn of the loop over the stack. `ProductStep` is SupConProduct(), with events in
the order of their indices, and the early exit at the first uncontrollable event that is bad.
`Round` begins the next round of SupConUnchecked(), `ClosedStep` and `ClosedEnd` are
SupConClosedUnchecked(), `Trim` is `Trim()`. Sets of states that are reachable are defined as those
in every closed set, not by a search. Left out: the composition map, state names, and results
that are also arguments.


## Runs

| Run | Instance | What it shows |
|---|---|---|
| `inputwait` | two network devices and a signal device; 2 events of each, 2 per round | no wake-up of a network device is lost, also next to a signal device, and no timeout needed; WaitInputs() comes back, and is right when it says that there is an event |
| `inputwait_signal_lost` | the same | *violated*: signal devices lose wake-ups |
| `signaldevice` | one of three devices (synchronous outputs; an input and an asynchronous output; no thread), or a container of a device with an input and one with an output; one signal each | edges are events once and in order; outputs follow what is written, and are low after a stop; nothing of an earlier run is read; devices come up, calls return |
| `simplenet_crash` | one node executes 2 events; one process dies or its host vanishes | events in order and at most once; subscriptions survive; refinement of `EventNetwork` |
| `simplenet_stop` | Stop(), Reset(), an accept() or a greeting that fails | no socket is leaked |
| `simplenet_up` | one address unknown, a datagram lost, one event | nodes get up and stay up, requests are answered, events are heard |
| `simplenet_recover` | one crash | nodes get up again; a node that is up without connections notices |
| `simplenet_mutex` | one crash, one Reset() | *violated*: a node is locked for ever |
| `supcon` | all plants and specifications with 2 states and 2 events, each controllable or not | SupCon() ends with the supremal solution |
| `baseset` | three sets of one type, or two and a plain one; one element, one iterator | sets behave as values (refinement of `ValueSets`); pointers and flags agree, nothing dangles, locked sets stay, tracked iterators follow the container of their set |
| `executor` | a machine and a buffer, 3 clocks, 8 units of time | cached statuses are right; refinement of `TimedProduct` |
| `executor_guard` | the same | *violated*: EnabledGuardTime() at an exclusive lower bound |

**Bounds.** All are constants or named definitions of an `MC` module.

- InputWait: `MaxBuffer` 2 for each device and `MaxBatch` 2. Waiting only tells an empty buffer from
  the others, and a round with notifications from one without.
- SignalDevice: one signal for each direction of a device, since signals do not interact. `MaxBuffer` 1:
  signals rest while an event is buffered, so that the buffer holds two at most, of which the last may be
  buffered before or after a flush or a sampling anew. Actions are "set" and "invert"; WriteSignal() clears. `Failing`:
  the hardware of single devices fails and recovers at any time, in the container it does not. The
  application calls anything in any order, for ever.
- Simplenet: two nodes. Each is server and client of the other, in any phase. A third node would
  add clients that are trusted by number, and is beyond TLC. `MaxConn` is one more than the
  number of crashes, stops and ended threads that may close a connection, so it never binds.
  `MaxWrite`, `MaxLoss`, `MaxCrash`, `MaxStop` and `MaxReset` are 0 to 2, spread over the runs so that each
  failure meets each phase of the protocol.
- Executor: durations 1, 2, 3 and infinity, `Infinity` 9, so that 8 units pass. Guards and
  invariants of the instance are exclusive and inclusive, bounded and not, on one and on two clocks;
  three assignments, of which one violates an invariant and one is refused.
- BaseSet: three sets, so that a host has two clients and one of them remains when it leaves; as
  many containers, since no set owns two. One element tells containers apart that should be
  equal or different. One iterator: it stands for each, since iterators only meet in the loop of
  `Detach()` mentioned above, which with several leaves some behind. (The proofs are for any number:
  the loop is in the exception of `IteratorsFollow`, and `DValid` does not test where iterators point.) Containers are symmetric, and so are the two sets of one type.
- SupCon: two states and two events without loss of generality as described in `MCSupCon`. A plant
  whose states are all marked is enough, since only pairs are marked.

**Fairness.** `FairSpec` of InputWait: threads go on in the middle of a call, and one that waits
for a mutex gets it when it is free again and again (strong fairness of `WaitRetest` and
`NetLock`). Nothing forces a timeout, so `EventEndsWait` does not depend on one. `WaitReturns`
has the fairness of the clock as its hypothesis. FairSpec of SignalDevice: each thread runs (weak
fairness: at each point of its cycle it can go on, or waits for the application's short critical sections), and
the application goes on with a call (strong fairness, since the thread takes the mutex again and again
and sleeps in between). Nothing is assumed of the hardware: `ComesUp` and `OutputReaches` except its failures. FairSpec of Simplenet: listen threads run, the five seconds
pass, applications start their nodes and start them again, Stop() is joined. Nothing is assumed of an
application's other calls. Liveness is required once the bounded failures are over. FairSpec of
SupCon: a function that is called runs on.

`CHECK_DEADLOCK FALSE` is used in two runs: `SimplenetStop` writes no events and
comes to rest when its stop and its reset are spent, and the algorithm of `SupCon` ends.


## Proofs

For every value of the constants that meets the assumptions named in the modules:

| Theorem | Statement |
|---|---|
| `InputWaitProofs!MutexCorrect` | the wait mutex is held by the thread in its critical section, for any mix of devices |
| `InputWaitProofs!NetNoLostWakeup` | no wake-up of a network device is lost, for any mix of devices |
| `InputWaitProofs!ReadyCorrect` | an answer that there is an event stays true until the caller gets it |
| `SimplenetProofs!SubscriptionCorrect` | no subscription is lost, for any number of nodes, and any failures |
| `SimplenetProofs!SocketsRecordedCorrect` | no socket is forgotten, closed twice or owned by two, unless a host vanishes |
| `EventNetworkProofs!EventsInOrderCorrect` | what is buffered and under way from a node to another rises, over connections, crashes and restarts |
| `EventNetworkProofs!ImplementsEventNetwork` | the nodes implement the abstract network: events are heard at most once and in order, whatever fails |
| `SupConProofs!SolvesCorrect`, `SupremalCorrect`, `PermissiveCorrect` | SupCon() returns the supremal solution, for all generators and orders of the search |
| `SupConProofs!MeasureFallsCorrect`, `MeasureCorrect` | every step makes a tuple of natural numbers smaller, so that no order of the search goes on for ever |
| `SupConProofs!PassCorrect` | one pass of SupConClosed() is enough |
| `ParallelExecutorProofs!MemberStatusCorrect`, `StatusCorrect`, `CopyCorrect` | cached statuses and the copy are right |
| `ParallelExecutorProofs!ImplementsProduct` | a ParallelExecutor implements the timed product |
| `BaseSetProofs!ActsAsValuesCorrect` | sets behave as values, whatever they share |
| `BaseSetProofs!DValidCorrect`, `NoDanglingDataCorrect` | pointers, flags and the iterators' sets agree as `DValid()` demands (not its tests of where iterators point, 1777-1786, and of a client's entry for itself, 1849); data that are used are not freed, and freed once |
| `BaseSetProofs!DataOwnedCorrect` | besides, no container is lost, as long as the sets have attributes of one type |
| `BaseSetProofs!LockedStaysCorrect` | the container of a locked set does not move |
| `BaseSetProofs!IteratorsFollowCorrect`, `TracksCorrect` | a tracked iterator that points into the container of its set goes on doing so, or is invalidated, but for those of the clients of a locked set that changes; sets track the iterators attached to them |
| `BaseSetProofs!AttributesOfOneCorrect` | an operation changes the attributes of one set; only Clear(), ClearAttributes() and CopyWithoutAttributes() of a locked set take those of the sets that share its data |
| `SignalDeviceProofs!ControlCorrect` | state, thread, mutex and the application's call agree |
| `SignalDeviceProofs!StartsEmptyCorrect` | no event from before a stop is read after the next start, alone or in a container |
| `SignalDeviceProofs!EdgesAlternateCorrect` | the event of an edge is neither lost nor doubled while both edges have events |
| `SignalDeviceProofs!LineFollowsCorrect`, `StopLeavesLowCorrect` | outputs are as recorded while the device is up, and low after Stop(), for devices that write synchronously |
| `...!TypeCorrect`, `SimplenetProofs!NetworkTypeCorrect`, `EventNetworkProofs!SimplenetTypeCorrect` | types |

Each proof rests on an invariant that is inductive.

- **InputWait.** `MutexCorrect` needs that program counters and the owner of the mutex correspond in both
  directions. A lost wake-up would need an event to be buffered between the test and the blocking
  without a broadcast to come; the invariant says that whenever the application is between the
  two, or blocked, and an event is buffered, a listen thread has counted it (`revcount`) and is
  still to broadcast under the mutex.
  `ReadyCorrect` needs that only the application takes events, which it does not do inside of a call.
- **SignalDevice.** For any devices, signals, events and containers, and hardware that changes and
  fails at any time. `Plan` describes the shapes of `todo`: nothing but the resets of a device comes before
  the creation of its thread, a request to terminate is followed by the join. `ThreadInv` relates a
  device's state, thread and mutex to it; a thread that is asked to terminate, or has ended, is being
  joined. `StartInv`: a thread is only created for a device that is reset and has none of its events
  buffered. That gives `StartsEmpty`, with a case for a container, in which members that have
  been started buffer events while the next ones are reset. `OutputInv` follows the output levels: zero
  between their clearing on start up and the end of it (`Zeroed`), the record right while
  the device is up (`Truth`), nothing high and nothing pending but zeros while Stop() waits for the thread
  (`Quiet`). `EdgeInv` says what sampled and buffered levels have to do with each other: the
  events of a bit alternate in the buffer, the last one agrees with the level the next edge is compared
  to, and with the one the thread has sampled if it is about to buffer it.
- **BaseSet.** `Good(m, L)` says that in memory m the sets of L are in order: hosts, clients, owners and
  flags agree, and what is pointed to exists. A set leaves L with `Independent()`, which hands what it hosts
  to a client, and comes back with a container of its own, as a client, or empty. `Locks(m, L)` adds
  what makes the strategy of locked sets work: a locked set hosts its data, they are not the global
  empty set, and it is detached or has clients to give the copy to. There is a lemma for each
  private function, that it preserves these and the values of all other sets. The refinement
  says which value each operation gives to its set. The proof holds for any number of sets, containers,
  elements, iterators and attribute types, and for any choice of the clients. Three more parts follow
  what sets have beside their elements, with a lemma per private function each. Attributes
  (`AttrsKept`): a set that an operation is not called for keeps its attributes, but for the clients of a
  locked set, which take the copy that it makes, and lose theirs if that is made without. Iterators
  (`Tracks(m)`): an iterator that a set tracks is attached to that set and to no other one, and a
  locked set tracks none. `ItersKept`, `ItersFixed` and `ItersMoved` say what one private function does to
  the iterators that point into the container of their set: invalidated, or still tracked and pointing
  into the container the set has then; the same, but no longer tracked (Lock); the same, but for
  those of the clients of a locked set (Detach). They compose, since a container that a set takes is
  given to all iterators it tracks (1564-1571) and to no others. Containers (`Tidy`): every container on
  the heap has an owner among the sets (`Owned`), and a host without clients is
  marked as detached (`Marked`). The second is what keeps the first inductive: `Detach()` of a set not marked
  overwrites the pointer to its container, which must then have been handed to a client.
  It is broken by a deep copy between attribute types (line 1438, see Findings), so that `NoLostData` is restricted to
  sets of one type; TLC refutes it without the restriction.
- **Simplenet.** A client that is connected but has not subscribed must still have its request
  under way. That is inductive once it is known that connections are numbered up to the
  connections made, that the ones not accepted yet are not recorded as clients, and that those
  still carry the subscription. `SocketsRecordedCorrect` assumes that no host vanishes with its ends
  open (`~HostFails`). `EndInv`: an open client end is the one its client has recorded, the server ends
  are those in the backlog or accepted. `NodeInv`: a client end that is recorded but closed exists only
  during the handling of eof, and is the only one of its node; the servers that a thread is about to connect
  with have no recorded socket; nothing is left when a thread has ended. The input buffer takes no part.
- **EventNetwork.** Order is a property of a whole pipeline: what a node n has of another node m is in its
  input buffer, in its line buffer and in the stream of the connection, while m may be executing more.
  `OrderInv` says of each pair (`Heard`) that the events of m in the line buffer and in the stream of
  the open connection rise, between the last one heard and the last one executed (`Rising(s, a, b)`), and of each node
  (`Buffer`) that the buffered events of each sender rise up to the last one heard. `Unmade`: connections
  that have not been made carry nothing, so that a new one starts in order. The step that
  matters is that of `ReadServer`: a prefix of the stream moves to the line buffer, a
  prefix of that is interpreted, and the input events among the messages are a
  subsequence. That a subsequence keeps order needs no recursion: the position of its k-th element
  exists and rises with k because a nonempty set of naturals has a least element (`LeastNat`, `PlaceExists`,
  `PlaceMonotonic`, `SubsequenceOrder`). The theorems need no restriction: hosts may vanish
  with their ends open.
- **SupCon.** The invariant has a part per phase. `ProductInv`: a state that has been processed and is
  not critical has all of its shared transitions, up to those to critical states, and no solution
  has a critical state. `ResultInv`, from then on: the transitions are all that plant and specification
  allow between the states, and every solution is within the states. `ClosedInv`, during a pass:
  a state that has been processed and is not critical disables no uncontrollable event, and its
  uncontrollable transitions are in the reverse relation, by which a later critical state
  reaches it. `TrimInv`: after the pass the states are controllable, and no more than at
  the beginning of the round. `IdleInv`: the sets of one phase are empty in the others. `DoneInv`: at the end the
  states are a solution, since the last round has deleted nothing. The result is supremal because
  no step deletes a state of any solution. The measure of `MeasureFalls` is, in lexicographic order, the
  number of states that the round began with, the phases of the round to come, the states not seen yet
  in the phase, and what waits on the stack. It falls over rounds because `Trim()` only goes back to
  the loop when it leaves fewer states than `state_num`; within the pass because a state is processed once.
  The lexicographic order of naturals is well-founded, so that the search cannot go on for ever. That it does not stop
  early (some action is enabled until "done") is left to TLC, with `Terminates`.
- **Executor.** `Right(gen, x, s)` says that a status s is right in a state x. Lemmas about
  intervals (the loop of intersections contains what all contain; a shift contains t if the
  interval contains t later) give that a computed status is right (`ComputeRight`) and that it
  stays right when it is moved along within the enabled interval (`ShiftedRight`): the interval
  ends before the first enabled event leaves its guard and before the first other one enters it.
  Maximum and minimum of a finite set of bounds exist by well-foundedness of finite sets.
- **ParallelExecutor.** `IInv`: each member is well typed with a right status or none; as long as the
  parallel status is valid, those of the members are, and it is their composition; the copy is
  the present state and the members agree on the time. Then a step of the composition, which asks
  its cached status, is one of the product, which asks invariants and guards; every member that is
  made to execute accepts.

Statuses are right for durations that do not take clocks to `Time::Max()`, see `NoOverflow`.

**Only model-checked.** Liveness (`EventEndsWait`, `WaitReturns`, `AllUp`, `RequestsAnswered`,
`UpMeansHeard`, `UpMeansLinked`, `Terminates`, `CallsReturn`, `ComesUp`, `OutputReaches`): TLAPS does
not prove properties under fairness. All invariants, action properties and refinements of the
passing runs are theorems.


## Findings

Three disagreements between the code and its documentation have a run of their own:

1. `iop_sdevice.cpp:888`: the thread of a signal device broadcasts without the wait mutex. The
   broadcast can fall between the test of the buffer and the blocking. WaitInputs() then sleeps
   over a buffered event until its timeout.
2. `iop_simplenet.cpp:1337`: Reset() of an nDevice sends to its servers with the mutex locked, and an
   exception leaves it locked. The listen thread blocks for ever, the node answers no more.
3. `tp_timeinterval.cpp:54`: PositiveLeftShift() makes an exclusive lower bound inclusive when it
   arrives at zero. EnabledGuardTime() reports that a guard is satisfied at the moment before it
   is. The enabled events are not affected, as the theorems show.
Others that the models reproduce without a run: WriteOutput() leaves out the clients behind one
that is gone (`iop_simplenet.cpp:544-558`, the client learns by eof soon); a fragment of a line in
`mLineBuffer` survives a connection (1094) and costs what is received together with it, so that
events may be lost, never reordered; a node counts its clients instead of
identifying them (745-751), so that it may be up for a while without one of them. Copies of a
locked set lose their attributes when that set is cleared, or its attributes are
(`cfl_baseset.h:2128`, the exception of `AttributesOfOne`). When a locked set with clients changes, the
clients' iterators are made to refer to the locked set while they point into the clients' container,
and with several of them some are not moved at all (1522-1541, the exception of `IteratorsFollow`). TLC finds both
at once when the exceptions are taken out of the properties, the second with one iterator: `New(o)`,
`LockSet(o)`, `New(p)`, `Assign(p, o)`, `Find(i, p)`, and `Clear(o)` or any other change of o. Lock() is "not reversable" (406), but Clear() unlocks
(2159). A locked set does not track its iterators, so that an assignment, Clear() or the destructor
leaves them pointing to freed data. An
assignment between sets with attributes of different types makes a deep copy but resets the flag "detached"
afterwards (`cfl_baseset.h:1438`): the next change of the copy makes another copy and never frees the
first, and a debug build ends with "missed detach" (1473-1483).

Of signal devices: Stop() "resets all output signals to 0" (`iop_sdevice.h`), but a device that writes
asynchronously may be left with a high output: WriteOutput() takes no lock (`iop_sdevice.cpp:1084`) and can
come between the clearing of the outputs in the last cycle and the end of the start up, while
ClrOutputSignals() of Stop() has found the device starting up and done nothing (1181). A device
without a thread never sets `rel`, so that its outputs may not be cleared at all; and a signal that
only WriteSignal() uses never is. ClrOutputSignals() forgets what is pending also when the hardware
cannot be written. An event that was sensed before Reset() can be buffered after it (559);
it agrees with the levels of before, and `StartsEmpty` shows that it does not get into the next run.


## Not modelled

- Hardware drivers, parsing and formatting of files, registry, bindings, command line tools:
  input and output.
- Algorithms on automata other than SupCon, and the plug-ins built from them: sequential
  functions. Composition, subset construction and projection are planned.
- Status(), Clear(), Insert() and the dispatch of WriteOutput() of a container.
- Of the containers: Erase() and Inject() by iterator, Attributes(), the conversion of attributes
  by `TAttrMap::Copy`, the classes derived from TBaseSet, and vectors.
- LoggingExecutor, random numbers and density functions: output and numerics.
- Members of a container that are asked with InputReady() or waited for on their own.
- Diagnostic commands of the line protocol (Info, Status) and the configuration of devices.
- Conversion between faudes time and milliseconds.
- The two JavaScript files under `plugins/luabindings/repl/` are output of a compiler (emscripten): the
  interpreter and the library in WebAssembly's glue code, in lines of up to a megabyte. The models
  are of the C++ code they were generated from.


## Plan

In order of importance; done so far are 1 to 6.

1. `InputWait` and its proofs.
2. `Simplenet`, `EventNetwork`, and the proof of subscriptions.
3. `SupCon` and its proofs.
4. `Executor`, `ParallelExecutor`, `TimedProduct` and their proofs.
5. `BaseSet`, `ValueSets` and the refinement proof.
6. `SignalDevice` and its proofs: devices with signals, alone and in a container.
7. Status, Clear and WriteOutput of a container, and containers of different kinds of devices.
8. `ProposingExecutor` on top of ParallelExecutor, the validity of the proposal; `DeviceExecutor`
   with a device and real time.
9. Algorithms against languages: composition, subset construction, projection, IsControllable().
10. Proofs about the new modules.
