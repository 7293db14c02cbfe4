# TLA+ models of the trains system

The repository is a small real-time operating system for a TS-7200 board
(`main.c`, `kernel/`, `include/`, `lib/`) and the user programs that run model
trains on it (`usr/`). This directory models the kernel and the servers as
TLA+ modules, checks them on small instances with TLC, and proves the properties
that matter most for instances of every size with TLAPS.

    tlc -workers 2 -config KernelEvents.cfg MCKernel     # one run
    tlapm KernelProofs.tla                               # one proof module

`PROJECT.json` lists the runs, the mutants (for every property of a passing run a
plausible mistake in the code that makes it fail), the source lines every
definition stands for, the hazards, the findings and the theorems.

## 1. Inventory of the system

### Kernel (`kernel/src`, `main.c`)

One processor. Kernel code runs with interrupts disabled from a trap (system call
or interrupt) to the next dispatch, so the kernel is sequential and all concurrency
is the order in which tasks trap and devices interrupt.

| component | state | operations | what makes it right |
|---|---|---|---|
| task table (`task.c`) | descriptors in slots, bitmap of free slots, next generation of each slot | `task_init`, `task_retire`, tid conversions | a slot is free exactly when it may be reused; a userland tid never comes back |
| scheduler (`schedule.c`, `scheduler.c`, `queue.h`) | a ring of tasks per priority, linked through the descriptors; bitmap of non-empty rings; counter of event-blocked tasks | `schedule`, register, deregister, next task | ready tasks are on exactly one ring; highest priority first, round robin within it |
| messaging (`messaging.c`, `send_queue.c`) | a ring of senders per task | `Send`, `Receive`, `Reply` | one atomic exchange per message, senders served in order, nobody else disturbed |
| events and interrupts (`events.c`, `interrupt.c`, `iio.c`, `vic.c`) | task waiting for each event, interrupt enables, CTS and transmitter-empty flags | `AwaitEvent`, UART, modem status and timer interrupts | no interrupt that a task waits for is dropped, none is enabled that nobody waits for |
| life cycle (`syscall.c`) | - | `Create`, `Exit`, `Kill`, `Pass` | exit and kill take exactly their task out of every structure |
| context switch (`asm/`), boot, statistics, drivers | registers, counters | | outside the models |

### System servers (`usr/`)

Every server is a task that loops on `Receive`, handles one message to the end and
replies now or later. Clients are blocked from `Send` to `Reply`.

| component | state | operations | hard behaviour, and what makes it right |
|---|---|---|---|
| name server | list of (name, tid) | RegisterAs, WhoIs, kill | a name finds its last registration; the table has a fixed size |
| clock server + notifier | tick count, heap of waiting tasks | tick, Time, Delay, DelayUntil | nobody wakes early or is forgotten; waiters may die and their slots be reused |
| transmit servers + notifiers | ring buffer, `can_put` | notifier message, Putc, PutBytes | notifier and client race for the transmitter; bytes leave once and in order; CTS handshake |
| receive servers + notifiers | ring buffers of bytes and of waiting tasks | notifier message, Getc | bytes are handed out once and in order; nobody waits while bytes are there |
| ring buffer, heap (`lib/`) | arrays and indices | put, get, enqueue, dequeue | wrap-around, full and empty boundaries |

### Train control (`usr/train`, `usr/command_dispatcher.c`)

| component | state | operations | hard behaviour, and what makes it right |
|---|---|---|---|
| reservation server | owner of each track edge | make, drop, drop all, list | an edge and its reverse have one owner; only the views ask it, no conductor makes a reservation |
| track state controller | speeds, turnouts, sensor bits, measured models | updates and queries by message | its record follows the commands that were really sent; it answers most updates before it tells the coordinates server |
| train commands, switcher, reverser, resetters | time of the last switch of each turnout | speed, reverse, turnout | each is several calls to two servers with delays between; several such tasks work at one turnout |
| sensor secretary, sensor interpreter | sensors that were closed, last sensor of each train | poll, attribute a hit to a train | the right train is given a hit although contacts fail and trains turn |
| coordinates server | estimated coordinates of the trains, a copy of the turnouts | updates, queries | the estimate runs on without hits and has to be given up in time |
| command dispatcher | queue of requests per conductor, readiness | user commands, conductor ready | fixed-size queues; requests reach an idle conductor exactly once, in order |
| conductor, multi-train conductor | location and goal of a train | drive, stop, notifications of sensors and timeouts | time-outs race sensor hits; groups move together |
| couriers | pending notification requests | deliver coordinates, time-outs, reservations | a courier is the only path between two servers that must not block each other |
| router | search frontier | shortest path on the track graph | terminates, path is connected and shortest |
| track graph, prediction | two layouts, turnout states | walks along the track, places to stop and to switch | broken turnouts, edges of length zero, looking two nodes ahead |
| calibration, views, command line | measured constants, screen | arithmetic, parsing, output | outside the models |

## 2. Modules and how they correspond to the code

A definition marked "slip" is the definition after it with a plausible mistake in
it. No action uses it; the mutants of `PROJECT.json` put it in place.

### Kernel: `IntrusiveQueue`, `Kernel`, `KernelProperties`

`IntrusiveQueue` is `queue.h` at pointer level: a family of rings is a record of
three functions, `head`, `next` and `prev`. The ready queues (`rq`, linked through
`prev`/`next` of the descriptors) and the send queues (`sq`, through
`prevmsg`/`nextmsg`) are two such families. `Represents(q, i, s)` says that ring `i`
is the sequence `s`, in both directions.

| variable of `Kernel` | in the code |
|---|---|
| `mode`, `current`, `call`, `clearing` | the place in `kmain`'s loop, `current_task`, the trap's registers, the argument of `clear_send_queue` |
| `state`, `generation`, `priority`, `blockedOn`, `r0` | fields of `task_descriptor`, and r0 in the trap frame |
| `nextGeneration`, `available` | `the_next_generation`, `available_tids` |
| `rq`, `nonempty`, `sq` | ready queues, `nonempty_hi` with `nonempty_lo`, send queues |
| `registered`, `everRegistered`, `eventBlocked` | `registered_tasks`, `has_event_been_registered`, `tasks_event_blocked` |
| `irqEnabled`, `cts`, `txfe` | UART and timer interrupt enables, `uart0_cts_asserted`, `uart0_txfe_asserted` |

One action is one trap handled to its end (`SyscallSend`, `SyscallKill`,
`HardwareInterrupt`, ...), then `Return` is the tail of `schedule()` and `Schedule`
the dispatch. `clear_send_queue` is a loop with an action per sender. A `kassert` that
fails ends in mode `panic`; going through the NULL trap frame of a dead task ends in
`fault`. What tasks do is left open, and bounded by `Workload` (which calls),
`KillStates` (in which states a victim may be), `NeverBlocks` (the idle task),
`AwaitedEvents` and `TimerIsTimely` (a notifier is back before the next tick: the code
panics otherwise, and a tick is 10 ms).

Abstracted: message contents (only whether a message fits its buffer, and the sign of
r0, matter), stack regions, parent tid, usage statistics, caches. The model follows
the TS-7200 branches of the code, not `VERSATILEPB`, and the build in which
assertions stop the program.

`Rendezvous` and `PriorityScheduler` state what messaging and dispatching promise,
with sequences for queues and no pointers, bitmap or modes; `KernelRefinement` has the
refinement mappings. The proofs are in `QueueTheorems` and, on top of it, `KernelProofs`.

### `PriorityQueue`

The heap of `lib/priority_queue.h` as pure operators on sequences, with the loops of
`SINK`, `ENQUEUE` and `HEAPIFY` as recursive functions: the turn of the loop that has
been taken `k` times. The clock server and the router instantiate it.

### `ClockServer`, `DelayService`

`ticks`, `queue`, `inbox`, `serverAt` are the server's; `notifier` is where
`clock_notifier` is; `state`, `generation`, `result` are the clients as the kernel
sees them. `Reply` goes by the slot alone, as in `task.c:218`: that is what the
violation run is about. `now` and `due` are history. The wake loop has an action per
waiter, because clients can be killed and send while it runs. `DelayService` is the
promise of `Delay` and `DelayUntil`. `ClockProofs` proves the count, the heap, the Asserts
and the refinement.

### `RingBuffer`, `TransmitServer`, `ReceiveServer`

`RingBuffer` is `lib/buffer.h` with its unsigned element count. `TransmitServer` is
`generic_tx_server` on the train and on the terminal channel and `fifo_tx_server`,
one of which is chosen in `Init`, down to the UART, its interrupts and the CTS line of
the train controller. `ReceiveServer` is `generic_rx_server` and `fifo_rx_server`. Each
message that is handled is one action. All interleavings of hardware, notifier, server
and clients are allowed, more than the priorities let happen, with one exception
named in `Init` of `ReceiveServer`. Left out: receiver overrun and UART errors.
`RingTheorems` has the lemmas about the ring, `TransmitProofs` and `ReceiveProofs` the
proofs about the servers.

### `Dispatcher`, `CommandQueues`

| variable | in the code |
|---|---|
| `ui`, `inbox` | the first user task in `Send`, the dispatcher's send queue |
| `doing` | the handler the dispatcher is in when it has to wait for a receiver |
| `conductors` | `conductor_data` of each train: `tid` (whether there is one), `rdy`, `auto_mode`, the ring of messages, `t2_tid`, `destination` |
| `stage`, `task` | where `train_conductor` is, and the command it was given |
| `demo` | where `t2_demo_task` is |
| `groups` | `tr_groups`, and whether the group's conductor receives |
| `replaced` | tasks: conductors of a train that lost their place in `conductors` to a new one while they were at work or about to report |
| `mixed` | history: the trains that were named in a `GROUP` or got a conductor by `SET` while they were in a group |
| `careful` | what kind of user this is |

A handler that does not send is one action. One that sends to a conductor is two
(`HandleCommand` or `HandleReady`, then `ConductorTakes`), because the dispatcher waits
until the conductor receives, and other tasks run meanwhile. `GROUP` is an action per
member. A careful user groups, starts and stops demo tasks only for trains that have
nothing on the way and are in no group, and does not `SET` a train that is in one; the
other one does so at any time. The code checks neither, and the manual only says that
"single train commands for grouped trains are not supported" and that `ungroup` goes "back
to individual train control" (`reports/project.pdf`, p. 2). So a train can come into two
groups, have a conductor beside its group's, or, after `UNGROUP`, two conductors, of which
the record knows the newer: the older carries out its command to the end, and its `READY`,
which names the train, counts for the newer (`CreateConductors`, `ReplacedReports`). What
is promised of single trains (`ReadyExact`, `OneDriver`, `CommandQueues`) is promised of
those that are not `mixed`. A demo task whose tid went with such a record is answered at
once and calls again and again; there the model stops (`ReceivesFromForgotten`).
`GET_DESTINATION`, `GO`, `STOP`, `SW`, `V` and the other `SET` commands leave the
modelled state alone. `CommandQueues` is the promise: per train, commands are carried
out one at a time, in order, none twice. The proofs are in `DispatcherProofs`.

### `TrackNodes`, `TrackA`, `TrackB`, `Track`, `Prediction`

`TrackA` and `TrackB` are the two layouts of `lib/track/tracks.c`, node by node, with
constructors from `TrackNodes`; a node is its number in the C array. `Track` is what
`track_data.c` and `train_util.c` compute on them: the next node with turnouts as they
lie, distances, rebasing and comparing locations, whether a sensor may follow another,
the turnouts that lie wrong for a route. Three turnouts of layout B are broken and
always lead the same way (`set_turnout_permanently`). `Prediction` is where on its route
a train has to be told to stop or to switch a turnout. Distances are integers in the
units of the code. These modules have recursive operators and no state.

`BestRoutes` is what the router answers, for modules that drive trains: of several
shortest routes it takes one. That the search gives a shortest one is `RouteBest`.

### `Router`

`queue` is the heap of `search_node`s, `found` the array of those taken from it, `route`
the answer. A search starts at `start`; each `DequeueNode` is an iteration of the loop,
and `ReplyRoute` the answer for one goal: the shorter of the routes to the two sides of
it. Every start and every goal of a layout is tried; all goals share the search from
one start, which does not depend on the goal.

### `Sensors`

Trains move in this module: `position` is the sensor a train passed last and whether it
has turned since, `contacts` the hits not yet reported. A contact may fail, but not two
in a row under one train. The secretary's report, `current`, `last`, `counted` and
`passed` are the code's; `place` is the sensor of the coordinates server's estimate, which
runs on at any pace, along any branch. `behind`, `turns` and `assumed` are history. Where
time decides, whether a train is lost (`train_is_lost`), any train may be at any report:
it may move or not, and the time since its last hit, which is 0 for a train that was never
hit, is not kept. Left out: the velocity that is measured between two hits.

### `Commands`

A task (a conductor, a switcher, a resetter) is the list of calls it has still to make;
the C functions of `commands.c` are operators that return such lists, and every call is
an action. `actual` is how turnouts and trains really are, `record` is the track state
controller's, `copy` the coordinates server's, `forward` what the first still has to tell
the second. `careful` says whether orders that the code does not keep apart are avoided:
a switcher for one half of a crossing while somebody is at the other, `switch_turnout`
called directly while somebody is at the turnout, reversing a train that was told to stop
a moment ago (the wait is computed from the speed it should have, which is zero). Orders
come after the two resetters are done. Time passes when every task sleeps.
`CommandsProofs` proves its three properties.

### `TrainModels`, `Motion`, `Driving`

`TrainModels` has the measured speeds and stopping distances of `init_track`, `Motion` the
arithmetic of the coordinates server and of `train_util.c` on them, with C's division.
`Driving` is one `R` command from `conductor_route_to` to its end.

| variable | in the code |
|---|---|
| `estimate`, `passed` | `coords`, `last_sensor` and `sensors_passed` of the coordinates server |
| `turnouts`, `debounce` | the turnouts as commanded and recorded, ticks until a switcher may switch one again |
| `conductor` | the place in `route_to_within_stopping_distance` and `conductor_route_to`, the ticks it sleeps, whether it drops old places and knows the train is lost |
| `goal`, `route` | its arguments and its route |
| `courier` | `last`, `first_run`, `should_find_any` and the ten slots of `locations_to_observe` |
| `refresh` | ticks until `train_model_courier` has the speed applied again |
| `contacts` | wrong reports so far, and a late one under way |

The train is what the contacts say of it: each sensor is reported when the estimate gets
there, or earlier, or later, or never. `Advance` moves time to the next thing that happens.
Calls take no time, except that the conductor looks at the estimate `lag` ticks after its
courier did. Command and record agree here: that is what `Commands` is about. A step that
reads what is not there (a NULL node, an array that get_route did not fill) ends in
`undefined`.

## 3. Runs

Deadlock is checked in `kernel_events`, `routing` and `driving`. The other configurations turn it
off because the system may stop: `kmain` returns when every task is blocked for good, a
failed assertion ends the program, and the models of servers and trains end when the
bound on ticks, bytes or turns is reached, or the train leaves the area it is kept in.

| run | question | bounds, and why they suffice |
|---|---|---|
| `kernel_events` | Do send queues, event table, counter, interrupt enables and ready queues agree with the states, under kills; is messaging an atomic rendezvous, dispatching first come first served and nobody starved? | 3 tasks besides slot 0, 2 priorities: two senders on one receiver, a receiver that exits with senders waiting, chains of sends; train transmit and an invalid event; kills of ready tasks (see section 4); task 1 is the idle task |
| `kernel_hostile` | Do types, bitmap, slots and tids survive every call in every state? | 2 tasks, each slot used twice, every call, stale and invalid tids, kills in every state, train transmit, timer and an invalid event |
| `clock` | Are ticks counted once, sleepers woken in time and in order, and do the assertions hold? | 2 clients, 4 ticks, delays of 0 to 2, kills of sleepers; no slot is used twice |
| `clock_wrong_task` | violation, see findings | as above with a slot used twice |
| `transmit` | Do bytes leave once and in order when the other side is ready? | 6 bytes through a buffer of 3, so indices wrap twice and it overflows; messages of 0 to 3 bytes, 2 callers, FIFO of 2, one escape sequence |
| `receive` | Does each byte answer one Getc, first come first served? | 4 bytes, buffer of 2, 3 readers; the FIFO server has one reader at a time, as in `project.c` |
| `routing` | Is every answer a shortest route, are the places to stop and switch right? | none: both layouts, every sensor and every end as start, every node as goal |
| `sensing` | When does a train get the hit of another one, is every hit found that can be, is an estimate given up in time? | layout B; one train anywhere, or two that stay three sensors apart on a piece of track with branches, each of them lost for the time or not at every report; one silent contact in a row (none for one of the two), one turn between two attributed hits |
| `commands` | Do both servers have turnouts and trains as they are when the orders are done; is a crossing never left curved both ways, a train at rest when it is turned? | one train, two switchers, one turnout and one crossing, 3 orders after the resetters, 60 ticks of orders against a debounce of 50 |
| `driving` | Does every turnout lie right when a train comes to it, is the place to stop watched all the way and told in time, does a command end? | train 24 on layout B, six trips: standing or at speed 11, near the goal or far from it, past it, towards the end of a track, not located; up to 4 wrong reports (more than the 3 after which a train is given up), 8 cm early or late; the conductor 0 or 1 tick behind its courier |
| `dispatch` | Do commands reach conductors in order and only when they receive, has every train one driver, is everybody answered? | 2 trains of which one is driven, ring of 2, two groups, with or without common trains; both kinds of user; no more commands than the ring holds; a train has one conductor at most that was replaced |
| `dispatch_group` | violation, see findings | |

Bounds named in the modules: `MaxGeneration` (1000 in the kernel), `MaxTicks`, `MaxBytes`,
`MaxPrint`, `MaxCallers`, `MaxGets`, `FifoReaders`, `MaxExcess`, `Driven`, `Entered`,
`MaxReplaced`, `Sparing`, `Area`, `MaxSilent`, `MaxTurns`, `MaxOrders`, `MaxTime`, and of
`Driving` the trips with their number of wrong reports, `Lags`, `Phases`, `Earlies`, `Lates`
and `Finds`. With `MaxExcess` above 0 the dispatcher's ring is overrun, which the code
reports and does, and `CommandsImplemented` fails. In `dispatch` the user enters `TR` and
one command that drives (`Entered`; `R` comes from the demo task). Once he has mixed trains
up he does less (`Sparing`): one message at a time, but for `UNGROUP`, and of commands only
`TR`, to a train that is mixed up only when it is ready; he mixes trains up only while no
demo task runs, and when both are he is done. The theorems do without these bounds. With
`FifoReaders` above 1 `EveryByteOnce` fails (`ioserver.c:216`). `Separation` is a
precondition of `RightTrain`: with trains two sensors apart, both silent at times and free
to turn on a larger piece of track, it fails. With three none was found among 21 million
states there (that search did not end); a train that was silent at a sensor and passed
another does get hits of others there, though its record is right, which `RightTrain`
allows.

### Fairness

* `kernel_events`: `WF(Next)`, the processor goes on. Nothing is assumed of tasks or
  devices.
* `clock`, `transmit`, `receive`: the hardware goes on, an enabled interrupt is
  handled, notifier and server run when they can. `project.c:493-508` and
  `ioserver.c:280-285` give them priorities above their clients. Clients may stop.
* `dispatch`: the dispatcher runs when it can, every command a conductor carries out
  and everything the conductor of a group does comes to an end. A train that never
  arrives is outside this run.
* `driving`: time and the tasks go on until the command has ended (`GoesOn`), and a lost
  train that runs at its speed comes over a contact in the end: the tracks are loops, and
  the conductor makes a lost train run (`train_conductor.c:310`).

## 4. Findings

* `clock_wrong_task`: "task ids are unique" (`clock.c:29`), but `Reply` looks at the slot,
  and the record of a killed sleeper lets go the task that has the slot now.
* `dispatch_group`: `sunset_tid` of a conductor with a command in progress never comes
  back: the conductor sends `READY` to the dispatcher, which is in `Send` to it; or,
  while routing, the conductor's assertion on the sender fails before its own case
  for `MESSAGE_SUNSET`.

Met while modelling and kept as hazards in `PROJECT.json`:

* `syscall_kill` calls `deregister_task` for a blocked victim too. It is on no ready
  queue, but `REMOVE` empties a queue of one element without comparing, so another ready
  task of that priority is lost. `kernel_events` keeps to kills of ready tasks.
* A task killed in `Send` stays on the send queue; `Kill` of a dead tid follows a NULL
  trap frame.
* The FIFO receive server answers more readers than it has bytes; a full command ring is
  overwritten; `READY` forgets the destination of a route just started.
* A train that is a little past its goal turns, and has a negative way left, of which the
  absolute value is taken: it sets off although `train_util.h:200-204` wants some path left,
  and the search for turnouts reads behind the end of its route of one node.
* A train that is lost between a notification and the conductor's own look at the estimate
  makes the conductor follow a NULL node.
* Turnouts that are due come before the place to stop, and are asked for again: a stop is
  told up to a switching distance late.
* The speed is applied again while a train brakes (every 200 ticks), with a deceleration for
  the lower velocity: the estimate rolls on longer than the train.
* After sensors D14 and E1 `sensor_may_be_seen_next` does not see that a train that turns
  at once comes back over the sensor it left, although `track_data.h:132` says the train
  might reverse (`Unseen` in `Sensors`); elsewhere turning leads to the same sensor.
* A train that was never hit, sets off after a long stop or goes slowly between two contacts
  is lost at once (`sensor_interpreter.c:35-37`, `45`), and gets a hit that nobody else is
  expected to make, also when its own record is right. `RightTrain` says when this can be:
  the train that made the hit was not hit before, its record is wrong already, or it is one
  of the cases of `Unseen`. The record of the train that got it is then wrong too. A train
  that passed two sensors since its last hit may get the hit of another without being lost:
  the third pass looks that far.
* A user who groups a grouped train, or sets one, gives it two drivers; nothing checks it.
  `OneDriver` says that nothing else does, and that other trains keep theirs.
* A broken turnout of layout B is switched whenever it is known either way, as both of its
  edges lead to the next node (`WrongTurnouts`, `train_util.c:130`, `165`, `201`).
* On a route of one node `predict_next_switch` reads behind the mark of the end
  (`prediction.c:101`): `PlacesRight` says nothing of the place to switch there.
* When two trains hit sensors between two reports only one hit gets all four passes, and
  only one is told to the coordinates server.
* A train that was told to stop and is told to reverse while it rolls is turned at once;
  two tasks that set one turnout without a switcher, or a switcher for each half of a
  crossing, leave a record that is not the truth.

## 5. Proofs

Everything here holds for every number of tasks, priorities, generations, clients,
trains, switchers and turnouts, and for every length of the rings and of what is sent. The assumptions are the `ASSUME`s of the
modules (at least two slots, `NULL` is no slot, a ring has room for one command, ...)
and, where it says so, hypotheses of the theorem: they exclude calls that the code does
not survive, which sections 3 and 4 name too. None is proved from a hypothesis that no
run satisfies: the settings of `kernel_events`, `clock`, `receive` and `dispatch` meet them.

### Queues

`QueueTheorems` relates the pointer operations of `queue.h` to sequences: if ring `i`
represents `s`, then after `ENQUEUE` of a task that is not on it it represents
`Append(s, t)`, after `DEQUEUE` `Tail(s)`, after `REMOVE` of an element the sequence
without it (`EnqueueAppends`, `DequeueTakesFirst`, `RemoveTakesOne`). It
adds that rings with shared links do not disturb one another as long as no task is on
two of them (`EnqueueInFamily`, `DequeueInFamily`, `RemoveInFamily`), and that the walk
along `next` that the properties use reads the sequence back (`ContentsAre`).

### Kernel

| theorem | statement | hypotheses |
|---|---|---|
| `TypeCorrect`, `BitmapCorrect`, `SlotsCorrect` | `TypeOK`; the bitmap has exactly the non-empty ready queues; a slot is free exactly when its task is dead and generations are left | none |
| `TidsUnique` | a tid that was handed out and is dead never lives again (action property) | none |
| `EventsCorrect`, `SendQueuesCorrect` | the event table, its counter and the states agree; the tasks in `Send` are each on one send queue, that of a living task | nobody is killed in `Send` |
| `ReadyQueuesCorrect` | the ready queues hold the ready tasks, each once, on the queue of its priority | kills of ready tasks only; no `Pass` |
| `NeverPanics` | no `kassert` fails and no NULL trap frame is followed | moreover the first task is an idle task, and the timer's notifier is back in time |
| `RendezvousImplemented` | the kernel implements `Rendezvous` | nobody is killed inside a message |
| `DispatchingCorrect` | the kernel implements `PriorityScheduler` | as `NeverPanics` |

Why the hypotheses: `syscall_kill` does not take its victim off a send queue, so a
task killed in `Send` stays there, dead; it takes a victim that is not ready off a ready
queue it is not on; `Pass` puts its caller on a ready queue and `schedule()` does so again; `schedule()` asserts that somebody is ready while nobody waits for an
event; and an interrupt nobody waits for is a failed assertion.

The inductive invariants are layers, each proved with the ones below at hand:

* `KernelInv` (`KernelProperties`): the three unconditional invariants, with `ControlOK`
  (in user mode the current task is active, so `Exit` retires a living task and the
  slot it frees was not free) and `SlotZeroUnused`.
* `MessagesInv`: *some* sequences represent all send queues at once, and hold exactly the
  tasks in `Send`; a dead task has senders only while `clear_send_queue` loops; a
  registered task waits for that event, and no other does. Without the first the heads and
  links of a ring say nothing after a step.
* `ReadyInv`: the same for the ready queues, with who is on the processor (`CpuOK`): from
  the trap to the end of `schedule()` the current task is on no queue.
* `SafeInv`: nothing has failed, the idle task is ready, and an interrupt is enabled
  only while its task waits. The last clause is what keeps the handlers' assertions from
  failing: `txfe` and the enabled transmit interrupt exclude each other.

One lemma per action shows that it keeps a layer. The refinements take one lemma per
action too: it maps to one named action of the abstract specification or leaves its
variables alone. `Rendezvous` needs `ClearedIsDead`, so that each turn of
`clear_send_queue` is a refused sender of a dead task; `PriorityScheduler` needs
`HighestReady`, the bit search, to find the queue of the highest priority that has
a task, which is `BitmapExact` together with `ReadyQueuesExact`.

### Servers

* `ClockProofs`: `TicksCounted`, `ticks` is the number of timer interrupts but for those
  whose report is on its way, whoever is killed. The invariant `CountInv` says
  that there is at most one report, and none while the notifier waits.
  `EnqueueAdds` and `DequeueTakesLeast` are about the heap, for every length: the element
  added is in it with the others, the one taken off is a smallest, and it stays in order.
  The argument goes over the turns of the loops: an element that goes down or up is the
  only one out of order, and as its level changes with each turn the `Levels` of the heap
  are enough turns. On top of it `NoAssertFailsAlways` and `DelaysImplemented` (the
  refinement of `DelayService`), with the invariant `ServerInv`: the heap holds one record
  of every client that waits, with the time it waits for; the task of any other record is
  dead for good; a client with a message on its way waits for nothing else; and when the
  server receives nobody in the heap is overdue. They have three hypotheses, and `Clock`
  satisfies each. `NoStaleRecord`: no slot is used again while the heap has a record of
  the task killed in it. Without it the violation run `ClockWrongTask` shows a
  record that finds another task, which may be one that waits for no reply.
  `QueueFits`: the queue has room for every slot, as
  `CLOCK_WAIT_QUEUE_SIZE` and `MAX_TASKS` are both 64. `NoWrap`: no delay ends beyond the
  greatest `int32_t`.
* `DispatcherProofs`, for both kinds of user and, but for the refinement, without
  hypotheses: `OneDriverAlways` (a train is driven by its own conductor or by one group),
  `ReadyAlways` (the record of who is ready is true) and `NothingFailsAlways` (with a
  careful user no assertion fails and no message of a killed demo task is received). The
  first two are about the trains outside `mixed`, for users who mix others up at any time,
  and a careful user mixes none up (`NoneMixed`). The invariants are `Drivers` (groups have
  no common trains outside `mixed`, while one is being made or taken apart too, and no such
  train has a conductor that was replaced), `Stages` (the conductor of such a train has one
  report on its way exactly while it reports, and no other reports for it; the dispatcher
  waits only for one that receives and has a command to get) and `Care`: what was calm when
  a careful user asked is calm when the dispatcher gets to it. `Care` needs the order of the
  mailbox: the message of a demo task comes before the report of its conductor, and nothing
  else is on the way for a train with a demo task that is being stopped.
* `CommandsCorrect`, in the same module: the dispatcher implements `CommandQueues`, for
  rings of any length. Its hypothesis is `MaxExcess = 0`, the bound of the run too: the user
  enters a command only if the ring has room for it and for all that is on the way for the
  train, which nothing in the code enforces. Without it the theorem is false, as the code
  overwrites. The ring is then never overrun, which needs the invariant `Lines`: what is in
  the ring, what the user has on the way and the message of the demo task fit together
  (`Load`), and behind the report of a conductor a command is on the way only if the ring
  has room for two (`ReportFits`), for the report lets the demo task go; a demo task has one
  message (`OneDemoMail`); the ring's indices and what is between them (`RingTrue`), about
  which `StoreAppends` and `StartTakesFirst` say that `Store` appends and `Start` takes the
  head, for any `% QueueLen`. `StartsApart` keeps the demo task of a train that comes out of
  its group from being forgotten by the new record. A train that becomes mixed up stands in
  a group and has nothing queued (`GroupedIdle`), so that the promise can leave it idle from
  then on (`MixedKept`).

### Rings and IO servers

`RingTheorems` relates the indices of `lib/buffer.h` to sequences, as `QueueTheorems` does
the pointers: `PUT` in a loop appends (`PutAllAppends`), `REMOVE` in a loop takes the
oldest off (`RemoveSomeTakes`), for any size and wherever in the array the contents lie.
The servers' proofs use nothing else of the ring.

* `TransmitProofs`, for all three servers: `BytesInOrderAlways`, `ControllerReadyAlways`,
  and `NeverOverrun`, which matters for `fifo_tx_server`, as it gives the UART its first
  byte without asking. `BytesInOrder` is about the ring and the UART; to survive the next
  message it needs `BytesInv`: the strings still in the mailbox continue the ring's bytes
  one after the other, which is said with the number of the last byte of each. What the
  train's UART may hold follows from `LineInv`, which relates the byte in the UART, the
  controller's answer, the two flags of `iio.c` and where the notifier is; and that the
  server does not put twice for one interrupt from `TokenInv`: the notifier has one
  message, in the mailbox or turned into `can_put`.
* `ReceiveProofs`: `EveryByteOnceAlways`; `OnlyFullFails`, no assertion fails but that of a
  full `rx_buf`; `WaitersFit`, `wait_buf` never overflows, though nothing looks; and
  `FirstComeFirstServedAlways`. Their hypothesis `OneFifoReader` is that `fifo_rx_server`
  has one reader at a time, as in `project.c:555`; with two the first is false (section 3).
  The invariant says that a reader in `Getc` is in the mailbox or in `wait_buf`, once and
  not in both (`QueueInv`), and that behind the report of an interrupt there is a byte but
  for the one with which the notifier of the FIFO server begins (`LineInv`). That one finds
  nobody waiting because it is handled before any reader calls, which is what `Init` of
  `ReceiveServer` takes from the priorities.

### Commands

`CommandsProofs`, without hypotheses: `PairsApartAlways`, `RecordTrueAlways` and
`ReversedAtRestAlways` (the last two say themselves that orders are `careful`), for any
trains, switchers, turnouts and speeds. Several calls of a task must have been made
before one of the three can be wrong, and tasks are interleaved at every call, so the
invariant is about the calls that are still to come:

* `ListsInv`: the shape of every list. A command is followed by its record (`Linked`), a
  half of a crossing that goes curved by the other one going straight (`Crossed`), a
  reversal comes after a stop and a wait (`Braked`). The C functions give such lists, the
  recursive functions of the two resetters too, and every call leaves one.
* `CrossingInv`: while two halves are both curved somebody has still to set one straight.
  It needs no care: whoever set the second of them is going to set the other.
* `TrainInv`, `TurnoutInv` and `CopyInv`: where a record differs from the truth the very
  next call of a task makes it right, or for a turnout the resetter has not come by, and
  the copy differs from the record only by what `forward` says. For the direction, which
  is read, negated and written back, `TrainInv` is an equivalence. For the turnouts it
  takes `AloneInv`: of several switchers at one turnout only one has got past the test of
  the last switch time, because that time is now (`TestInv`) and time stands still until
  all of them sleep.
* `BrakeInv`: the time until the train is at rest is covered by what is left to wait, before
  the `Delay`, in it and after it, as the speed that was read is the real one.

### Only model-checked

* `Heapify`, and all of the router: a recursive function over sequences of any length, and
  induction over data is out of the prover's reach. (The loops of the heap
  of the clock server are recursive functions over numbers, which is within it.)
* `Track`, `Prediction`, `Router`, `Sensors`, `Motion`, `Driving`, with `DistancesLeast`,
  `RouteBest`, `PlacesRight`, `GivenUpInTime`, `StopWatched` and the others: they have
  recursive operators, and two given layouts rather than parameters; TLC enumerates
  both layouts completely where that matters.
* Liveness under fairness: `RoundRobin`, `Answered`, `AllSent`, `Delivered`,
  `UserAnswered`, `DemoGoesOn`, `CommandEnds`.

## 6. Not modelled

* Context switch, exception entry, boot and drivers move registers and format output.
* Calibration programs, views, command line parsing, course assignments: sequential, with
  no shared state of their own.
* The name server and the order in which the first user task creates its servers.
* The reservation server: no conductor makes reservations in this version.
* The collision check of the couriers and multi-train speed control: 64-bit and floating-point
  kinematics of several trains, beyond TLC's integers. Predicted times of sensor hits.
* `conductor_loop` and the calibration commands: scripts of calls that `Driving` has.

## 7. Plan

Done: kernel with its abstract specifications, heap and clock server, IO servers,
dispatcher; track, prediction, router; sensor attribution; commands; driving; the theorems
of section 5. What is left, in this order:

1. `NameServer` with the order in which the first user task creates its servers: who
   waits for whom, and whether every `WhoIs` finds its name.
2. `Reservation`; theorem: ownership is symmetric, for every track.

No invariant of a run is left that a theorem could state and none does: the others are those
that section 5 leaves to TLC.
