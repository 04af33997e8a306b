# Verification of the UHK firmware

TLA+ models of the firmware of the Ultimate Hacking Keyboard (UHK 60 and UHK 80),
checked by TLC and, in part, proved by TLAPS. Paths below are relative to the
repository; `core.c` alone is `right/src/macros/core.c`, and a file with a unique name is
given by its name.

    tlc -config MacroScheduler_health.cfg MCMacroScheduler.tla     # a run
    tlapm MacroScheduler_proofs.tla                                 # the proofs

`PROJECT.json` lists every run, the source lines behind every definition, the
hazards of the code with the properties that watch them, and for each property a
plausible bug (an operator named `X_Something`, "Mutant") that the property catches.

## 1. Inventory

The right half runs the program. Its main loop debounces keys, replays the keys it
held back, runs macros, sends reports to USB, and sleeps until the next thing to do.
Around it interrupts (UHK 60) or threads and interrupts (UHK 80) scan switches,
receive messages of the other half, of the dongle and of modules, and store the
configuration. Nearly everything is communicated through global variables and two
shared structures: the **event vector** (`EventScheduler_Vector`, a word of bits "there
is something to do") and the **event scheduler** (one time per event).

| Component | State | Operations | Interacts with | Hard because | Correct if |
|---|---|---|---|---|---|
| Macro engine (`macros/core.c`, `macro_events.c`) | pool of macro slots, circular run queue threaded through them, sleep registrations | start, queue, call, fork, sleep, wake, end, stop all; one engine cycle per loop | keys and timers wake it, event macros are started by keymap, layer and lock changes; it postpones keys | slots are reused while others refer to them; the queue is relinked while it is walked | the queue is one circle of the awake macros; no sleeper is forgotten; every macro gets turns |
| Macro language (`macros/commands.c` ...) | per block a scope of flags; variables, status buffer | execute one command, jump, push and pop scopes | everything it sets | there is no parse tree: a block is repeated or skipped by flags that a command leaves to the next run of itself | commands run in the order of the blocks, loops and conditions; scopes are those of the blocks |
| Key pipeline (`usb_report_updater.c`, `postponer.c`, `secondary_role_driver.c`) | per key: hardware bit, debounced, current, previous; queue of postponed events; role of a dual-role key; reports | debounce, queue, replay, decide, activate, report | scanners, macros (postponing), pointer, USB | an event may bypass, enter or leave the queue in the same cycle in which others do; the loop sleeps in between; roles are decided late, about the past | no event lost or reordered; no key stuck; modifiers before scancodes; roles follow the times of the keys |
| Event scheduler and main loop (`event_scheduler.c`, `device/src/main.c`, `user_logic.c`) | table of times, cached next event, semaphore, event vector | Schedule, Reschedule, Unschedule, Process; sleep | called from everywhere, also from interrupts, without locks | cached next event; check-then-sleep | it never sleeps past an event or on work |
| Message queue (`messenger_queue.c`, `messenger.c`) | two segment pools, lock-free list | allocate, put, take, free | UART interrupt, Bluetooth receive thread, main loop | producers preempt each other and the consumer | no message or memory lost, nothing received twice |
| State synchronisation (`state_sync.c`, `device_state.c`) | a dirty state per property, connection per device | mark, send, receive, reset link; two threads | main loop and messages mark, threads send and sleep | check-then-sleep; links that break in the middle of a transfer | the two sides agree once they are quiet |
| Links (`uart.c`, `nus_client.c`, `nus_server.c`) | open media, transmit semaphores, ping time | send, receive, time out, reconnect | messenger, state sync | disconnect during a transmission | nobody waits for a semaphore forever; a packet arrives whole or not at all |
| Modules and slaves (`slave_scheduler.c`, `slave_drivers/`, `keyboard/i2c.c`) | current slave, handshake phase and identity per module, its connection | next transfer, handshake, poll, disconnect, time out | I2C thread, event scheduler, state sync | disconnect at any phase, garbled answers | nothing learnt of one module is used for another; no key of a gone module stays pressed; its absence is reported |
| Layers and keymaps (`layer_switcher.c`, `layer_stack.c`, `keymap.c`) | layer stack (a ring), held layers, active layer | push, pop, remove, hold, switch, recompute | key pipeline, macros | records are removed lazily and in any order; the active layer is cached | the active layer is one that something asks for |
| Bluetooth connections (`bt_conn.c`, `bt_pair.c`, `bt_manager.c`) | peers, pairing | connect, pair, restart | external stack | callbacks in any order | one peer per role |
| Storage (`flash.c`, `eeprom.c`) | one transfer in progress | launch, continue, finish | USB commands | failed transfers, a mutex shared by threads | busy ends; callbacks once |
| Configuration, macro recorder, mouse keys, USB adapters, lights, power, shell, helpers | - | sequential or output only | - | - | - |

## 2. Plan

Modelled, checked and in part proved, in this order: macro engine (`MacroSlots`,
`MacroScheduler`); key pipeline (`KeyPipeline`); event scheduler and main loop (`EventScheduler`,
`EventLoop` implements `Alarms`); message queue (`MessengerQueue` implements `Mailbox`);
state synchronisation above its links (`StateSync`, `Links`); modules (`ModuleDriver`); the control
flow of macros (`MacroControl` implements `MacroBlocks`); layers (`Layers` implements
`LayerOrder`); the decisions of dual-role keys in time (`DualRoles`).

What is left, most useful first:

1. Theorems about `DualRoles`.
2. The link to the dongle in `StateSync`, and the UART framing below `Links`.
3. A postponer ring that implements the sequence used in `KeyPipeline`; the preemptive
   macro scheduler; chording in `DualRoles`.
4. `Storage`: one transfer at a time with failures.

## 3. The models

    MacroSlots <- MacroScheduler <- MCMacroScheduler      MacroTexts <- MacroBlocks
               <- MacroScheduler_proofs                              <- MacroControl => MacroBlocks
    KeyPipeline <- KeyPipeline_proofs <- KeyRoles_proofs   Layers => LayerOrder,  <- MCLayers, <- Layers_proofs
    DualRoles <- MCDualRoles                               Links <- StateSync <- MCStateSync, <- StateSync_proofs
    EventScheduler <- EventLoop => Alarms, <- EventLoop_proofs
    MessengerQueue => Mailbox, <- MessengerQueue_proofs    ModuleDriver <- MCModuleDriver,
                                                                        <- ModuleDriver_proofs

(`A <- B`: B extends A. `A => B`: A is checked to implement B.)

### Macro engine: `MacroSlots`, `MacroScheduler`, `MCMacroScheduler`

`MacroSlots` holds the pool as one record (`MacroState[]` and `Macros_SchedulerState`):
sets of slots that are playing, sleeping, scheduled, asking to be woken, and the
functions `nextSlot`, `parent`. Each function of `core.c` that changes it is an operator
of the same name (`scheduleSlot`, `unscheduleCurrentSlot`, `getNextScheduledSlot`,
`initMacro`, `endMacro`, `callMacro`, `queueMacro`, `stopAllMacros`). `awaits` is a history
variable: for whom a caller waits.

`MacroScheduler` is the engine around it. A cycle (`Macros_ContinueMacro`) is split into
the wake-ups (`WakeOnKey`, `WakeOnTime`), one step per executed command, and `EndCycle`, which
recomputes the bits. Between cycles (`pc = "idle"`) come key changes, the timer, keymap
changes (one or two event macros) and new macros. The blocking scheduler is the default
(`config_manager.c:225`).

Abstractions: what a macro does next is arbitrary, within the set `Commands`; whether
`initMacro` finds the action empty or no scope is an `Answers` value; `broken` is kept only
where the engine reads it; a one-shot is a block or a yield; two event macros per handler
at most; key states do not change inside a cycle.

### Macro language: `MacroTexts`, `MacroControl`, `MacroBlocks`

`MacroTexts` is the text: a macro is a sequence of commands, a command a sequence of words,
modifiers first. `MacroControl` is the interpreter of that text: `processCommand` with `if`,
`else`, `while`, `break`, `exit`, `goTo`, `repeatFor`, `{` and `}`, the scopes with their flags, and
the loading of commands (`loadNextCommand`, `jumpToMatchingBrace`). A command returns the
set of its possible results, since conditions and counters are read from a world that
changes; `act` stands for every command that does not touch the control flow, and may take
several turns. `MacroBlocks` has no scopes and no flags: it says from the text alone which
command may follow which. The refinement maps the address and the flags to a place in
the text (`place`, `phase`, `elseRuns`).

The interpreter keeps that promise only for *careful* macros (`Careful`): section 7 describes
the others.

### Key pipeline: `KeyPipeline`

Per key: `matrix` (the switch), `hw` (`hardwareSwitchState`), `debounced`, `debouncing`, and in
`kb` the rest of the main loop's state: `current`, `previous`, the queue, the event vector, the
resolution in progress, sticky modifiers, layer. A cycle is `BeginCycle` (macro engine,
replay), one step per key for each of the two passes over the keys (`InputKey`,
`UpdateKey`) and `FinishCycle` (mouse, report). While `KeystrokeDelay` elapses the loop only
preprocesses (`JustPreprocessInput`). `Scan`, timers and pointer motion are the world; an
interrupt may scan between any two steps, and its write is lost when it falls into the
main loop's update of the same byte.

### Roles in time: `DualRoles`, `MCDualRoles`

The same loop with one action per cycle, but with times. `log` holds every debounced
event with its time, `loop.queue` refers to it. `Rules` are the rules of
`resolveCurrentKeyRoleIfDontKnowTimeout` in the order in which the code tries them,
`startResolution`, `resolve` and `applyDualRole` what surrounds them, and `Held`, `Shifts`,
`WaitsForShift` are autoshift. A tick is the debounce time (50 ms): a switch changes at most once a
tick. The properties compute from `log` alone what the role or the shift should have been, and
compare. `RoleOf` is the manual's rule (`reference-manual.md:618-627`, `secondaryRole.advanced`): what triggers in
time comes first, then the timeout. In one case the code decides otherwise (`Disputed`): `TimelineDecides` leaves it
out (section 7).

### Event scheduler and main loop: `EventScheduler`, `EventLoop`, `Alarms`

`EventScheduler` has the operations as operators on a record (`times`, `nextEvent`,
`nextEventAt`, the bit, and the semaphore that `EventVector_WakeMain` gives). `EventLoop` is
the loop of `device/src/main.c`: user logic, `EventScheduler_Process` (whose
`scheduleNext` is split in two, since interrupts come in between), drain the semaphore,
look for more work, sleep. Other contexts run at a higher priority on one core, so their
calls are atomic and may come between any two steps of the loop.

The code has no locks here, and two windows in which a call of another context is
overwritten: inside `scheduleNext` (`event_scheduler.c:31-42`), and between
`EventScheduler_Process` and `k_sem_take(.., K_NO_WAIT)` (`main.c:74`). Both are hazards of the
code that need a rare coincidence. The history variable `raced` remembers that one
happened; nothing is promised from then on. Without it `NextIsEarliest` and
`SleepsUntilNextEvent` fail.

`Alarms` is what callers are promised: alarms are set (to the earlier of two times),
moved, cancelled, and ring one at a time, not before their time and earliest first.

### Message queue: `MessengerQueue`, `Mailbox`

One step per access to shared memory: `POOL_ALLOCATE` reads `idx` (`Pick`) and then takes the
segment (`Claim`); `fifoPut` looks at `first`, links the record, moves `last`; `fifoTake` reads
`first`, reads its successor, swings `first`. The contexts are the main loop (0), the
Bluetooth receive thread (1) and the UART interrupt (2). There is one core, so a context
steps only while all above it are idle (`MayRun`). The UART receives into a segment of its
own and swaps it for a fresh one (`Swapping`).

Two windows again (`Window`): the main loop has read that a record has no successor and a
producer links one to it before `first` moves (`messenger_queue.c:92`); a producer is preempted
between linking its record and moving `last` (lines 66-70 and 73-79), where the other
producer retries ten times without helping, or reads a `last` that is `NULL` or stale. `raced`
records that a producer entered one; `MailboxKept`, `NothingLeaks` and
`PanicsOnlyAfterRace` promise everything up to then: these two windows are the *only* places
where the queue goes wrong (section 5 proves it for pools of any size).

`Mailbox` is the promise: memory of a message that is being written, queued or read is
not given out again; messages leave in the order in which they entered.

### State synchronisation and links: `Links`, `StateSync`, `MCStateSync`

`Links` is how one half sees the way to the other: the media that are open, the one in use
(UART before Bluetooth), the count of each transmit semaphore, and the operators that
change them (`SetConnected`, `SetDisconnected`, `Take`, `Give`).

`StateSync` is both halves. The world changes data, plugs a module in or out, breaks a medium and
restores it; callbacks notice that (`Connect`, `Notice`), deliver packets (`Deliver`) and mark
properties dirty (`invalidate`, `ResetRightLeftLink`); a sync thread per half looks for the first
dirty property in the order of sending (`Look`), sends its packets (`Send`) or waits for a slot
(`Resume`), and sleeps (`Sleep`). The sync thread has the lowest priority, so everything else
is atomic and comes between any two of its steps; between the last look and `k_sleep` there
is a step of its own ("drowsy"), where a wake-up gets lost (`missed`).

Data is one bit at its source (`mine`) and one per packet at the other half (`copy`); a layer needs two
packets. `ApplyConfig` is the new configuration as well as the factory reset, which alone asks the left half to send
everything too (`usb_command_apply_config.c:49`, 61). `tangled` records what the code does not put in order or repeat:
packets of two media under way at once, a module that comes back before its absence was sent, and a packet that
the Bluetooth stack refuses although it is connected (`refuse`, `nus_client.c:178-182`, `nus_server.c:88-92`), whose
slot is given back and which nobody sends again. A thread that waits for a slot while the link is lost becomes
"stuck" (`stranded`), unless the stack hands its slot back first.

### Modules: `ModuleDriver`, `MCModuleDriver`

One add-on module of the left half of the UHK 80, from the connector to the right half. `slave`
is what the left half keeps (phase, identity, key count, key states, settings not yet
sent); one action per phase of `UhkModuleSlaveDriver_Update` (`Request`, `Receive`, `ProcessFact`,
`ProcessKeystates`, `Set`), `Transfer` ends a transfer of the bus with an answer, noise or nothing, `TransferFails`
fails one of a module that stays attached (the driver disconnects it all the same, `slave_scheduler.c:111-118`),
`Disconnect` and `UpdateConnectionStatus` are the two stages of a loss, `SendState`, `SendGone` and
`Deliver` carry it to the right half over messages in order. The I2C thread sends key states itself and may wait for
a slot of the transmitter in the middle of an answer (`Waiting`); `LinkLost` may drop it, or the sync thread, from the
list of those who wait (`stuck`), and it never runs again. Every fact carries the name of the
module it was learnt from, so that a fact of the wrong module can be seen. `cut` (a module
pulled out with a key held) and `bounced` (an alarm kept from an earlier loss) record what the code does
not handle.

### Layers: `Layers`, `LayerOrder`, `MCLayers`

The ring of records of `layer_stack.c` with its lazy removal (`Push`, `PopRemoved`, `PopToggled`,
`RemoveRecord`, `Reset`), the switcher (`HoldLayer`, `UpdateActiveLayer`, `updateActiveLayer`), the six
layer commands of macros, and the layer keys, in the order of an update cycle: commands, layer
changes, keys one by one, reports. What keys do is a constant (`Actions`). The time between two
taps is free. `LayerOrder` is the stack as `reference-manual.md` describes it: the activated
layers in the order of their activation, where the end of a hold takes out its own.

## 4. Runs

| Run | Bounds | States | Shows |
|---|---|---|---|
| `macro_health` | 3 slots, batch 2, all commands but stopAllMacros, no tail calls | 182,486 | run queue intact, all awake macros on it, sleepers have wakers, the engine is requested when needed, callers wait |
| `macro_live` | 2 slots, batch 2, all commands, tail calls, scope pool may be empty | 28,944 | cycles end, timed sleepers wake, queued macros get turns |
| `keys_order` | 2 keys, one a macro that postpones; keystroke delay; interrupt scanner; queue of 2, overfilled above 1 | 1,264,001 | nothing lost, nothing reordered, every event acted on |
| `keys_live` | 2 shortcut keys, one of them with a secondary role; a pointer; queue of 3, overfilled above 2 | 435,643 | sleeps for a reason, modifiers before scancodes, the role is decided first, nothing stuck |
| `roles` | 2 keys, 4 events, 6 instants; timeout 3, margins -1..1, double tap 2, autoshift 2, a macro that postpones once | 1,216,959 | roles and shifts follow the times of the keys; no key undecided past its timeout |
| `loop` | 3 events, times up to 3 | 143,346 | alarms kept, nothing slept through, work done |
| `queue` | 2 producers, 3 segments, 2 unread messages | 343,018 | the mailbox kept, nothing leaks or panics without a race; messages received |
| `queue_panic` | 1 producer, 3 segments | violation | the finding below |
| `sync` | Bluetooth and UART; reset, backlight, a property that is gated by it, the module's; 2 changes, 1 while both media work | 1,291,358 | nothing wrong is forgotten, threads sleep when done, the halves agree in the end |
| `modules` | a module with a key and an old one without, timeout of 2 ticks, 1 message in flight, 3 changes | 384,378 | no fact of another module, no ghost keys, a module that is read stays listed, presence and absence are reported unless a thread is stranded |
| `control` | every careful macro of at most 6 commands out of 7; 3 scopes | 625,534 | the commands run in the order of the blocks; scopes match blocks |
| `layers` | ring of 4, 4 layers, 2 keymaps, 2 keys, 2 macros, 2 commands | 544,143 | the ring is the order of layers; no layer sticks at rest |

**Why these bounds are enough.** Three macro slots allow a caller, its child and a bystander,
or a queue in which the slot before, the current and the slot after differ; every operation
on the queue touches at most that many neighbours. Two keys are what any of the orderings
relates; a small queue with an overfill limit below its size (for 32 and 27) becomes empty, filling,
overfull and full, with all its positions. In `roles` four events are two full key strokes in any
interleaving (or a double tap and a key), fewer than make the postponer overfull, and a timeout of
three ticks leaves room on both sides of every margin. Three events of the scheduler are a next one, one to overtake it
and one to be uncovered. Three segments are one for each of two messages on their way and
one for the UART, so the pools are exhausted exactly when something leaks. `MaxTime`
bounds the clock; `MaxUnread` bounds what senders pile up, and is an assumption on them:
a pool of 16 is exhausted by 16 unread messages, and the code panics then. In `sync` two changes of the
world are a loss of a link and its return or a change of data at any moment of either, a module that
comes and goes, or one of these before the Bluetooth stack refuses a packet. The initial state has any set of media up, so one of
them can take over from the other before any change; while both work one change is left (`MaxBoth`), which may be the
return of the second medium, its loss, or data. The
constraint `Explored` also stops where a packet has been refused or overtaken: `NothingForgotten` and `Converges`
promise nothing from there on, as `tangled` only grows, and `SleepsWhenDone` and `NothingForgotten` are
proved without any bound. A property in two packets (the layer) takes part in the proofs only. Three changes in `modules`
are a module, a loss of the link and its return (which strand the poller and go on without it), or a module pulled out and another one
put in, or one with a key pressed and released, or a failed transfer among them. Six commands hold two
nested blocks, one after the other command. A ring of four holds three records, so it
wraps and overflows with two macros and two keys.

**Deadlock** is checked except in the runs of `KeyPipeline` (nobody need press a key),
`MessengerQueue` (nobody need send; a panic stops the device), `StateSync` (the world changes
finitely often and then everyone sleeps), `ModuleDriver` (a stranded poller leaves nothing to do) and `DualRoles` (the
clock is bounded).

**Fairness.** The main loop of `KeyPipeline` runs for ever and its calls return: the first
conjunct of `Fairness` is `WF_vars(MainLoop)`, written out as "it sleeps again and again, or moves
again and again". `SF` of timers that the
loop processes only at one point of its cycle (`DebounceElapses`, `DelayElapses`, `NativeTimerExpires`): the time
passes, and the loop comes by that point again and again with the timer expired. `WF` of
`Rescan`: the interrupt handler polls periodically. `WF` of `Tick`: time passes. In the queue, `WF`
of every context, and of the main loop's turn when `newMessage` is set: that it then gets
a turn is `WorkIsDone` of `EventLoop`. In `StateSync` it is enough that as long as the sync threads
and the callbacks have something to do (a medium that is up connects, a loss is noticed, a packet that was not lost arrives)
one of them does it: it is `WF` of them all together, none of each, and none of the world.
In `ModuleDriver`, `WF` of the poller, of transfers and of time; `SF` of good answers (noise
does not garble every answer for ever) and of the two sends, which compete with key messages for
a slot: the link is faster than the poller. Nothing is assumed about macros, users or senders;
`EveryoneRuns` states its assumption on the macros (backward jumps yield,
`doc-dev/reference-manual.md:646`) in the property itself.

**Finding.** `queue_panic` ends in a violation: `fifoTake` cuts off a record appended while it takes the last one
(`messenger_queue.c:92`); the message is lost and its segments leak, until the pool is empty and the device panics.
Where the code otherwise disagrees with a comment or the manual, the property makes an exception, and section 7
names it.

## 5. Proofs

All hold for every value of the constants that satisfies the named assumptions of the module.

`MacroScheduler_proofs`: for every pool size, batch size and set of commands
(`PoolAssumption`, `SchedulerAssumption`) `TypeOK`, `RunQueueIntact`, `ScheduledAreAwake`,
`CurrentRunnable` and `EngineRequested` are invariants; so is `AwakeAreScheduled` if no macro
contains stopAllMacros. "The circle is intact" is not expressed with reachability, which
would need induction, but as: the successor function maps the scheduled set into itself
and no smaller nonempty set (`Circle`). The lemmas `CircleInsert` and `CircleRemove` show that
the two ways of relinking keep that; `CircleInjective` (by the pigeonhole principle of
`FiniteSetTheorems`) is what makes the remembered previous slot the only predecessor. `Inv` adds
to the properties `Linked` (previous slot and last queued slot fit the circle) and that no more turns
remain than there are macros: without these one cannot tell that unlinking unlinks the right slot.
`Mid` is what is left of it in the middle of an iteration, when the current slot may have
been unlinked. Each operator of `MacroSlots` has a lemma (`...Keeps`), each action a step.

`SleepersHaveWakers` needs next to `Inv` only that a notice (`wakeMeOnKey`, a timer) is used up
when no sleeper needs it any more (`Woken`, a lemma `...Well` per operator and command), and holds for
all macros. `CallersWait` does not: TLC shows a caller awake before its callee has ended when a macro
contains stopAllMacros (the callee's slot is given to another), when a call is the last action
of a macro, and when there is no scope left to call with. `CallersSleep` therefore
assumes `Cooperative`, the setting of `macro_health`. Its invariant `Family` pairs macros up: who
waits sleeps, unregistered, for a macro that plays and has it as its parent, and every parent
waits for its child; so the end of a macro wakes the right one, and only that one.

`EventLoop_proofs`: for every set of events and every `MaxTime` (`EventAssumption`, `LoopAssumption`) `TypeOK`,
`NextIsEarliest` and `SleepsUntilNextEvent` are invariants, `NeverSleepsOnWork` is one if all posts wake
the main loop (`Posts \subseteq {TRUE}`), and `EventLoop` implements `Alarms` (`AlarmsKept`). `Inv`
adds what holds in the middle of `scheduleNext` (`HalfConsistent`), and `DeadlineInTime`: from
the moment the deadline is read until the loop sleeps, it is no later than the next event
or a semaphore is given that nobody will clear. `LeastOf` (a nonempty set of numbers
has a least one) gives `scheduleNext` its result; it rests on well-foundedness of the natural
numbers.

`KeyPipeline_proofs`: for every number of keys, buffer size, overfill limit, scanner and setting
(`KeyAssumption`, `BufferAssumption`) `TypeOK` and `NothingLost` are invariants. `NothingLost` compares
the debounced state of each key with its last event in the queue, or its key state if it has none. What
makes it inductive is `Direct`: a change may be committed past the queue only when the queue holds
nothing but mouse events. That is why the decision to queue, taken once per cycle from the
buffer as it was (`queuing`), is still right at the last key. `FateOfTail` and `FateOfAppend` are the two
facts about queues, `Appended` covers the full buffer that has to make room; the steps of a cycle
are divided into those that act (`Acts`) and those that leave keys alone (`Still`). The
action properties `InOrder` and `EveryEventActedOn` are theorems too. They are about ordinary keys (not
dual-role keys): the event of a key whose role is decided is taken out of its turn, which is
what the role is for. Their invariant is `Visited`: between two cycles, and in a
cycle for the keys behind the one that is updated, the previous state of a key is its state. `BufferAssumption`
says that an overfull queue still has a place (27 of 32 in the code), without which the
two bounds could not be told apart.

`KeyRoles_proofs` follows the dual-role key in resolution. `DualRoleFirst` is a theorem for all constants;
its invariant is `First`: an undecided key makes the others wait (`HeldBack`) - from its visit to the next
cycle by the event vector, and from the beginning of that cycle, which clears the bit, to the next visit
because the decision to queue was taken before - and a cycle meets at most one key that was pressed, as it replays
at most one event; a key held in its secondary role holds the layer from each visit to the next cycle, which
makes it active (`Layered`). `SleepsForAReason` needs `KeystrokeDelay = FALSE` (the default; with a delay it
fails, section 7). It is a theorem if there is one dual-role key, and for any number of them while the
queue is below the overfill limit: above it a second key may be resolved
while the first one is undecided, and nothing connects the first one's request to postpone with a key in
resolution any more. The invariant `Drains` names who will look at the queue again: the postponer, the key whose
event was queued in this cycle and is still debouncing, or the loop's memory that somebody postponed
(`Awaited`); and who releases a native action that postpones (`PostponesForAReason`): the action itself, or the
undecided key, which is down and will be until its release is in the queue (`UndecidedIsDown`).

`ShortcutsInOrder` states `ModifiersFirst` for all constants. Its invariant is `Lead`, on top of
`First`. Between two cycles every shortcut that is held in its primary role (`Strokes`) has its scancode in the last
report; or its modifiers were sent first, everybody postpones and its visit is asked for (`Leading`). Then
the cycle of that visit is `Calm`: it replays no event, so it presses and decides nothing, and nobody takes the sticky
modifiers over before the visit. They belong to a held shortcut at all times (`StickyHeld`), and only the pointer and the end
of a layer clear them, which is what the property makes exceptions for (`Covered`). Above the overfill limit
events are replayed even if somebody postpones; the proof carries that as a way out of each part (`Safe`).

`StateSync_proofs`: for every set of media, of properties and any number of changes (`SyncAssumption`)
`TypeOK` and `SleepsWhenDone` are invariants. `Quiet` extends the second one to the moment between
the last look and the sleep: from then on nothing sendable appears without a wake-up, which turns the
thread back to looking or is recorded as missed; and an end of the darkness makes
gated properties sendable only together with such a wake-up. `NothingForgotten` is one with
`Trusted`: what the last packet on the way says is what the receiver will have, and it is
right, or the property is dirty or its packet is in the thread's hands (`AllKept`); a thread
that waits for a medium which is not used any more has everything to send again (`Behind`);
route, thread and packets fit together (`Steady`); a module that is plugged in is listed, and its absence
is announced only while it is absent or its state follows (`Listed`). `SyncAssumption` says what the
code does: the module's state and its absence are synchronised together, the media present are among those known, and
`ActiveKeymap`, which nothing marks and no reset sends (`state_sync.c`), is not among the synchronised properties.

`ModuleDriver_proofs`: for every set of modules, numbers of keys, timeout, number of changes and every
handshake that contains the decisive properties in their order (`ModuleAssumption`), `TypeOK`,
`KeysOfKnownModule` and `NoGhostKeys` are invariants and `StaysListed` holds of every step. `OneModule`
says that what the left half has read since it is connected is of one module, which need not be the one
attached now: it may have been pulled out, until the driver notices. It holds only while the poller runs: a
stranded poller stays connected in its tables to a module that may have been replaced since, but it reads nothing any more
(`Stranded`), so it forwards no key of it. `Recent`
relates the last contact, the alarm and the clock; `Released` follows a key that the right half believes
pressed through the messages on their way.

`MessengerQueue_proofs`: for pools of any size, any number of contexts that receive packets and any number of
retries (`QueueAssumption`) `TypeOK` and `NothingLeaks` are invariants and `MessengerQueue` implements `Mailbox`
(`QueueIsAMailbox`). `Inv` has two halves. `Basics` holds whatever happens: what a context has in its variables at each
of its steps (`HandFits`, `MainFits`), and that no count of attempts has passed its limit (`Counts`). `Orderly` holds
until `raced`: there are a length `n` and a sequence `c` of distinct records such that `first` and the links run along `c`
(`Chain`); `last` is the last record, or the one before it while a producer is about to move it (`LastFits`);
the main loop has the first record, and knows its successor (`TakeFits`); and the segments that are taken are, without
overlap, the records and messages of `c` and those in somebody's hands (`Records`, `Messages`), so none leaks. `Clear`
is what `raced` buys: it is recorded when a producer looks at the queue, and stays true until its compare-and-swap
because those it preempts do not move meanwhile. The records are named by existential `n` and `c`, and each action says how
they change: not at all, one more at the end (`Grown`), one fewer in front (`Shifted`). `ListStep` lists how a step
looks from outside (nothing, a segment given out, put in, taken out, freed), which is `Mailbox`'s next-state relation.
The walk along the links that defines `Queued` is shown to be `c` by induction over the naturals, done without the library's
theorem: a set of counterexamples has a least number (`LeastNumber`, `InductionOverSet`).

`NoPanicWithoutRace` states `PanicsOnlyAfterRace` under `Capacity`: the messages on their way (`MaxUnread`) and the UART's
own segment fit into the pool, and `Retries > 1`. The run meets it exactly (2 + 1 segments of 3), the code has
16 segments and 10 retries; nothing in the code bounds what senders pile up, so this is a bound under which
the queue is safe, not a claim that it is kept. Its invariant `Roomy` follows a search through a pool: whoever has tried `k`
segments in vain has `k` taken ones before it (`Full`), even if others have moved `idx` on in between, so a search that
fails everywhere means that all are taken, which there are too few messages for (`RegionLeft`, `QueueLeft`); and a producer
that found the queue empty and lost it to another cannot lose again (`Retrying`).

`Layers_proofs`: for any layers, keymaps, keys, macros and a ring of at least three records (`LayerAssumption`)
`TypeOK` is an invariant, `Layers` implements `LayerOrder` (`StackIsAnOrder`), and `NoStuckLayer` is an
invariant under two hypotheses on the configuration, without which it is false (section 7): a key that holds
a layer does so in every keymap (`LayerKeysStay`), and macros do not activate layers of modifiers
(`MacrosHoldRegularLayers`). The keymaps and targets of the run `layers` satisfy both.

The invariant of `StackIsAnOrder` is small (`Orderly`): a live record is held exactly if it has an owner, a macro that
owns a live record remembers its slot, and the record on top is live. From it follows that the index of a macro either
points to the macro's record, or the macro has no live record at all. The work is in the mapping. `Live` reads the ring
from the oldest record to the top (`Records`) and drops the removed ones (`Kept`). Lemmas about sequences say what
becomes of `Kept` when the sequence is extended, loses its first record or its last ones, or when one record in its middle
is marked (`KeptIs`, `KeptTail`, `KeptPrefix`, `KeptRemoves`); lemmas about the ring say that pushing, popping,
marking and resetting do just that to `Records`, across the end of the array (`PushedRecords`, `DroppedRecords`,
`ReplacedRecords`, `EmptiedRecords`). `Kept` is a recursive function; what it computes is proved by induction over
sequences (`SeqInduction`), which is reduced to the least number of a set. Then each operation has a lemma that
says what it does to the order (`PushActivates`, `PopToggledActivates`, `RemoveRecordActivates`, ...), and each
action of `Layers` one that names the step of `LayerOrder` it is, or that it stutters (`OrderStep`).

The invariant of `NoLayerSticks` is `NothingSticks`. `Sound`: what is shown is what the stack and the held layer
give, unless an activation left it behind (`uncomposed`); records that are held are of regular layers; a held
base layer is the held layer. `Collected`: `heldLayers` holds the layers of the pressed keys that the pass has looked at,
and more only if the stack left one behind (`Left`). `Settled`: unless `layerHolds` asks for a recomputation, the held
layer fits what the keys, the stack and the modifiers hold. It is not enough that it fits after each recomputation: between two of them
keys, macros and keymaps move, and each of them sets `layerHolds` or leaves the set of held layers as it was.

Only model-checked: all of `DualRoles` and `MacroControl`, and all liveness properties. The properties of `DualRoles` compare with the whole history. Liveness under fairness, `ENABLED` and induction over data are
out of the prover's reach (induction over a fixed set of naturals or of sequences is not, see `InductionOverSet`, `SeqInduction`). `MacroControl` is the only module with a RECURSIVE operator (`processCommand`: modifiers
call the interpreter for the rest of their command), and nothing is proved about it.

## 6. Not modelled

- Macro engine: the preemptive scheduler (`core.c:616-643`), `modifierPostpone` of scopes,
  `Macros_ValidateAllMacros`.
- Macro language: `autoRepeat`, `ifHold`, `ifSecondary`, `ifShortcut`, `final`, `exec`, macros of several
  actions, the dry run that validates a macro, and what expressions, variables and all the commands
  compute that do not change the control flow.
- Key pipeline: chording, `triggerByMouse`, dual roles that macros ask for, delay events,
  `PostponerExtended_*` for macros (prepend, consume), caret mode, macro reports, negative sticky
  modifiers, touchpads, the LED test, the USB semaphores. A secondary role is a layer. Distinct shortcuts have distinct
  modifiers. The scanner thread of the UHK 80 is in the model and the proofs, but in no run: section 7 says what it breaks.
- Event loop: the bodies of the events and of the user logic; the UHK 60's loop, which polls
  every millisecond instead of sleeping on a semaphore (`right/src/main.c:168-180`); the
  wrap of the 32-bit time after 49.7 days.
- Message queue: routing and decoding (`receive()`), the spam filter of pings.
- State synchronisation and links: the dongle, receivers other than the copy of the data, framing,
  escapes and checksums of the UART, discovery of the Bluetooth service. Two transmissions that share
  `txBuffer` are below the messages of the model.
- Modules: the UHK 60 and the right module, the LED driver, touchpad and bootloader slaves,
  `ResetTrackpoint`, pointer deltas. A module before protocol 4.2.0 never reports its state, as the
  code has it. A press forwarded before the right half knows the key count is not taken, also as in the code. A module
  that answers a garbled request from the last good one (`slave_protocol_handler.c:19-24`, line 48) is left
  out.
- Layers: the layer named "last", secondary roles that switch layers, `ActiveLayerModifierMask` (which
  `layer_switcher.c:229` reads at `LayerConfig[255]`, beyond the array, when no layer is held),
  `Postponer_LastKeyLayer`, keymap switches by USB and by `applyConfig`, event macros started by layer
  changes.
- Storage: two drivers around external hardware; the hazards are listed. Bluetooth connections: most of
  the state is in the external stack, and the code's own part consists of reactions to its
  callbacks; what they do to the links is in `StateSync`.
- The other components marked `not_modelled` in `PROJECT.json` only parse, format, draw or drive hardware.

The models cover a small part of the repository's lines, and cannot cover most of it: fonts, vendored
drivers, USB descriptors and stacks, display and LED code, shells and the parsers are most of the lines and have
little or no state that outlives a call.

## 7. What the models leave to the reader

Places where the code does not do what a comment, the manual or the changelog says, or where a
property needed an exception, without a run of their own. Each was reached in the model, or
follows from the quoted lines, as said.

**Macros.** `stopAllMacros` wakes sleeping macros without queueing them (`commands.c:168`, `core.c:699`,
`reference-manual.md:368`): they keep their slots for ever; `AwakeAreScheduled` fails with it. A parent that is
woken after its slot has a new owner (`core.c:279`): `CallersWait` fails with `TailCalls`. After a block that was
skipped, the next command is loaded by the dry run and finds the flags of the block's command (`commands.c:2435`,
685-688): a `break` there does not end the macro (`reference-manual.md:361`), and an `if {` is skipped. With `Careful = FALSE`
`KeepsBlocks` fails. `goTo` and `repeatFor` out of a block leave its scope behind (`core.c:180`).

**Key pipeline.** (a) Events queued during the keystroke delay are "to be replayed later" (`reference-manual.md:528`).
`justPreprocessInput` sets NativeActionsPostponing, so the first cycle after the delay replays nothing, and it does not wake the
postponer (`usb_report_updater.c:661`). If the delay is longer than the debounce time no alarm is left: the loop
sleeps, and the event waits for the next, unrelated wake-up. `SleepsForAReason` and `NoKeyStuck` are therefore checked
without a delay. (b) `hardwareSwitchState` "always contains the most up-to-date information" (`key_states.h:15-16`). The
write of the scanner thread is undone when it falls into the main loop's update of the same byte (`key_scanner.c:136`), and
is not repeated before another switch moves. The runs have the scan in the main loop or an interrupt that repeats it.
(c) "First cycle send just mods, in next cycle start sending mods+scancode" (`usb_report_updater.c:265`). A pointer
that moves in between clears the modifiers (`mouse_controller.c:691`): `ModifiersFirst` is promised while the pointer is at
rest. All three were reached in the model, with the setting in question and the exception dropped. (d) `NothingLost` excludes dual-role keys: above the overfill limit the release of an undecided
key can be replayed before the decision, and `SecondaryRoles_FakeActivation` then presses the key anew (by reasoning;
no run reaches it).

**Dual-role keys.** (a) When the timeout is reached, `timeoutAction` decides (`reference-manual.md:622-623`,
`secondary_role_driver.c:35`). With another key pressed that triggers nothing, the role becomes secondary whatever it is
(lines 216-219). `RoleOf` is the manual's rule and `TimelineDecides` leaves the case out (`Disputed`); drop `~Disputed` to see
it fail. (b) A resolution that is decided
in its first call does not queue the event that unblocks the mouse; the pointer stays blocked until a later
resolution. (c) Chording that swaps events ends the replay of the cycle without asking for another one. (d) Nothing wakes
the loop at the release or the press plus the safety margin; the decision waits for the next event or the timeout. (e) A key
that is replayed only after it was held for its timeout is judged by the order of releases or by a press instead of the
timeout (drop `HeldBack` from `TimelineDecides` to see it). (f) With a negative margin, a key pressed just after the release
counts when both are replayed, and does not when they are watched live (drop `Overtaken`). (b) to (d) are
from the code, the mouse and chording not being modelled.

**Layers.** (a) Toggling or untoggling a layer leaves `ActiveLayer` as it was, since it is recomputed only when the
held layer changes (`layer_switcher.c:232-234`, 246-248; the comment at line 57 and `reference-manual.md:400`, 409-410
say otherwise): drop `~layers.uncomposed` from `NoStuckLayer`, which then fails even without macros. (b) A layer that
a macro held and gave up before the next pass over the keys stays the held layer. So does a regular layer whose hold
uncovers, when it ends, a modifier's layer held by another macro: when that one ends too, the regular layer is found
in `heldLayers`, which only a pass over the keys empties (`layer_switcher.c:216-222`). `NoStuckLayer` fails with a
target such as `<<Shift, 1>>`, hence `MacrosHoldRegularLayers`. (c) When a layer key is held while the keymap changes
to one in which it is none, its release does not set `EventVector_LayerHolds` and the layer sticks
(`CHANGELOG.md:392`); in `MCActions` the layer keys have the same places in both keymaps. (d) `switchKeymap` empties
the stack but keeps `LayerStack_ActiveLayer`; a macro that holds a layer keeps its index, and the end of its hold may
take out the record of another. `stopAllMacros` never removes a record that is held, and untoggling during a hold may
remove the base record.

**Two halves.** `NeverSleepsOnWork` is proved for posts that wake the loop; `EventVector_KeyboardLedState` is one of
the "events that trigger event loop execution" (`event_scheduler.h:42`), but is set by a USB thread without waking the loop
(`usb_compatibility.cpp:99`): the macros of the lock keys (`reference-manual.md:23-31`) wait for an unrelated wake-up.
With such posts (`Posts = {FALSE}`) `WorkIsDone` fails. "When bt is not connected, freeing the semaphore causes no
trouble" (`nus_server.c:82`), but losing
the Bluetooth connection makes the semaphore anew for which the sync thread or the I2C thread waits (`nus_server.c:81-84`,
`nus_client.c:137-140`), and the thread waits for ever: the exception `NeverStranded` of `Converges`, `GoneIsReported` and
`ModuleBecomesKnown`. In
`ModuleDriver` a stranded poller never asks its connector again, although the halves are connected again. A packet refused by the Bluetooth
stack while it is connected is not sent again, and its property stays wrong at the other half until it changes or the link
is reset: the exception "refused" in `tangled`. A module pulled out with a key held leaves that key pressed on the right half
(`uhk_module_driver.c:517-521`, `state_sync.c:325-328`, `CHANGELOG.md:446`): the exception `cut` of `NoGhostKeys`. The second of two
disconnections within the timeout is judged at the alarm of the first one (`event_scheduler.c:149`, `CHANGELOG.md:447`), and an
alarm between the answer with the id and the first request for keys unlists a module that is there
(`CHANGELOG.md:158`): the exceptions `bounced`.

**Bluetooth**, read and not modelled: nothing calls `BtManager_RestartBtAsync`; a disconnection during
pairing skips `USB_EnableHid`; two dongles or hosts share a peer slot; pairing mode without a pair command has no
timeout; unpairing followed by a reload of the settings keeps stale addresses.
