# Verification of the Z-Wave / Wi-Fi bridge

TLA+ models of the gateway firmware under `src/projects/` (SiWx917 host with a
Z-Wave network co-processor on a UART), checked with TLC and, in part, proved
with TLAPS.  `PROJECT.json` lists the components, the runs, the definitions
with the source lines they model, the findings, the hazards and the theorems.

## 1. The system

| Component | State it keeps | Operations | Talks to |
|---|---|---|---|
| Send layer, `transport/sl_zw_send_data.c` | `session_list`, `send_data_list`, one memb pool, `lock`, `lock_ll`, emergency and backoff timers, an event queue of 3 | accept a frame, start the next one, give it to the chip, complete it, abort | Serial API below, Security 0 between its two levels, callbacks above |
| Security 0 nonces, `transport/sl_ts_s0.c` | nonce table (30), blacklist (10), periodic timer | register, find, clear, blacklist, expire | Security 0 transmission |
| Security 0 transmission, `transport/sl_security_scheme0.c` | transmit sessions, receive sessions | nonce get, encrypt, second frame, time out; decrypt and reassemble | send layer, security layer |
| Security layer and learn mode, `threads/sl_security_layer.c`, `transport/Secure_learn.c` | a state machine with timers, keys, flags | learn mode, inclusion, key exchange | Security 0, network management |
| Send request, `transport/sl_zw_send_request.c` | four requests with timers | send and wait for a report | send layer, every prober |
| Serial API host, `SerialAPI/*` | `rxQueue`, receive state machine, callbacks, one transmit buffer | frame, ACK, retry, dispatch | chip, everybody |
| Network management, `Z-Wave/CC/CC_NetworkManagement.c` | `nms`: state, flags, timer, event queue | inclusion, exclusion, replace, learn mode, set default | Serial API, security layer, resource directory |
| Inclusion controller, `Z-Wave/CC/CC_InclusionController.c` | handler state, timers | proxy inclusion, S0 step | network management |
| Resource directory, `ip_translate/sl_zw_resource.c`, `modules/sl_rd_data_store.c` | node and endpoint database, probe state and lock | probe, remove, persist | network management, send request |
| IP bridge, `ip_bridge/*` | IP and temporary associations, the packet at work and whom to answer | map an IP client to a virtual node, send, answer | send layer, Serial API |
| IP glue, `threads/sl_tcpip_handler.c`, `sl_zw_router.c`, `sl_zw_netif.c`, `ip_translate/*` | packet queues, `zw_sending`, NAT table | queue, route, translate | bridge |
| UDP server, command classes, TLS client, BLE/WLAN provisioning, OTA, CLI | parsing, vendor stacks | I/O | everything above |

**Contexts.**  The RTOS is FreeRTOS on one core, preemptive with time slicing.
`sapi_t` (priority Normal7) dispatches everything the chip sends and polls the
security state machine.  `tcpip_t`, `app_thread`, the network-management
thread, BLE, WLAN and the CLI run at Normal; the TLS client at Normal6; the
RTOS timer task above all of them.  The callbacks of the sleep timer run in an
interrupt.  Callbacks run in the context that met the completion, so one frame
may be completed from `sapi_t` (the chip's callback), from a timer (a missed
one) or from `tcpip_t` (a refused frame).  There are almost no mutexes:
correctness rests on flags, on the order of statements, and on the priorities.

In the interrupt nothing can wait.  CMSIS-RTOS2 refuses `osMessageQueuePut`
with `osWaitForever` there, whether the queue has room or not, and
`osMutexAcquire`; the code looks at neither result.  So an event that a sleep
timer's callback posts (`SEND_NEXT`, `SEND_NEXT_LL`, `NM_EV_TIMEOUT`) is lost,
and a serial call it makes goes on without the lock.  Every model has it so:
`lost` in `SendData` and `Sec0Tx`, `Timer` and `LongTimer` in
`NetworkManagement`.  The timer of `S0Nonce` and that of `SecureLearn` only
change state.

**What is hard.**  Callbacks nested in callbacks while a flag is half changed;
events dropped because a flag was read too early; late chip callbacks that
complete another frame; blocks read after they were freed; a bounded queue
whose reader also writes; events refused in an interrupt; a list walked without
a lock; timers that race the answer; nonces that overtake
the confirmation of the frame that asked for them; frames and callbacks that
do not say what they belong to; events cleared with those that were handled.
The list, line by line, is `hazards` in `PROJECT.json`.

## 2. Modules

| Module | What it is |
|---|---|
| `SendLayer` | what the send layer promises to a sender; `SendLayerProofs` its theorem |
| `SendData` | the send layer, an implementation of `SendLayer`; `MCSendData` its instances, `SendDataProofs` its theorems |
| `S0Nonce` | nonce table and blacklist, `MCS0Nonce`, `S0NonceProofs` |
| `Sec0Tx` | Security 0 transmit sessions between the levels of the send layer, `MCSec0Tx`, `Sec0TxProofs` |
| `SecureLearn` | the state machine of secure inclusion and what drives it, `MCSecureLearn`, `SecureLearnProofs` |
| `NetworkManagement` | the network management state machine and the inclusion controller, `MCNetworkManagement`, `NetworkManagementProofs` |
| `SerialHost` | the host side of the serial link to the chip, `MCSerialHost`, `SerialHostProofs` |
| `IpBridge` | a client's packet through the classic Z/IP node and the IP associations, `MCIpBridge`, `IpBridgeProofs` |

How they fit together: `SerialHost` shows what `SendData` takes from below (a
response may be missed, a callback may be lost or come late); `Sec0Tx`,
`SecureLearn`, `IpBridge` and `NetworkManagement` take from `SendData` what
`SendLayer` promises: a frame that was accepted is called back once.  Security
inclusion is `sec` in `NetworkManagement` and a module of its own in
`SecureLearn`; the nonces are a table in `S0Nonce` and a message in `Sec0Tx`.

Operators named `...Unchecked`, `...Nothing`, `...Swapped` and the like, under a
comment that begins with "Mutation", are plausible errors of the definition
that follows.  No specification uses them: `PROJECT.json` says which property
each of them breaks.

### SendLayer

A frame of the application is refused at once, or accepted and put at the end
of `queue`; it leaves the queue from the front when it is taken, or from
anywhere when its sender withdraws it; after that it is called back, once.
`confused` ends the promise.  `SendData` implements it with `queue` as the
frames of the sessions in `session_list`, and `confused` as `hijacked`:
`ImplementsSendLayer` is checked by the run and proved.

### SendData

A variable for each piece of state of the file; `applQ` is `session_list`,
`llQ` is `send_data_list`, `used` the counts of `session_memb`, `chipCb`
whether `cbFuncZWSendData` is set, `air` what the chip still owes a callback
for.  Both send functions of the serial API (`ZW_SendData`,
`ZW_SendData_Bridge`) share one callback slot in the model: `lock_ll` lets one
frame at a time in, so at most one of them is set by the layer.

`todo[c]` is the call stack of context `c`, as the sequence of the steps it has
still to make.  A step ends where another context can get in with an effect:
at a post that may wait for room, at a callback, at the entry and return of
`ZW_SendData`, before and after the two locks change.  The list and pool
primitives between such points are one step.  `PostEvent` is the post: a thread
waits for room; `timer`, the interrupt, is refused, and `lost` remembers the
event until a thread posts it again.  `Runs(c)` is the scheduler: a
context runs while every context above it is idle or waits for room; equal
priorities interleave at any step, which is what time slicing allows.

Actions follow functions: `SendDataAppl`, `Abort`, `SendFirst` (`send_first`),
`SendNext`, `HandOver`, `NoResponse` and `ArmEmergency`
(`zw_send_data_next_handler` around `ZW_SendData`), `LowLevelDone`, `CallBack`,
`SendMore` and `UnlockLL` (`send_data_callback_func`), `ApplDone` and
`ReleaseAppl` (`sli_zw_appl_send_data_cb_ex`).  A callback is looked up when it
is made, in the block as it is then: the code reads a block it has already
freed, and `hijacked` records that the block was taken meanwhile.  Properties
about callbacks hold unless that has happened; those about lost wakeups unless
the last post of the event was refused.

Not in the model: the choice of the security scheme and the encapsulations
(`send_endpoint` is modelled as `send_data`; `Sec0Tx` has the other path), the
node the backoff waits for, and the discard timer, which nothing arms.
`ZW_SendDataApplAbort` and `ZW_SendDataAppl_idle` have no live caller; the
abort is modelled all the same, for a queued session.

### S0Nonce

`table`, `blacklist` and their operators under the names of the code
(`register_nonce`, `get_nonce`, `nonce_clear`, ...), and one action for each
handler that uses them.  "The first slot that" is the set `Firsts(S)`, so that
nothing has to be chosen.  A nonce is its first byte, by which the receiver of a
frame finds it, and a number for the other seven; the generator never draws a
number twice and may draw an identifier twice.  `opened` and `spent` are
histories.  A decryption with the wrong nonce does not verify.

### Sec0Tx

One session per slot with the state, timer and remaining parts of the code;
`tx_session_state_set` is one operator for each state it enters. The low level
of the send layer is a FIFO of frames completed in order, which is what
`SendData` shows of it while no frame is given up. `SendDone` is the callback
of the frame at the head; the frame carries the session slot, and the callback
works on whatever session is in the slot by then. `spoiled` is a history: a
frame whose callback will not find its session in its state (`stray`), or a
session left without a timer in learn mode (`untimed`). Both are reachable and
listed as hazards; the properties say what holds until then, and
`sec0_tx_assert` shows that a stray frame breaks an assertion of the code.
`wakes` counts the `SEND_NEXT` events; a session that `tx_timeout` ends, or a
frame the emergency timer gives up, posts none (`lost`), and the next frame
starts when somebody sends another. A session's own frames are posted by
threads (`lostLL` is the exception, when a stray frame is left behind).
`security_init` runs once, at the start, so sessions are never forgotten.

### SecureLearn

`state` is `stateConfVector[0]`, `raised` the events of the interface, with a
timer's under the name of its state, and the other variables are the fields of
the generated machine and of `sl_security_layer.c` under their names.  A cycle
is two steps of `sapi_t`: `React` looks at the events and takes one transition
of the current state (one operator for each state's reaction), `Clear` clears
them all.  Between the two the timer's interrupt and, where it is in a thread
of its own, `manager_t` may raise another event, which is then lost.
`NmChecks` and `NmBegins` are `security_add_begin` called by `manager_t`, with
`sapi_t` in between; `IcBegins` is the same call in `sapi_t`.  The callback of
a frame raises `done` or `fail`, whichever frame it was for; `Encrypt` is the
moment at which the key of Security 0 is read, which is when the frame leaves,
not when it is queued.

`hist` records two things that are reachable and listed as hazards: two
requests that overlapped (`overlap`), and an event without which the machine
has no way out of its state that was cleared or came too late (`lost`).  Learn
mode is left out, because nothing in this version starts it, and so are the
branch for a node without Security 0 (the scheme report sets that bit in every
scheme), the flag for a node known to be bad and the key set from the command
line.

### NetworkManagement

`nms` is the record of the same name: state, `cmd`, the two timers and the
client in `nms.conn`.  `queue` is `sli_manager_queue`, `gw` the probe lock,
`delay_neighbor_update`, whether `MyNodeID` is valid, and whether an interrupt
hangs; `ic` is `handler_state`, `sec` whom secure inclusion works for, `chip`
what the chip is doing and which callbacks it owes.

Commands are actions of the UDP thread, reports actions of `sapi_t`, and
`Manager` is `sl_manager_thread`: `Take(s, e)` is an event met in a state, each
branch of a state's handler an action, `Ignore` an event no branch looks at.
One handler is one step, but six of them assign `nms.state` only after a serial
call that waits for the chip (`NODE_REMOVE`, `NODE_INFORMATION_SEND`,
`NETWORK_UPDATE_REQUEST`; adding a node, proxy inclusion, learn mode): the
other threads run in between, so `AssignState` and `ManagerAssigns` are steps
of their own.  A post that has to wait for room delays the whole handler;
except for `manager_t`'s own posts, which wait when everything else is done.

`Timer` is the sleep timer's callback: its `TIMEOUT` is refused, so a timer that
runs out changes nothing but itself.  No `TIMEOUT` reaches `manager_t`, and what
only a `TIMEOUT` leads to is dead code and left out: the retries of learn mode,
the end of a proxy inclusion, the handover to the SUC, and with it
`complete_func` and the transmissions of the inclusion controller.  `LongTimer`
is `RemoveTimerExpired`, which talks to the chip in the interrupt without the
mutex it is refused: it may succeed, fail, or never return, because it waits by
a tick count that may not move (`gw.hung`, after which nothing runs).

`hist.overtaken` is the history of these races: the assignment replaced another
state than the one the command was accepted in, or came after the callback it
was to wait for, or a callback that does not look at the state replaced that of
another command.  Each is reachable (and a hazard); the properties say what
holds until one of them has happened.

Assumed: freeing a pointer that is not from the heap is harmless, and what is
read through a pointer whose target is used again is any value.  Starting a
sleep timer that runs does nothing, as in the vendor's service.  Also left out:
the states and events that nothing in this code leads to (smart start, DHCP,
mDNS, probing, the node information of a proxy inclusion) and what replies say:
`nm_send_reply` only logs.  With it went the reset to `NM_IDLE`, so most
commands leave NMS in a state it does not leave again, which is why deadlock is
not checked.

### SerialHost

`pc` is where each thread is in `SendFrameWithResponse` or `SendFrame`, `lock`
the owner of the mutex, `reading` how far it is with a frame; `serBuf`,
`txBuf`, `rxQueue` and `cbFunc` are the buffers, the queue and the callback of
the code.  `sapi_t` polls between its own calls and takes frames from the queue
outside the lock.  `walk` is the pointer of the thread that holds the lock and
receives: it goes through the queue once to count it (`CountFrame`) and once to
link the new frame behind the last (`WalkQueue`, `LinkFrame`), one frame a
step, and `SerialAPI_Poll` may take the first frame away between any two of
them.  A pointer that stands on a frame that was freed finds its old successor
or nothing.  A frame names the call it is about, which the real one does
not: the properties use that, the guards of the code do not.  The chip is
external: it takes a command, sends its response, transmits and calls back, and
may lose, garble or repeat one thing, or be late.

`hist` records what the protocol cannot tell apart: frames of an earlier call
that were still on the way (`early`), calls that overlapped on `sl_ser_tx_buf`
(`overlap`), a poll that writes into a frame buffer in use or frees the frame a
walk has reached (`raced`; while the queue is counted the frame is still in
`sl_ser_buf`, so any poll with a frame is one), and what leaves nobody sure of
the callback (`unsure`): a call that was given up, a command the chip may have
taken twice, a frame repeated after its ACK, a missed response. Left out: calls
in an interrupt (`LongTimer` in `NetworkManagement`), the some eighty functions
that fill a frame and read an answer (three kinds stand for them: a
transmission, a query, a command without response), the check whether the chip
supports a command, the start of the link, its OTA mode and the ring buffer of
the UART.

### IpBridge

`zwSending` and `owner` are `zw_sending` and `cbCompletedFunc`, with the packet
they were set for; `conn` is `sl_zwc` and `cur_flags0`; `pool`, `used` and
`table` are the memory, the allocation and the list of IP associations;
`marked`, `creating`, `addCmd`, `routeFor` and `learnCb` are the statics that
carry a creation or a removal from one callback to the next.  `Take...` is a
packet met by a handler, one action for each outcome that differs; `todo` holds
the calls it still has to make, so that `ip_assoc_remove`, which calls itself
through `ip_assoc_continue_with_next_marked_for_removal`, is a sequence of
steps; `pending` holds the callbacks to come, each with the packet that caused
it, which the code does not know.

The serial functions return 0 for a refusal and for a response that was missed.
After the second the chip does what it was asked for, and its callback comes
although the host has taken it for a refusal: `CreateVirtual`, `DoRemove` and
`SetFrameDone` have both.  `LearnUpdate` is a callback with a status that says
how far the chip is; `ip_assoc_virtual_add_callback` forgets its command then,
and completes nothing.  `ChipSilent` is a callback that never comes, which no
timer guards.

`Clean` says that no packet was completed while something it had started was
still to come back.  That happens: a supervised command is completed by its
report, before the callbacks of the command inside (`supervised`); a Set whose
frame fails undoes its association and reports at once, while the chip removes
the virtual node or while the undoing goes on with the marks that an earlier
removal, which failed, has left in the table (`undone`); a removal
frame that is refused goes on with the next one and reports twice (`refused`).
It also excepts a response that was missed (`missed`), a callback with a status
in between (`update`) and one that never comes (`silent`).  What holds
afterwards is little, and the properties say so; that list and pool agree
(`TableOwnsSlots`) holds whatever happened.

Left out: the table of temporary associations, which is changed and read in one
call and waits for nothing; the queue of packets that come while one is at
work; the acknowledgement of packets the gateway itself sent; forwarding
through a proxy association and `ip_assoc_find_existing`, which look for a
virtual node where the packet has the client's address; the race of `sapi_t`
between marking and the first removal frame; and a restart: the associations
are written under a key that counts in RAM, so none is read back.

## 3. Runs

| Run | Instance | What it shows |
|---|---|---|
| `send_data` | an application frame from `app_thread`, a Get from `sapi_t`, a nonce report; pool of 3, queue of 3; the chip may refuse or never answer, a response may be lost; an abort | seven invariants and liveness below, and the refinement of `SendLayer` |
| `send_data_async` | `expect: violation` | `tcpip_t` waits for room in the queue only it reads |
| `send_data_timer` | the frames of `send_data`; `expect: violation` | a frame waits whose event was refused to a timer |
| `s0_nonce` | one pair of nodes, two identifiers, table of 3, timeout 2, blacklist of 2 | five invariants below |
| `s0_nonce_three` | table of 6, five identifiers; `expect: violation` | a fourth nonce is reported |
| `sec0_tx` | three frames to one node, the first in two parts, two sessions | four invariants and liveness below |
| `sec0_tx_assert` | two frames, nothing fails but a timeout; `expect: violation` | `ASSERT(s->state == NONCE_GET)` fails |
| `secure_learn` | two nodes, one of which has the key; two requests; two frames in the send layer | two invariants, an action property and liveness below |
| `serial_host` | `sapi_t` and another thread; two calls; a receive queue of 3; one fault | three invariants, an action property and liveness below |
| `serial_queue` | the same with two faults | `QueueIsOwed` with two frames nobody asked for, and polls in the middle of longer walks |
| `ip_bridge` | one node, two resources, a pool of two, one virtual node; five packets, two failures | three invariants, an action property and liveness below |
| `network_management` | two clients, three commands, one command of another inclusion controller, queue of 3 | four invariants and a liveness property below |

Deadlock is not checked where an instance sends a finite number of frames, or
accepts a finite number of commands, and stops.  It is checked in
`secure_learn`: the machine is polled for ever.

**Send layer.**  `NoLostWakeupLL` and `NoLostWakeup`: a queued frame always has
an event, a timer or a frame in progress that will come back for it, unless the
last post of that event was refused to a timer; `NextIsSent` is the same
without the exception, which the code breaks.
`LockLLOwned`: `lock_ll` set means somebody will clear it.
`CallbackAtMostOnce`, `ListsDisjoint`: the pool, the two lists and the
callbacks agree.  `OwnStatus`: until the host gives a frame up, the chip's
callback completes the frame it was sent for.  `ImplementsSendLayer`: accepted
frames are taken in order, and called back once.  `EveryFrameAnswered`:
liveness, but for a layer that stands still for ever after a refused post.

**Nonces.**  `OneReplyNonce`: a pair of nodes has one reply nonce.
`LookupFinds`: a frame finds the nonce it was encrypted with by the identifier,
but for one case, which the code allows: a reply nonce drawn after a nonce was
reported to the same peer may have its identifier, and be found first.
`OpenedOnce`: no frame is opened twice. `SpentOnce`: no two frames are
encrypted with one nonce while the blacklist remembers it.

**Transmit sessions.**  `LockOwnsSession`: the lock of the send layer and the
sessions agree although they meet only in callbacks.  `AnsweredOnce`,
`OkMeansSent`: one answer, and an OK only when every part was confirmed.
`EveryFrameAnswered`: liveness, with the exception of `SendData`.

**Secure inclusion.**  `IdleIsClean`: whenever the machine rests, Security 0
has the network's key and no node without it is registered as secure.
`AnswersOwn`: the client is told about the node it asked for, and what it is
told is so.  `Settles`: each request is answered, and the machine comes back to
`Idle`, unless the event it needed was cleared.  A run of the machine in which
that happens stays where it is, and refuses every later inclusion.

**Serial link.**  `QueueIsOwed`: what was acknowledged to the chip is in the
queue, in order, however polls come between the steps of a walk through it,
until one takes the very frame the walk has reached. `OwnAnswer`,
`OwnCallback`: a response and a callback reach the call they are about, within
what frames without a number can promise. `CallReturns`: no loop and no path
keeps a caller, or the lock.

**IP associations.**  `AnswersOwn`: one ACK or NACK for each packet, to the
client that sent it.  `TableOwnsSlots`: list and pool agree.
`RemovesWhatWasAsked`: nothing is removed that no Remove named.  `Settles`:
every packet lets the next one in, and a creation or removal ends, as long as the
chip calls back, once.  After a status in between, or a callback that never
comes, it does not: `zw_sending` stays set, although `sl_bridge_ip_assoc.c:449`
has it as the "ground rule" that every packet is completed.

**Network management.**  `LockOnlyWhileAdding`: the probe lock is held only in
the states in which a node is made secure, whichever thread assigns the state.
`InvalidIdOnlyLearning`: the gateway is without an identifier only in the one
state that accepts nothing.  `OneChipMode`: adding, removing and learning
exclude each other on the chip.  `QueueServed`: no event stays in the queue for
ever, unless `manager_t` waits for room in its own queue, or an interrupt hangs.
That states are left in the end is not among them, because it does not hold:
`CC_NetworkManagement.h` has `NM_PREPARE_SUC_INCLISION` (:305) and
`NM_PROXY_INCLUSION_WAIT_NIF` (:324) end on a timeout, and a learn mode that was
cancelled back at idle (:118), but no TIMEOUT is ever delivered.

**Bounds.**  Three frames are the fewest that let a late callback meet a later
frame while a third waits, and they fill the real event queue of three and a
pool of three, in which both levels of the layer find no block.  A
table of three nonces is full in the middle of a handler, a blacklist of two
wraps, a timeout of two makes entries expire at different times; `MaxDrawn`
bounds the history.  Three frames to one node let the third session meet what
two ended sessions left behind; `MaxAsked` bounds the unanswered nonce gets.
Two requests for one node, and a second node that has the key, are the fewest
with which secure inclusion can be answered by somebody else; two frames are
the fewest that let an early callback meet a later state.  Two calls and one
fault are the fewest in which a response or callback can reach the wrong call;
`TxTries` and `RxTries` of 2 instead of 20 and 3 reach the end of both loops.
A pool of two is full, and has a removal with a second one to go on with; five
packets create, remove and create again with one packet to spare, and
`MaxLoose` stops at two when a packet left work behind, after which only
`Settles` speaks.  One virtual node lets the chip run out of them.  Two
commands are the fewest that can collide, and three let a third one meet what
they left; a node that is added runs through all its states with one.  A queue
of three instead of ten is full after a few events.  A receive queue of three
is the shortest in which a walk has a frame behind and a frame before it, and
two faults let two frames wait there that nobody asked for, which `serial_queue`
has; the other properties, which do not look at the queue, do with one.
`MaxFaults` of `IpBridge` counts refusals, missed responses and
callbacks that fail, come once more or never: two let a missed response meet a
later failure.

**Fairness.**  `SendData`: weak fairness of `tcpip_t`'s turn (it polls every 5
ms), of every context's next step (the scheduler), and of running timers; none
of senders or of the chip. `Sec0Tx`: of `tcpip_t`, of the completion of the
frame at the head (the chip or the emergency timer, by the liveness of
`SendData`), and of running timers; none of nonce reports. `NetworkManagement`:
of `manager_t`, of running timers and of the return of a serial call, all
unless an interrupt hangs; none of the chip's reports, clients, other
controllers or secure inclusion. `SecureLearn`: weak fairness of `sapi_t`, of a
running timer and of the callback of each frame (by the liveness of
`SendData`), and strong fairness of `manager_t` between check and request, as
`sapi_t` rests in `osDelay` after each poll; none of the nodes or of who asks.
`SerialHost`: weak fairness of each thread's steps, of `sapi_t`'s poll and of a
chip that takes a command and answers it, unless that is the fault; strong
fairness of taking the lock. `IpBridge`: weak fairness of the calls to be made
and of callbacks, but the chip may stay silent (`ChipSilent`), which `Settles`
excepts: no timer guards its callbacks; none of packets or of the NAK timer.

## 4. Theorems

`SendDataProofs` proves type correctness of the send layer for every set of
requests, pool and queue size, from `SendDataAssumption`.  One lemma for each
group of actions; the stacks of the contexts need lemmas of their own (what a
step contains, what replacing or pushing steps keeps).

Its second half is about sessions.  The properties about callbacks and lists are
not inductive, because a callback is a step some context still has to make, and
says nothing of who else may make it.  `Own` gives each session a place:
waiting on `session_list`, handed down on `send_data_list`, about to be called
back, or being ended by `sli_zw_appl_send_data_cb_ex`.  It says that

- no list holds a session twice, and no two steps work on the same (`Once`,
  `OneStep`);
- no session is in two places, and all but those about to be called back are
  allocated (`Apart`);
- sessions in a place have the kind of callback that belongs there (`Kinds`);
- an application session that was handed down has one low-level session and no
  other place (`HandedDown`);
- a request has one session until it is called back, and none afterwards
  (`Owed`).

The code keeps this only until a block is taken over between `memb_free` and
the callback that reads it, so the invariant is `~hijacked => Own`, and
`Ownership` states it.  `CallbackOnce` and `ListsHold` follow.  `Implements` is
the refinement: with `Own`, a step that takes a session off `session_list`
takes its frame off the queue of `SendLayer`, and a callback of a sender finds
the frame accepted, not queued and not called back; a step of the low level, of
the chip or of a timer is a stutter.

Its last part proves the four invariants about locks and lost wakeups. What
keeps them true is mostly on the stacks of the contexts, so `LocksInv`
describes those first: which steps a context can have below which others
(`Sound`), and that only `tcpip_t` is ever inside `ZW_SendData` (`Placed`).
Then, about the low level: a set `lock_ll` belongs to a step, the emergency
timer or a waiting frame (`LockLLOwned`); with an empty list, an unlock is due
(`Emptied`); a context past its last look at the list leaves an event to come
for what was queued since (`Woken`), which is where the priorities of the
threads are used; and until the host gives up a frame (`~late`), the chip has
at most the frame at the head, and one context at most completes it
(`OneFrame`). Each "event to come" has the alternative that its last post was
refused to a timer (`Due`); the clauses hold all the same, because a thread's
post clears `lost` and puts the event into the queue in one step.
`NoLostWakeup` is inductive with them; `OwnStatus` needs `OneFrame` alone.

`SendLayerProofs` proves `PromiseKept`: what a sender relies on follows from the
steps of `SendLayer` alone, hence for whatever implements it.  The invariant
adds that a frame in the queue is there once, is accepted and was not called
back.

`S0NonceProofs` proves `TypeOK` and the four invariants of the nonce table for
every number of nodes, nonces, slots, timeout and blacklist size, from
`S0NonceAssumption`.  None of them is inductive alone.  `IInv` adds that the
gateway's live and opened nonces were drawn before (`no <= drawn`), that no two
live slots hold the same drawn nonce, and that `spent` is contained in the
blacklist.  The argument: a new nonce carries a number no live, opened or spent
nonce has; clearing and expiry only remove; `register_nonce` overwrites the
only reply nonce or fills a free slot; a nonce is opened or spent in the step
that clears its pair.  `LookupFinds` follows from two parts: two reported nonces
of a direction differ in their identifier (`Unique`), and a reply nonce with the
identifier of a reported one was drawn later (`Later`).  Both rest on the loop of
`sec0_send_nonce`, which draws until nothing live in that direction matches
(`FreshMatchesNone`).

`Sec0TxProofs` proves `TypeOK`, `LockOwnsSession`, `AnsweredOnce` and
`OkMeansSent`, from `Sec0TxAssumption`, in which `NoNode`, the value of a free
session, is no peer.  `TypeOK` needs that a session that asks for a nonce has a
part left (`HasLeft`).  The rest holds until a frame loses its session
(`"stray"`, which the three invariants except); the invariant until then is
`Orderly`: there is one active session at most, it is that of the frame that
holds the lock (`Sessioned`, `Locked`), and its state tells how many of the one
or two parts are sent and how many the chip has confirmed (`Progress`); a frame
that is not started has no calls and no confirmations (`Queued`).  An OK is then
given only in the state in which all parts are confirmed.

`SecureLearnProofs` proves `TypeOK`, `IdleIsClean` and the action property
`AnswersOwn`, from `SecureLearnAssumption` (`None` is no node).  The type needs
that an event was raised with its value (`EventsHaveValues`), that the timer is
that of the state, and that `secure_poll` does not rest in a state it only
passes through (`NeverRests`).  `KeyInUse` says where the key of zeros may be in
use, `SecureHasKey` which node may be registered before it has the key,
`Outcome` what the machine has reached in each state, and `OneRequest` that,
while no two requests overlapped, the request, the node and the callback are
those of one client.  `AnswersOwn` is about steps to `Complete`, which come from
the state `end` alone; `Outcome` and `OneRequest` in that state are what it
says.

`NetworkManagementProofs` proves `TypeOK`, `LockOnlyWhileAdding`,
`InvalidIdOnlyLearning` and `OneChipMode` for any number of clients and all
bounds.  The type is proved with `CommandHalves` and `EventHalves`: what a
command or an event read before its second half, and which states it may assign
then.  `Steered` ties three things to `nms.state`, all of which hold until one of
the named races (`Ongoing`): what the chip does (`ModeOfState`), that the
gateway's identifier is valid (`IdOfState`), and that the probe lock is held in
three states only (`LockOfState`).  Each of the three properties is one of these
parts read from the side of the gateway or of the chip; none is inductive alone,
because the second half of an event assigns a state that the first half chose.

`SerialHostProofs` proves `TypeOK`, `QueueIsOwed`, `OwnAnswer` and the action
property `OwnCallback` for every set of threads, any number of calls and faults
and every length of the queue and the loops.  `IInv` has five parts.

- `TypeInv`, always: a thread is inside the mutex exactly when it owns it, the
  loops stay below their bounds, and there is room in the queue for a request
  that is about to be linked, because only `sapi_t` comes in between and it only
  takes frames away.  The last point needs `Walked`: the walker is in the queue
  or just past it, and has counted every frame before it unless `sapi_t` has made
  room since, so that a count that is stale errs on the safe side.
- `Queued`, until a poll raced with a reception: the queue and the frame in hand
  are what is owed, and the node the walker is at has not been freed.
- `Answering`, as long as nothing overlapped, raced or came early: there is one
  call, and every command and response of its function, in the chip, on the line
  or in the buffers, carries its number.
- `Single`, the same without `early`: there is one call, and `sl_ser_tx_buf`
  holds its parameters, or a response of its function.
- `Following`, as long as nothing is `unsure` either: how the chip and the line
  follow the call.  `Line` says for each place of the call what may be on the
  way: nothing between two calls; at most one command, or then one ACK and one
  response behind it; nothing but the response once the ACK is taken.
  `Transmission` says that all callbacks on the way, one at most, are of the call
  in `cbFuncZWSendDataBridge`, and `Refused` that a refusal is on the way only
  when nothing is transmitted, so that `ZW_SendData_Bridge` may forget its
  callback.  These are stated over `Stream`, the queue, the frame in hand and the
  line in one sequence, so that a reception is either no change to it or the loss
  of one item, and a step of the chip adds one at its end.

The proof of `OwnCallback` showed that the history missed a case: a command
without response that is given up leaves an ACK behind, which a later call takes
for its own; that call then repeats a command the chip has taken, and the chip
may transmit, and call back, twice.  It takes three calls and three faults, more
than the run has.  Such a call is now `unsure`, as one that fails otherwise was.

`IpBridgeProofs` proves `TypeOK`, `TableOwnsSlots`, `AnswersOwn` and the action
property `RemovesWhatWasAsked` for every pool, any nodes, resources and virtual
nodes, and all bounds, from `IpBridgeAssumption`.  It has four invariants.

- `TypeInv`, always: besides the types, each call on `todo` and each callback
  that is to undo or remove something names a slot of the pool, and the
  associations in the table were filled in.
- `TableInv`, always: the table holds allocated slots, each once, and a slot
  that is still to be freed has been unlinked.  The last part makes it
  inductive: `ip_assoc_remove` unlinks before the calls that may add to the
  table, and frees after them.
- `OneActivity`, while `Clean` (no supervised or undone Set, and no call of the
  chip that was refused, whose response was missed, that was reported on with
  another status, or that the chip never answered): one thing is under way.
  Either one callback is to come (`Awaits`), or a call that goes on is next
  (`Drives`), or only calls that complete the packet are left (`Ends`); in the
  first two it is due to the last packet taken, which is the one in `sl_zwc`
  and has no final answer yet. A report may wait behind a call that goes on
  only if nothing will be left when that call returns (`MayTrail`).
  `AnswersOwn` is a part of it.
- `Removal`, while also no removal failed and no association was born with a
  mark: the marks in the table are those of the Remove under way, and
  `number_of_ip_assocs_marked_for_removal` is their number, or one more between
  the unlinking and the next round (`Counted`, `Owing`, `Quiet`).  Only
  `ip_assoc_remove` takes an association out of the table, and what it takes for
  a Remove is marked.

The proof of `OneActivity` showed that the history missed a case, which a pool of
two cannot reach: a removal that fails leaves two marks or more, and a later Set
whose frame fails undoes its association, counts those marks down, goes on to
remove the next association and reports at the same time.  Such a Set is now
`undone`, as one that waits for the chip was.

Only model-checked: liveness, because fairness is out of the prover's reach
(`EveryFrameAnswered`, `CallReturns`, both `Settles`,
`QueueServed`).

## 5. Not modelled

- The resource directory's probe and the send request.  The probe stops at its
  first step in this version: `sli_rd_ep_probe_update_info`
  (`sl_zw_resource.c:884`) requests nothing for endpoint 0, `nif_request_ep`
  (`:741`) is never set and `rd_nif_request_notify` (`:802`) has no caller.  The
  gateway's own entry stays in `STATUS_PROBE_NODE_INFO` and keeps the probe, no
  later step runs, and `sl_zw_send_request`, which only the probe calls, is
  never called.  What is left is a table, and the probe lock, which is in
  `NetworkManagement`.
- Reassembly of Security 0 frames of two parts, AES, and the checksums.
- Temporary associations, address translation, parsing of Z/IP packets: tables
  and data, changed in one call.
- Handlers of command classes: they build an answer from tables.
- TLS, BLE, WLAN, firmware update: event loops around vendor stacks that are not
  in this repository or not its own logic.  The larger part of the repository by
  lines is of this kind: mbedTLS, device headers, the Z-Wave command class
  tables.
- The command line, start-up order, drivers.

## 6. What is left

1. `Sec0Tx` as a client of `SendLayer`: its two queues of frames as instances of
   it.
2. Reassembly of received Security 0 frames over `S0Nonce`, and the temporary
   associations with their recycling and the firmware lock.
