# Verification of the one_ch switch firmware

The repository holds the firmware of a Wi-Fi relay switch built on the ESP8266
NON-OS SDK 2.0.1. The program's own code is `src/sdk_v2.0.1/app/` (`user/`,
`device/`, `driver/uart.c`, `addition/Spro.c`, headers in `include/`);
everything else in the repository is the vendor's SDK, its examples, third
party code (cJSON, SHA-256) and build artifacts. The device compiled in is
`device/FWTRX_TC.c`.  The repository has no tests and no design documents: its
only statements of intent are comments, log messages and defensive checks.

## 1. The system

### Execution model

There are no threads. Two cooperative tasks (`IOTGO_CORE`,
`IOTGO_DEVICE_CENTER`) take events from FIFO queues filled by
`system_os_post`, whose result nobody tests. Timer callbacks (`os_timer`) and
network callbacks (`espconn`) run to completion between events. Only the UART
receive interrupt and the key interrupt pre-empt. So an atomic step of the
models is one event handler or one callback, and the hard interleavings are
those of *posted events*, *armed timers* and *outstanding network requests*
that outlive the state they were started in.

### Components

| Component | State | Operations | Hard part | Correct when |
|---|---|---|---|---|
| Parameter and configuration store (`iotgo_flash.c`, `iotgo_global.c`) | two slots and a flag sector in flash | load, save, reset | power loss at every flash operation | a load returns the old or the new record |
| Outgoing queue and send pump (`iotgo_queue.c`, `iotgo_pconn.c`) | linked list, retry counter, retry timer, posted pump events | add, send, retry, next, clear | queue cleared while a pump event is posted | one pump, in order, no message stuck |
| Network centre (`iotgo_core.c`) | device mode, retry timers and counters, event queue | ~40 events | stale events and timers of an earlier mode | always on the way to the server or in setting mode |
| Wi-Fi station (`iotgo_wifi.c`) | join stage, join timer, connect status | join, leave, SDK events | join restarted while a join is running | joins again after any loss |
| Distributor request (`iotgo_bconn.c`) | request running, result posted, timers | start, DNS, connect, response, timeout, stop | late callbacks | exactly one result per request |
| Persistent connection (`iotgo_pconn.c`) | TCP/SSL connection, WebSocket upgrade | connect, handshake, register, requests of the server | callbacks of an old connection | registered only over a live connection |
| Pairing mode (`iotgo_setting.c`) | SmartConfig, TCP server, timeout | enter, exit, save credentials | exits racing timeouts; other handlers set the mode in the midst of it | leaves the mode, servers released |
| Firmware upgrade (`iotgo_upgrade.c`) | image offset, reconnect counter, timers | start, download, verify, stop, restart | reconnects, short answers, timeout, second stop | only a verified image is booted |
| Local timers (`iotgo_loctimer.c`) | table of 8 timers, ids, flash copy | add, edit, delete, enable, disable, query, tick | batch requests that fail half way, rollback from flash | table consistent with ids and flash |
| Older timer service (`iotgo_timer.c`) | 10 slots | add, delete, tick | time arithmetic | fires once per due minute |
| Calendar (`iotgo_clock.c`) | date and time | parse, tick, weekday, cron | month and year ends, leap years | agrees with the Gregorian calendar |
| MCU queue (`FWTRX_TC.c`, `uart0_send_queue.c`) | queue to the MCU, retry counter, timer | add, send, acknowledge, retry | acknowledgement racing retry | every command reaches the MCU or is given up |
| MCU frame parser (`U2art_schedule.c`) and UART ring (`driver/uart.c`) | ring indices, parse state | receive, parse | interrupt against task, resynchronisation | frames in, frames out |
| Stream protocol reader (`Spro.c`) | receive buffer, package state | HTTP, WebSocket reassembly | split and joined packets, more than the buffer holds | one callback per package |
| Factory data (`iotgo_factory.c`) | factory record, cipher sector | receive, store | power loss between two stores | factory data complete or absent |
| Status LED (`iotgo_sled.c`), key, RSSI, JSON helpers, factory test | – | – | – | – |

### How the components interact

The serial line, the network and the timers feed the two tasks:

* `driver/uart.c` (interrupt) fills the receive ring; a 100 ms timer runs the
  frame parser, which calls the command handlers of `FWTRX_TC.c`. These queue
  messages for the server (`iotgo_queue.c`) or answer queued messages to the
  MCU (`iotgo_uart0_send_queue.c`).
* The core task owns the mode of the device. Wi-Fi, distributor, connection,
  pairing and upgrade report to it by events only; it starts and stops them by
  calls and arms the retry timers. Nothing cancels an event once posted.
* A package of the server is dispatched by `iotgo_pconn.c`: to the relay (for
  the MCU), to the local timers, to the upgrade.
* Parameters, the configuration of the device and the timers are kept in flash
  by the same two-slot scheme; the upgrade writes the other half of the flash
  and records what it verified in the parameters.

The hazards that follow from this are listed, with their lines and the
properties that cover them, in `PROJECT.json`.

## 2. Modules and code

| Module | Models | State ↔ code | Proofs |
|---|---|---|---|
| `AtomicStore` | what a parameter store promises | one value, replaced by a save or not at all | refined by `FlashParam` |
| `FlashParam` | `iotgoFlashLoadParam`, `iotgoFlashSaveParam` and the same scheme for the device configuration (`devLoadConfigFromFlash`, `devEraseConfigInFlash`, …) | two slots, the flag byte, and how far the running save or reset is | `FlashParamProofs` |
| `FactoryData` | the production of a device (`iotgo_factory.c`) and its starts (`user_main.c`), over `FlashParam` | stage of the serial exchange, the cipher sector, whether the line got its OK | `FlashParamProofs` |
| `SendPump` | `iotgo_queue.c`, the sending functions of `iotgo_pconn.c` | the list, `send_counter`, the retry timer, the core task's event queue | `SendPumpProofs` |
| `NetworkCenter` | `iotgo_core.c`, `iotgo_wifi.c`, `iotgo_bconn.c`, connection part of `iotgo_pconn.c`, entry and exit of `iotgo_setting.c` | mode, event queue, every retry timer, state of join, request and connection | `NetworkCenterProofs` |
| `Upgrade` | `iotgo_upgrade.c` | download index, reconnect counter, timers, image in flash, the record of the verified image | `UpgradeProofs` |
| `LocTimer` | the requests of `iotgo_loctimer.c` | table, ids, count and version in RAM and in flash; request and turn of its loop | `LocTimerProofs` |
| `Clock` | `iotgo_clock.c` and the due tests of `iotgo_loctimer.c` as operators on dates, with day numbers as the reference calendar | – | `LocTimerProofs` |
| `TimedTimers` | `LocTimer` with the clock: `localRTC`, `timerDealTime`, `setGMTTime` | `current_time`, the fraction of a second, which callback is next | implements `LocTimer`; `LocTimerProofs` |
| `McuRelay` | `iotgo_uart0_send_queue.c`, senders and answers in `FWTRX_TC.c` | list, retry timer, `send_counter`, the line and the MCU | `McuRelayProofs` |
| `StateReports` | the MCU's subscription to the state (`queryState`), over `McuRelay` | mode, `state`, `last_state`, the query timer | in `McuRelayProofs` |
| `UartRing` | `driver/uart.c` | `buffer`, `head`, `tail` | `SerialReaderProofs` |
| `SerialReader` | `iotgo_U2art_schedule.c`, over `UartRing` | `u2art_data`, `get_length`, `timerout_couter`, how far the callback is, the frame on the line | implements `UartRing`; `SerialReaderProofs` |
| `SproReader` | `Spro.c` as operators on a record | the buffer, its index, the ten second timer | `PackagesProofs` (its functions) |
| `ServerSession` | the server connection as its reader and its heartbeat see it (`iotgo_pconn.c`, `iotgo_core.c`) | reader, package type, connection, `ping_counter`, `pong_counter`, segments and pings on their way | `PackagesProofs` |
| `Pairing` | `iotgo_setting.c` and the pairing events of `iotgo_core.c`; key and setting command of `FWTRX_TC.c`; what else sets the mode | mode (the working modes are one), event queue, short timers with their delays, server, SmartConfig, access point, the attempt to join | `PackagesProofs` |

`MC…` modules and `.cfg` files instantiate them. An action stands for a whole
handler or callback, with two exceptions where the code can be interrupted:
`FlashParam` and `FactoryData` have one action per flash operation (the power
may fail between any two), and `SerialReader` one per test of
`uart0_rx_available` (the interrupt handler may add bytes between them).
`LocTimer` makes each turn of a request's loop a step, so that a power failure
can fall between turns.

A run of `uart0_rx_read` calls is one action: the interrupt handler only adds
at the other end, so it commutes with them, except that a byte arriving at a
full ring in the middle of the run may be accepted while a later one is
dropped. A line that loses a byte (`Lose`) has the same effect.

How the modules fit together. `LocTimer` takes the save of its image to be
atomic, which is what `FlashParamProofs` proves of the scheme the save uses.
`FactoryData`, `StateReports`, `TimedTimers` and `SerialReader` extend the
module they are composed with. `NetworkCenter`, `SendPump`, `Upgrade`,
`ServerSession` and `Pairing` are views of the one core task: each has the
events that it handles, and those of the others that change its state appear
as foreign events or as steps of the environment: `MaxOther` in `SendPump`;
the end of an upgrade and the entry into pairing in `NetworkCenter`; losing
and making a connection in `ServerSession`; in `Pairing`, every handler
outside of `iotgo_setting.c` that sets the mode while pairing may be under
way. These are JOIN_AP, JOIN_AP_ERR and AP_JOINED (`JoinAp`, `JoinApErr`,
`BackToWork`), also those that the Wi-Fi (`NetworkLost`) or an attempt to join
(`JoinApTimer`) posted before pairing was entered; UPGRADE_EXIT
(`UpgradeEnds`, `BackToWork`); and the callback of the server's packages
(`ServerPackage`). The handlers that test for a pairing mode before they set
another (CONNECT_SERVER_AGAIN, REGISTER, REGISTERED) change nothing that
`Pairing` has. The product of the views is out of TLC's reach.

Where the code itself defeats a property, the step at which it starts sets a
*history variable*, and the property names it. So the property does not catch
that case: it says that nothing *else* goes wrong.

| Variable | Set when | Excused |
|---|---|---|
| `hurry` (`Pairing`) | a request of the app, the key or the MCU comes while the device is leaving, entering or changing a pairing mode; the 30 s without a client end with an answer owed; a search starts after pairing was left; a link comes up while a restart of the search is queued (`Disturbed`) | all four invariants of pairing, and from there on no new input |
| `ousted` (`Pairing`) | another handler sets the mode while the server, the search or something on its way to them is there (`Ousts`) | `StartedOnce`, `QuietAtWork`, `PairingServes`; not `NoNullBuffer` |
| `torn` (`ServerSession`) | in the middle of a package the ten second timer clears the buffer, a segment does not fit behind it, or the connection changes | the order of the packages and the count of the pongs; not the bounds of the buffer |
| `large` (`ServerSession`) | a single segment of more than half the buffer has arrived | that nothing is written behind the buffer |
| `reset` (`ServerSession`) | the counters of the heartbeat are cleared with a ping unanswered | `PingsBalance` |
| `file.short` (`Upgrade`) | a package was shorter than its sector | that the bytes that came are those of the sectors written |
| `forced` (`NetworkCenter`) | UPGRADE_EXIT has set NORMAL on a device that is not online | `NormalAlive` |
| `interrupted` (`FactoryData`) | the power failed, or memory ran out, between the record and the cipher sector | that the device does not halt in its starts; not that a confirmed device is good |

None of them bounds the exploration but `forced` in `net_safety` and `hurry`,
after which no new input comes (see Bounds). `refused` only counts the pings
that the send queue refused. Exceptions that need no history variable are in
the comments of their properties: the once-timers that have run (`Mirror`,
`FailedIsNoop`), a minute that the clock does not show second by second
(`ActsWhenDue`), an MCU that answers late (`AnswerIsForHead`), a full queue
(`SubscriberKnows`), an upgrade whose progress timer disarmed itself
(`TimeoutBites`), frames of 256 bytes and more (`GoodFrameAccepted`), a
session without a heartbeat (`NormalAlive`, `DeadPeerNoticed`).

## 3. Runs

All numbers are for two workers.

| Run | Shows | Bounds | States |
|---|---|---|---|
| `flash_param` | `FlashInv`, a boot never reads a torn record unless the power cut a reset short, a save never touches the live slot, the store implements `AtomicStore`; a device that the production line was told is good works ever after | 3 records; any number of saves, resets and power losses; two scenes | 3.2 k |
| `send_pump` | one pump, order kept, each message accepted once, it stops only offline, the head always leaves | 3 messages, queue 2, events 3, 2 foreign events | 0.2 M |
| `send_pump_empty` | **violation**: the test for an empty queue dereferences the null head | as above | – |
| `net_safety` | in mode NORMAL there is a connection or news of its end to come; nothing but the user, its timeout and what was left over takes the device out of pairing; no dead end; the event queue does not grow without bound | 4 scenes: a session (backlog 2, 1 loss, upgrades, any timing), pairing (backlog 2 with 1 key press, backlog 1 with 2), pairing during an upgrade | 7.4 M |
| `net_recovery` | after a loss and a visit to pairing the device gets back to NORMAL | backlog 1, 1 loss, 1 key press, fairness | 0.3 M |
| `loc_timer` | table, ids and count agree; flash mirrors the last answered request; a failed request changes nothing; each turn puts each requested timer where it belongs and touches no other; the clock keeps time and the calendar is right; a due timer acts exactly once | 2 slots, batches of 2, a timer of each type around New Year 2017, one tick of an odd length; the last second of each month of 14 years between 2015 and 2100 | 0.6 M |
| `mcu_relay` | answers remove the message they are for if the MCU is in time; only an answer can stall the relay; the head leaves unless stalled; what counts as reported to the MCU is the newest state it gets | 6 messages, queue 3 | 24 k |
| `mcu_relay_stall` | **violation**: after an answer the next message is never sent | as above | – |
| `upgrade` | the index follows the range asked for, and the bytes that came unless a package was short; the device boots only a verified image and records only what is there; a stalled download ends | 2 sectors of 2 bytes, the last filled with 1, packages of 0 to 2 bytes, 1 newer version, 2 losses of the connection, backlog 2 | 0.5 M |
| `upgrade_overlap` | **violation**: a request during a pending restart makes the device boot a mixture | 2 newer versions | – |
| `serial_reader` | the ring is a queue, the reader takes only what is there, rejects a good frame only if it has an extended length and an earlier one failed, and ends every frame | ring of 4, 3-bit bytes, 5 kinds of frame, frames and damaged bytes 3 in all | 1.8 M |
| `packages` | pairing: no freed buffer is used, the server is started once, pairing serves or searches and leaves nothing behind, and it ends; session: every package handed over once, whole and in order unless one was torn, nothing written behind the buffer by segments of up to half of it, the heartbeat counts right, a dead peer is noticed | buffer of 5, segments of up to 4, 3 requests, key presses and events of the network, 1 fault, backlog 2 | 0.41 M |

### Bounds

* *Backlogs* (`backlog` of a scene, `MaxBacklog`, `CoreQLen`, `EventMax`,
  `MaxEvents`, `MaxPosted`) bound the event queues. The hard cases need one
  stale event and one current event waiting together, so 2 is the smallest
  useful bound: violations of an earlier, stronger `PairingHolds` appeared with
  2 and not with 1. `net_recovery` has 1 because liveness needs the complete
  graph. Larger instances that take too long for a regular run were explored
  without finding anything new: `Pairing(2, 2)` (14.6 M states), `Intrusion`
  with a backlog of 2 (18.7 M), the invariants of `packages` with
  `MaxEvents = 3` (0.50 M).
* *Losses, faults and key presses* bound what the environment does; after them
  the network is stable and recovery can be asked for. For the safety
  properties of `NetworkCenter` neither these nor the backlog matter: they are
  proved for every scene.
* `net_safety` stops exploring where `UPGRADE_EXIT` has forced the mode to
  NORMAL (`NotForced`): from there on the device is known to be stuck, which
  is listed as a hazard. The proofs have no such constraint.
* *Scaled numbers* in `SerialReader`: 7-bit lengths become 2-bit ones, the
  index of the copying loop wraps at 3 (256 in the code), a length is accepted
  up to 5 (1024) and the ring holds 3 bytes (1023). The order of these limits
  is kept, so each case the code distinguishes occurs: a frame longer than the
  index, longer than the ring, and longer than the buffer. The digits of a
  length are whatever bytes have that number (`Digits`), so the model has no
  exponents; `LengthAssumption` asks that the wide form can hold every length.
* *Units* in `SproReader`: a cell of the buffer is a byte of a frame header or
  a piece of text that the reader looks for, so that every cut of a package
  into segments that the code can tell apart occurs. `SessionAssumption` asks
  nothing of the sizes but that the answer to the handshake fits in the buffer.
  The run has a buffer of 5 and segments of up to 4, as the code has segments of
  up to 1460 bytes and a buffer of 2048: a segment may be longer than half of
  the buffer, so that the clearing behind a package runs past its end (`wild`),
  may not fit behind what is there, and a frame of 5 fills the buffer. After a
  write behind the buffer the reader does nothing more: what it overwrote is
  not modelled. The assumption also asks for frames of the kind that the server
  sends, JSON texts (`TextFrame`), and for counters that go beyond two, the
  number at which a connection is overdue.
* *After `hurry`*, `Pairing` takes no new input: the device finishes what it
  has begun. Every property excuses what follows, and `PairingEnds` is still
  checked on it. `ousted` bounds nothing.
* `Upgrade`: a package has any length from nothing to a full sector, in the code
  0 to 4096, here 0 to `SectorLen` = 2; the last sector is filled with
  `LastLen` = 1. Two lengths below a full sector are enough for the bytes to
  fall behind by less than a sector and by a whole one. The connection is given
  up at the second loss (`Tries`; the fourth in the code).
* `LocTimer`: two slots allow a full table, a batch that fills it and a batch
  that fails on its second entry; three slots were explored without the clock.
  The version of the table is kept modulo 2: it only has to differ from the
  previous one. `Unit = 2` makes half a second the unit in which the hardware
  measures a tick, and `MaxOdd` ticks of one or three units occur after each
  setting of the clock. A request has at most `Num` entries (`Batch`): the code
  tests this for new and edited timers (1194, 1221), and not for deletions and
  switches by id, which copy any number of ids to an array of `Num` bytes (1248,
  1271, 1294). What a longer request of these kinds does is writing past that
  array, of which nothing is said here; nor of ids beyond the table.
* `McuRelay`: while the MCU is not reliable, messages are only relayed, all of
  them are alike, and four fill the queue and the line (`MCNext`).

### Fairness and timing

Weak fairness is assumed of the tasks, of armed timers and of the SDK
reporting the outcome of what it was asked to do: the scheduler of the SDK
runs every posted event and every due timer. Strong fairness is assumed of
timers that the bound on the backlog may disable (`ModeMonitor`,
`ProgressTimer`), since the code has no such bound. Nothing is assumed of the
user, of the server, of the app or of the MCU, except of the *reliable* MCU
that `McuRelay` chooses in its initial state.

A scene of `NetworkCenter` says whether anything is assumed of delays
(`any_timing`). If not, nothing is; otherwise a step guarded by `Timely` waits
until what is going on is over: the monitor's minute does not end during a
connection attempt, the retry timer does not fire during one, a reachable
server answers pings and does not refuse the registration, and the end of an
abandoned connection is not reported during the next attempt. Without these,
TLC finds behaviours in which the device reconnects for ever without reaching
NORMAL. They are listed as hazards; `Reconnects` is the claim that remains.

`Pairing` counts half seconds (`Tick`) for the timers of up to 1.5 s, because
its correctness rests on their order: the server is stopped one second after
pairing is left, and the other kind of pairing starts half a second later. An
event is assumed to be handled within half a second.

## 4. Proofs

The proofs assume only what the modules assume of their constants; each of
these assumptions is evaluated by a run. Where a component has one type
invariant and one deeper one, the types are part of the deeper one (`OnePump`,
`NormalAlive`, `IndexFollows`, `SubscriberKnows`, `PairingServes`,
`PingsBalance`), so a theorem about it includes type correctness.

The prover cannot apply an induction principle whose parameter is a predicate.
Where a definition adds up, scans or loops over data, it is a recursive
function, and the proofs replace induction by two first-order lemmas that
follow from the well-foundedness of the numbers: a nonempty set of numbers has
a least one (`LeastNumber`: consider the least counterexample), and a function
defined by a step on its previous value exists and has its type (`StepsExist`).

* **`FlashParamProofs`**, for every set of records. The inductive invariant is
  `FlashInv` = `TypeOK` ∧ `SaveInv` ∧ `IntactInv`. `SaveInv` ties the progress
  of a save to the flag and the two slots: the slot being written is not the
  one the flag names, and from the moment the flag is erased it holds the whole
  new record. It is needed because an erased flag *is* a valid one: a load
  then falls back on a fixed slot. `IntactInv` says that the live slot is torn
  only during a reset, or after one that the power cut short. From these
  follow `BootIntact`, `LiveSlotSafe` and the refinement `SaveIsAtomic`.
* **`FlashParamProofs`**, likewise. `FactoryInv` extends `FlashInv` by the
  stage of the production: a record without a good cipher sector exists only
  while `recvData` works on it, or after an interruption, and the line gets
  its OK only past both. `ConfirmedBoots` follows.
* **`NetworkCenterProofs`**, for every scene: any number of losses and key
  presses, any backlog, with and without assumptions on delays. `NetInv`
  strengthens `NormalAlive` in two ways. A connection that is still being set
  up is not enough, because its failure may go unreported (`Held`). And since
  an answer to the registration waits in the queue as REGISTERED while the
  connection may already be lost, every such event has a connection or an
  event that ends the session *behind it in the queue* (`Ordered`): the
  queue's order is what makes the device safe. Each of the 40 actions is first
  shown to have one of two effects on the queue, the mode and the connection
  (`CoreEffect`, `OutsideEffect`), and these keep the invariant.
  `OnlineIsAlive` follows; `PairingIsKept` needs no invariant.
* **`SendPumpProofs`**, for every set of messages and every size of the two
  queues. `PumpInv`: only the head can have been sent; if it has, the event
  that drops it is on its way, even when the queue was cleared in between; and
  unless a stale pump event is about, there is one pump, in one place, with
  something to send. From it `PumpIsOne`, `MessageSentOnce` and
  `PumpStopsOffline`.
* **`McuRelayProofs`**, for every set of messages, modes and sizes. With an MCU
  that answers in time a token goes round: one posted event, or one frame on
  the line, or one answer (`InTurn`), and only the head can have been read.
  From this follows `AnswersTheHead`. `OnlyAnswersStall` needs no assumption
  on the MCU. `ReportInv` adds what the reports in the queue say and gives
  `SubscriberIsTold`.
* **`UpgradeProofs`**, for every number of sectors, versions and every backlog.
  `UpgradeInv`: an upgrade that is under way has its buffers and a newer image
  to load; if requests come one at a time (`OneAtATime`), then moreover the
  index is the count of packages stored, the bytes that came are at most those
  of the sectors written and just these as long as no package was short
  (`InStep`), at most one entry is on its way, and what the digest was checked
  of is still in flash while its "OK" waits in the queue and while the restart
  is pending (`StillHolds`). From this `IndexIsRight`: whatever lengths the
  packages have, the next one goes to the sector of the range asked for next,
  and the digest is not checked before the last sector was written. A short
  package is stored like a full one (`iotgo_upgrade.c:468`, `79`, `383`): after
  it the download goes on behind the image until the bytes suffice. The
  digest need not fail then, since what is in flash may be right all the same;
  `BootsOnlyVerified` and `RecordsOnlyVerified` say that only a complete image
  passes. The three theorems are about servers that send one request after the
  other, and `upgrade_overlap` shows that they need it.
* **`LocTimerProofs`**, for every number of slots. `LocTimerInv` = `TypeOK` ∧
  `Registry` ∧ `RoomLeft` ∧ `Mirror` ∧ `Applied`. `RoomLeft` (a request to add
  timers that is being worked on will fit) is what makes `Registry` inductive:
  a turn takes a free slot without testing that there is one. `Applied` says
  what the slots hold after each turn: there is a placement of the requested
  timers in slots (`Placed`), each in the lowest slot that was free when its
  turn came, with that slot's id, and every other slot is as the request found
  it; and likewise for edited, deleted and switched timers, with the last entry
  winning when an id is named twice. The proof extends the placement by the slot
  that `ProductId` finds: `Registry` gives that its timer is free because its id
  is. `FailedIsNoop`
  needs `Mirror`, because a failed request is undone by reading the flash.
  `ImplementsLocTimer` shows that every step of `TimedTimers` is one of
  `LocTimer` or leaves the table alone, for any schedules and any clock, so
  that the theorems hold with the clock (`TimedRegistry`, `TimedMirror`).
* **`LocTimerProofs`, the clock**, for every set of dates, schedules and
  measurements. `TimedTypeOKHolds` says that no tick and no date of the server
  makes the time anything but a moment. `ClockKeepsTimeHolds` and
  `CalendarAgreesHolds` compare the firmware with day numbers: the lengths of
  the months between two dates add up to the difference of their day numbers,
  so the carries of `localRTC` from the second to the year lose nothing, the
  nested loops that count the days since 2016 (`compareTimeToKnowDate`) count
  them, and the formula for the day of the week follows the count modulo 7.
  `ActsWhenDueHolds` rests on `ActedInv`: in an undisturbed minute a timer has
  acted once if it is due in this minute and its second has passed, and not at
  all otherwise; a minute contains one second at which each kind of schedule is
  due. Its hypothesis is that every duration schedule starts after the first
  second of 2016: for an earlier one `compareTimeToKnowDate` has no count and
  the code leaves it alone. `TimedTimersAssumption` bounds a measurement by
  4293 seconds. With microseconds, that and the rest of a second fit into the
  32 bits of the code, so that its sum does not wrap; the callback that measures
  is due every second.
* **`SerialReaderProofs`**, for every ring, frame format, message and noise.
  For the ring alone the invariant is `RingTypeOK` and the work is index
  arithmetic: four lemmas about numbers remove the modulus, two relate the
  unread bytes before and after a write and a read, and `RingFifo` follows.
  Every step of the reader, the line and the MCU is shown to be a step of the
  ring (`ReadsWhatIsThereHolds`), so the ring is a queue under its real users
  (`ReaderKeepsFifo`). `ReaderInv` ties the statics of `parseU2artData` to the
  bytes read of the frame: they are the start signal, the header and, once
  `get_length` is set, the length bytes that gave `extend_length` – or
  `get_length` is stale, which needs an earlier frame that failed and a frame
  with an extended length. For `GoodFrameAcceptedHolds` an intact frame is cut
  into its four parts, which the invariant finds where `getData` looks for them.
* **`PackagesProofs`**, for pairing, with buffers of any size, any requests of
  the app, any timeout and any backlog, and with the network, an upgrade and the
  server setting the mode at any moment. `PairingInv` has two layers.
  * `AnswerFinds` holds until a disturbance (`hurry`), whoever sets the mode:
    whoever waits for an answer of the server finds it running, and no exit
    timer is about to stop it. `NoNullBufferHolds` follows from it alone.
  * `CalmInv` holds as long as, moreover, no other handler took the device out
    of pairing (`ousted`): at most one event of the search and one that enters
    a mode wait, and the state is one of few. In pairing the device is about to
    search, serves the app, searches, is leaving (its exit timer runs), or has
    only the access point left to join; each says which timers are armed, which
    events may wait and whether the server runs. The foreign events may wait in
    every one of these states (`Foreign`): what makes the difference is only
    when they are handled. `StartedOnceHolds`, `QuietAtWorkHolds` and
    `PairingServesHolds` follow. None of them holds after `ousted`: an upgrade
    that ends after MSG_CORE_ENTER_SETTING_SELFAP_MODE (`iotgo_core.c:575`)
    leaves the server, the access point and the monitor behind, and the next
    entry starts the server a second time. TLC finds this if `ousted` is taken
    out of `StartedOnce`.

  The proof goes through the events and timers one by one. The package reader
  enters by lemmas on `Spro.c`: whatever the buffer holds, each of its loops
  returns a reader and calls with a length inside the buffer.
* **`PackagesProofs`, the session with the server**, for every size of the
  buffer that holds the answer to the handshake, every size of a segment and of
  a frame, larger than the buffer too, every set of frames, every cut of the
  stream into segments, and connections that break or die anywhere. The types of the
  reader are not enough here; `SessionInv` says what its buffer holds.
  * While no package was torn, there are *cut points* (`Cut`, `FrameInv`): the
    buffer and the stream, one behind the other, fall into exactly the frames
    that were sent and not handed over. A segment moves units from the one to
    the other (`CutWritten`), a new frame adds a cut point (`CutSends`), and
    each pass of the WebSocket loop takes the first frame and gives it to a
    callback as it was sent (`HandedStep`, `WsRecvFrames`). Between segments no
    whole frame waits (`WsInv`), which is why a stream that has run dry has
    nothing left to hand over. `AnswerInv` says the same of the two units of
    the answer to the handshake.
  * After a package was torn the buffer may hold anything that was ever sent.
    `HttpInv`, `ShakeInv` and `OpenInv` say the little that is left: no field of
    a head ever arrives, and the end of a head only where the reader of frames
    takes it for garbage, or behind a zero, where the reader of HTTP does not
    see it. Without them the HTTP loop could compute a length and move a rest of
    any size.
  * `network_spro.wild => large`: `serverRxRead` clears cells beyond the buffer
    (`Spro.c:68`) only when more than half of the buffer is left behind a
    package. What is there before a segment is no whole frame, so what is left
    behind the first one that a segment completes comes from that segment alone
    (`Little`, `LittleRest`, `ArrivalFits`), however much had gathered and
    wherever the buffer cut it off. So it takes a single segment of more than
    half of the buffer, which the code's sizes (1460 of 2048) allow: with
    `~network_spro.wild` in place of the implication TLC finds `FramesIntact`
    violated. Nothing is claimed of what such a write does.
  * `BalanceInv` extends `PingsBalance` to the time between the registration
    and the open connection, in which the heartbeat is armed already. It follows
    each pong from the stream through the callback into the queue of the core
    task: what the callbacks post is what they took out of the stream
    (`PostsCounted`). The counters are taken modulo `Width`.

  The loops of `Spro.c` are recursive functions on the number of passes; each
  pass shortens the buffer, so that as many passes as the buffer has cells
  suffice (`TameRun`). The hypotheses are `SessionAssumption`: frames are text
  frames with a length in one or two bytes, without an empty line or a field of
  an HTTP head in their payload (they hold one line of JSON), the buffer has at
  least two cells, and the counters go beyond two.
  TLC checked `SessionInv` on the instance of the run `packages` before it was
  proved.

Only model-checked: the liveness properties (`Reconnects`, `HeadLeaves`,
`TimeoutBites`, `FrameEnds`, `PairingEnds`, `DeadPeerNoticed`), since the prover
handles neither fairness nor `ENABLED`. Every invariant and every action
property that a passing run checks is a theorem.

## 5. What the checks found

* `send_pump_empty`: `iotgoQueueHeadData` dereferences the null head of an emptied
  queue.
* `mcu_relay_stall`: the statement that sends the next message to the MCU is
  unreachable (`FWTRX_TC.c:648`).
* `upgrade_overlap`: the upgrade is not locked against a second request,
  contrary to the note above `iotgoUpgradeProcessRequest`.

Behaviour that no document contradicts is stated in the properties as their
exception and listed as a hazard: `get_length` survives a failed frame; frames
of 256 bytes and more never end; an upgrade that ends offline forces the mode
to NORMAL; a late answer of the MCU removes the wrong message; a reset that
the power cuts short may leave a torn record; the progress timer of an upgrade
disarms itself when its first sector takes longer than a second; a report of
the state that meets a full queue is never made again; a timer whose second
the clock shows twice acts twice, and one whose second is skipped not at all;
a long key press cuts an upgrade off; what a broken connection left of a frame
is read before the next handshake; a pong that comes after the counters were
cleared makes their difference wrap and ends a healthy connection; a request
of the app, or its 30 s without a client, at the moment pairing is left uses
freed buffers; an upgrade that ends, a late join or a package of the server
takes the device out of pairing with the server, the access point and the
search left on; a package of an upgrade that is shorter than its sector is
stored like a full one; a segment that does not fit into the reader's buffer
is cut, and one of more than half of the buffer can make the reader clear
memory behind it; a device that loses power between its factory record and its
cipher sector halts in every start.

Seen while reading, outside the models (memory, JSON values, read-only
queries): the answer to the MCU is built in a buffer one byte too short for
its terminating zero (`iotgo_U2art_schedule.c:329`); a command whose first
element is no string is compared through a null pointer (`:170`); a stray 0xAA
before a start signal hides the frame (`:256`); three handlers test
`cjson_root == NULL && cjson_root->type` (`FWTRX_TC.c:1072`, `1141`, `1209`);
`switchActionCallback` leaks its text (`:923`); `send_counter` survives an
answer (`:927`), so the next message may get one try less; a second start of
the pairing server leaks the first buffers (`iotgo_setting.c:422`);
`daysOfMonth` returns an uninitialised value for a bad month
(`iotgo_clock.c:142`); a query of timers by index copies to the wrong place
(`iotgo_loctimer.c:828`); a failed `malloc` makes a save of the timers a no-op
that is still answered as done (`:459`); a power failure during the very first
`timerFlashErase` (`:1516`) can leave an image that looks complete; a name
that resolves to address 0 ends the attempt without a report
(`iotgo_pconn.c:804`); the
production line gets its OK before `devInitDeviceConfig` has stored the
configuration (`iotgo_factory.c:300`, `:304`); subscribing again does not
report the state again, and the two kinds of pairing are reported under each
other's names (`FWTRX_TC.c:970`).

## 6. Not modelled, and the plan

What is left that could be modelled, in order:

1. *Commands of the MCU*: the limit of requests a minute (`tcreq_max`,
   `flowControl`) and the settings that a command saves, and the debouncing of
   the key. `McuRelay`, `StateReports`, `LocTimer` and `Pairing` have the
   commands that reach other components.
2. *Kinds of packages*: which fields make `parseTypeOfIoTgoPkg` take a package
   for which answer or request. It needs a model of what the server sends,
   of which the repository has none.

Left out for good: the status LED and JSON formatting (output only), the older
timer service (`iotgo_timer.c`) and the device `FWSW_01` (not started, or not
part of the firmware that is built), failing `malloc` (but where it decides
the course of the production), memory leaks and buffer overruns (no memory in
the models, but for the reader's buffer), the SDK and third party libraries
(external; seen through their use).

Most of the repository is of the last kind: the vendor's lwIP, its example
projects (`sdk_v2.0.1/examples`) and its headers make up more than four fifths
of the C code and are not linked from, or are only called by, the firmware in
`sdk_v2.0.1/app`. So the models cover only a small share of the repository's
lines, but about half of the firmware's own core (`app/user`, `app/device`,
`app/driver/uart.c`, `app/addition/Spro.c`, without the parts named above).
