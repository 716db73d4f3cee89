# Verification of the sputtering control panel

TLA+ models of the firmware modules, the CAN flash tool and the manager, with
model-checking runs and proofs. `PROJECT.json` lists the runs, the theorems and
the source lines every definition models.

## The system

Firmware modules on RP2040 boards (pumps, gauges, monitor, two bridges) share
a CAN bus. A Raspberry Pi runs the manager, which reaches the bus through the
SPI-CAN bridge and serves browsers. A host can flash any module over the bus,
through the USB-CAN bridge.

| Component | State it keeps | Operations | Hard part | What makes it correct |
|---|---|---|---|---|
| CAN receive ring, `bsp/pico/src/can_bus.c` | slots, two indices | interrupt writes, main loop reads, re-initialisation | interrupt between any two stores | it is a drop-oldest queue |
| Flash target, `shared/src/flash_can.c` | session, staged image, flash | BEGIN, DATA, FINISH, COMMIT, ABORT, BOOTSEL, REBOOT | any frame at any time, page arithmetic, power failure | only whole verified images are installed |
| Bootloader, `shared/src/bootloader.c` | magic in a scratch register, idle deadline | request, run, time out | a session suspends the timeout; the application runs the same handler | it is left in time, and a request is honoured once |
| Flash host, `tools/can_flash.py` | offset, sequence, confirmed progress, packet buffer | control retries, DATA window, FINISH probe, resynchronisation | lost, late, stale statuses; retries of what was done | it ends; success means installed |
| USB-CAN bridge, `modules/usb_can_bridge` | packet parser, byte budget of a turn | forward both ways, TX_FAILED | loss in either direction; a dropped byte desynchronises the parser | order is kept, damage is bounded |
| SPI-CAN bridge, `modules/spi_can_bridge` | queue of 32, pending status | full-duplex exchange, transmit with retry | answer chosen before the request is read, FIFO overrun | no answer for another |
| Manager transport, `manager/scp_manager/can.py` | lock, kept frames, statuses | send, receive_loop | coroutines share one bus without request ids | results are true, frames are kept |
| Manager state, `state.py`, `app.py` | presence, last command, log | ingest, submit, refresh | timeouts against frames, awaits | what is shown follows the bus |
| Web server, `server.py`, and its page `static/index.html` | queue per browser; the page's modules and plots | broadcast, snapshot, apply | slow browsers, reconnections, restarts | the page ends with what the manager knows |
| Roughing pump, turbo pump, ion gauge: panel switches | debounce candidate, outputs | debounce, SET_SWITCH, events | bounces, long turns, remote against physical switch | the output is as last asked, the report true |
| Pirani and ion gauge: readings | display unit, last connection | sample, report, change the unit | suspended by a flash session | the units agree |
| Monitor | encoder counters, tabs and settings, calibration, unit command, table of modules | interrupt, UI, CAN, calibration | interrupt against UI, sessions, power failures | no step lost, calibration kept, units and presence right |

Interaction is by CAN frames (`shared/src/can_messages.c`, ids from
`protocol.c`): heartbeats every 500 ms, events, commands, and the three flash
ranges. Every module runs `scp_flash_can_target_handle_can_frame` on each
frame its main loop takes from the ring. Nothing is acknowledged except flash
frames and, on the SPI link, transmissions. Within a module the only
concurrency is an interrupt; in the manager, coroutines that switch at an await.

## Modules

| Module | Models | State and actions |
|---|---|---|
| `DropOldestFifo` | what readers of the ring rely on | `Put`, `Get`, `GetNothing`, `Reset` on a sequence |
| `CanRxQueue` | `can_bus.c` | one action per store to shared memory. `RxMakeRoom`, `RxStore`, `RxPublish` are `scp_can_rx_cb`; `TryRead...` are `scp_can_try_read`; `InitHead`, `InitTail` are `scp_can_init`. `irq_pc`, `main_pc` are the two control points; the main loop cannot run inside the interrupt |
| `FlashTarget` | `flash_can.c` | one action per command, one per byte staged, one per sector erased or programmed in the copy. `session` holds what `flash_session_reset` clears |
| `Bootloader` | `bootloader.c` and the `main` that calls it, with `FlashTarget` | `at` is the program that runs, `requested` the magic in the register, `idle_left` the deadline. `Enter`, `NotRequested`, `Leave`, `Tick` are its loop; `Taken` any frame either program hands to the flash handler |
| `FlashTransfer` | `can_flash.py`, the USB bridge and the bus, with `FlashTarget` | `host` is the locals of `flash_image`; `stage` and `waits_for` say where it is. Each wait ends in `Hear` or in a timeout; the operators between them are the code that follows a wait. `patient` is chosen once: waits end only when nothing more comes, or at any time. The link loses frames and does not garble them: that is `UsbBridge` |
| `UsbBridge` | the host's bytes through the bridge's parser | `ReadByte`, `DropByte`, `NothingToRead`, `NextTurn` are `main`; `Push` is `usb_packet_parser_push`, `Handle` is `handle_usb_packet` |
| `SpiManager` | `can.py` and `modules/spi_can_bridge` | `Transfer` is one packet each way; `SendRequest`, `Poll`, `PollFails` are `send`, `Drain` and `Receive` are `receive_loop`; `TransmitEnds` ends the bridge's retries |
| `Manager` | `state.py`, `app.py`, and what modules send | `modules`, `command_log` are those of `StateStore`; `Submit` and `SendEnds` are `submit_command` before and after its await; `Maintenance` a turn of `maintenance_loop` |
| `WebServer` | `server.py`, the messages of `state.py` and `app.py`, the page | `known`, `history` are those of `StateStore`, `queue` that of a session, `shown` and `plotted` the page's; `forgotten` counts the samples a restarted manager has lost. What ingests a frame also queues its messages; `SendFrame` is the sender, `Receive` the page |
| `PumpSwitch` | the panel switches of `modules/roughing_pump`, `turbo_pump` and `ion_gauge`, and the switch value the manager shows | `module` is which of the three it is. `last_state`, `candidate_state` are the locals of `main`; `Start` is `main` up to its loop, `Sample` and `Debounce` the debouncing, `Drain` the loop over frames. The roughing pump debounces before it drains, the others after. `Move`, `Command`, `Tick` come between any two. `kept` and `past_drain` are `SpiCanBus` on the way of the events: `Keep` is a `send` that keeps a frame, `DrainKept` and `Receive` are `receive_loop`, which may take a newer event before a kept one, `Overwrite` is a full queue |
| `MonitorDisplay` | `touch_calibrator_display.c` | `step_delta`, `click_pending` are shared with the interrupt (`Step`, `Click`); `pc` has a value for each load or store of them. `Navigate`, `Calibrate`, `Touch` are the task handler |
| `Monitor` | the monitor's `main.c`, a module it hears, gauges it commands, with `MonitorDisplay` | `Drain`, `TaskHandler`, `TakeUnit` are a turn of the loop; `row` is the entry of the table of modules, `on_its_way` the unit commands; `LoseUnit` is a gauge's full ring, `ManagerUnit` a unit chosen on the manager's page |

Each of `CanRxQueue`, `FlashTarget`, `Manager`, `PumpSwitch`, `Monitor` and
`WebServer` has a module of proofs that EXTENDS it. `FlashUpdateProofs` is about
the two modules that extend `FlashTarget`, `FlashTransfer` and `Bootloader`;
`BridgeProofs` about `SpiManager` and `UsbBridge`, which share nothing: the
specification of `UsbBridge` is `StreamSpec`. A definition
called faulty in its comment is a plausible bug, next to the definition it
replaces; nothing uses it, and with it the property named in `PROJECT.json`
is violated.

`FlashTransfer` and `Bootloader` EXTEND `FlashTarget`: the frames are handled by
the target's own actions. `Monitor` EXTENDS `MonitorDisplay`. `CanRxQueue`
instantiates `DropOldestFifo` with a refinement mapping. `Manager` takes
frames in the order in which the manager ingests them; that this is not always
the order of the bus is the subject of `SpiManager`, and `PumpSwitch` follows
what it does to the events of a switch.

## Runs

| Run | Question | Bounds |
|---|---|---|
| `can_rx_queue` | is the ring a drop-oldest queue, whatever the interrupt interrupts? | 4 slots, 4 frames, symmetric |
| `flash_target` | is an installed image always whole and verified, from reset to reset, and is the bootloader left? | below |
| `flash_transfer` | does a transfer end, and only then report success when the image is in place? | image of 4 frames and 2 pages; 2 losses with patient waits, none with impatient ones |
| `flash_probe_leak` | finding 1 | 1 loss, patient waits |
| `usb_bridge` | what does a dropped byte cost? | packets of 6, budget of 12, 54 bytes |
| `spi_manager` | are results true, and frames kept? | 2 commands, 4 frames, both queues of 2 |
| `spi_manager_order` | finding 2 | same |
| `manager` | does what is shown follow the modules? | 2 modules, 2 commands, 2 events |
| `manager_silent` | finding 3 | same |
| `web_server` | does a browser end with what the manager knows? | 2 modules, queue of 3, 4 updates, 2 disconnections or restarts |
| `pump_switch` | is the output what was asked last, and is that what is shown? | 3 modules, 3 movements, 2 commands, 1 restart, event lost or event kept aside |
| `monitor` | do inputs, calibration, units and presence end right? | 2 tabs, 3 settings, 2 points, 4 inputs or faults, 1 gauge |

Why the bounds are enough.

- *Ring.* Four slots are the fewest for which empty, full, one free and a wrap
  are all different. The proofs are for any length.
- *Flash target.* Frames of 3 bytes, pages of 2 and sectors of 4 make a frame
  span pages and a page end at any byte of a frame, as 6 does not divide 256.
  Sizes 0 and 9 are refused; 1 and 7 end inside a page, 7 inside the last page
  of the staging area. Sequence numbers wrap at 2. The proofs are for any
  geometry.
- *Transfer.* Two frames make a window, so that a loss can fall first or last
  in one. Three sequence numbers for four frames: the first and the last share
  one, as frames 256 apart do, so that the host can be ahead by a whole turn. A
  frame of another place may then be staged, whole (`StagedFrames`), and the CRC
  of FINISH refuses it. The proofs are for any number of frames, sequence
  numbers and losses. `LinkCapacity` bounds the statuses in
  the host's serial driver. A patient wait times out only when nothing more
  is coming, which the timeouts of 0.25 s to 20 s justify; an impatient one may
  end at any time, so that a late answer meets a later request. The losses that
  can fall in an impatient transfer (`LossLimit`) are none: it is a transfer
  in which nothing goes wrong but the clock.
- *Bootloader.* One tick of idle time: a frame falls before, at and after the
  deadline. A tick may come between any two steps, hence any number of frames
  in one. The proof is for any timeout.
- *USB bridge.* A packet of 6 bytes has the two magic ones, type, flags and two
  free ones; a budget of 12 is two packets, as 128 is eight. 54 bytes are nine
  packets, in which three bytes can be dropped. All packets carry the same free
  bytes, each of them a first magic byte, a second or another. `DamageBounded`
  is about data that do not look like the beginning of a packet even with one
  byte missing (`Clean`); with data that do, the parser can be misled for
  longer, which nothing in the code excludes.
- *SPI.* Four frames overflow the bridge's queue and `_rx_queue`, of two each.
  `BusyTransfers` is what the host can clock while the bridge retries
  for 2 ms. A packet takes 128 us at 1 MHz, and 16 of them 2.048 ms, hence
  fewer than the 16 idle packets of `send`: the assumption `BusyTransfers <
  IdleTries`. One late exchange skews the link for good, so 2 of 3 do.
- *Manager.* A tick is half a second, one heartbeat period. The timeout is 4
  ticks and the refresh period 2 in the code; the run scales them to 2 and 1,
  and ages stop where no comparison tells them apart. An event is a switching,
  a plugging, a lost frame or a restart.
- *Web server.* A snapshot is two messages and a reading two more, so that a
  queue of three overflows within one reading; one message is in the transport.
  The manager keeps three samples and the page two: either limit is reached
  with four. The run stops when its updates are used up (`CHECK_DEADLOCK
  FALSE`): a manager nobody sends anything to has nothing to do.
- *Pump switch.* Three movements are a bounce and a movement for good, or there
  and back and there again; two commands allow one on either side of a
  movement. A debounce time of two ticks lets a movement fall before, within
  and after it. One fault is an event kept aside by a command, which a newer one
  overtakes, an event lost or a restart. The proofs are for any of these numbers.
- *Monitor.* Four inputs or faults suffice for two steps and a click that race
  with one turn, or a choice of a unit, on the monitor or on the manager's page, a session, a lost
  command and a restart in any order; with two tabs the second is the settings, with two points a
  calibration can be interrupted between them. One gauge, because `UnitsAgree`
  speaks of each gauge by itself and the loop over the two does not stop at a
  refused frame. The table's timeout is one tick instead of three.

Assumptions on hardware. At most one frame completes between the two adjacent
stores of `scp_can_init` (47 us of bus time against two instructions). Flash
cells programmed without an erase are corrupt unless unchanged. CRC-32 has no
collisions. A power failure loses RAM and keeps flash. The monitor's sector for
its calibration takes a record whole or not at all: a record with a wrong checksum
is none.

Fairness. The host's program, the target's main loop, the bridge's loop and
the manager's event loop run whatever is ready: weak fairness on `HostStep`,
`TargetStep`, `TransmitEnds`, `Drain`, `Receive`, on the steps of each
command, on time, heartbeats and maintenance, on `Main` of the modules with
switches. In `Monitor`: on its main loop (`Turn`), on time, on the other
module's heartbeat and on each gauge's handling of what reaches it; no flash session
has to end, and no calibration. The lock is first come first served as in
asyncio, modelled as a queue and not as fairness. Nothing is assumed of losses,
arrivals, browsers, users and switchings, nor of commands from the manager's page. `RunningShownOnline` and
`PresenceFollows` need no assumption on losses because their number is bounded.
`Bootloader`, `UsbBridge` and `WebServer` state no liveness: `LoaderLeaves`
bounds the time in the bootloader instead, and the other two say what the
browser or the bus ends with whatever is delivered.

## What the properties say

- `ImplementsFifo`, `RingInv`: no frame is torn, repeated or out of order;
  only the oldest is lost.
- `StagingConsistent`: counters, page buffer, running CRC and flash tell the
  same story. `ReadyImageStaged`: COMMIT installs only what FINISH checked.
  `BootImageIntact`: a running module has a whole image, the last one
  committed. `ApplyConsistent`: the copy never reads what it wrote.
  `NoWriteFailure`, `SessionNotPreempted`: nobody else ends a session.
- `LoaderLeaves`: a request is honoured once, and a loader that hears nothing
  goes on within its timeout unless a session is open or an image is staged.
- `ConfirmedReceived`: the host never believes in more than was received,
  which its resynchronisation depends on. `StagedFrames`: what the target
  stages at a place is one whole frame of the image with the sequence number of
  that place; that it is the frame of that place is for the CRC to say.
  `DoneInstalls`: success is true. `LosslessSucceeds`: nothing fails while
  nothing is lost. `TransferEnds`.
- `DamageBounded`: for data that hold nothing like the beginning of a packet
  (`Clean`), a dropped byte costs two packets and one garbled frame at most, which the host's resynchronisation copes with, and never a bitrate.
- `StatusBelongs`, `CommandTruthful`: no command takes the status of another.
  `FramesConserved`, `OvertakenOnce`, `NewestIngested`: what becomes of
  frames. `CommandsEnd`.
- `SilentHeardIsOffline`, `OneLossTolerated`, `RunningShownOnline`: the
  presence shown follows the heartbeats, both ways. `LogAgrees`: the log and
  the module's last command agree although results arrive in any order.
- `ViewCurrent`: what a connected page is going to show of a module is what the
  manager knows of it, unless the queue dropped the newest update of that very
  module; a second snapshot, or one that meets updates, undoes nothing.
  `HistoryTrue`: the plotted samples never repeat or go back, and those of this
  run of the manager, counted from the newest, are there one by one as far as
  the manager and the page remember, unless the queue of this connection dropped
  some. It says nothing of what lies between the samples of a former run, which
  the page still draws, and this run's: see the limits below.
- `SwitchOverridesOlder`: once the pump has followed the switch, a command sent
  before that movement cannot undo it, because every turn empties the ring
  before the next sample. `CommandStands`: a command that finds the switch at
  rest is not undone by the debouncer. `SwitchObeyed`: bounces and turns of any length delay a
  movement and never lose it. `NewestReportTrue`: the switch value that is ingested
  last is that of the output, whatever became of older events, unless the newest
  event was lost or was ingested before an older one that `send` had kept.
- `InputConserved`: an encoder step is acted upon once, and lost only between a
  load of the counter and the store that follows it; a click only to one that
  waits. `CalibrationKept`: wherever the power fails, the next start uses the
  newest calibration or asks for one. `UnitsAgree`: a gauge ends with the unit
  selected on the monitor unless the last frame to it was refused or lost, by its
  ring or its restart, or the manager's page chose a unit after that frame.
  `PresenceFollows`: modules that stay on come back after a flash session, and
  modules that stay off go.

A power failure in the copy (`flash_can.c:179-195`) leaves a module that does
not start; the model shows it as mode `dead`, revived over USB only, and
`BootImageIntact` excludes just these states. A transfer may fail after few
losses: the loss of the first frame (`can_flash.py:655`), or of the PROGRESS
that follows the last, when the FINISH meant as a probe succeeds (`:474`).
`TransferEnds` says that it then fails cleanly. A target left with an open
session refuses ABORT and must be power-cycled, as `can_flash.py:415` prints.

Limits that are in the models and that no property excludes: a command that
comes while a movement is being debounced lasts only until the movement is
accepted (`main.c:193-197`); a switch event that is lost is not repeated, and one
that overtook an older event is undone by it (`can.py:160`, `:243-255`), so that
the value shown stays wrong until the next change (`main.c:39`; a command for the
state the pump is in sends no event, `:219`); a unit command that a gauge misses
is not repeated (monitor `main.c:274`), and the monitor does not follow units
chosen on the manager's page (`index.html:302-317`, `app.py:77-80`, pirani
`main.c:54-66`); a page keeps modules of a former run of the manager until they
are heard again (`index.html:454`), and samples of a former run too: a restarted
manager sends no history while it has none (`server.py:185`), and new samples are
appended to the old (`index.html:445-450`), so that the plot lacks what was taken
while the page was away, until the page connects again.

## Findings

1. *Stale IMAGE_INCOMPLETE* (`flash_probe_leak`). The comment at
   `can_flash.py:440-441` promises that a probe consumes both of its statuses. With
   one DATA frame lost and no wait cut short, the next frame's BAD_SEQUENCE and
   PROGRESS are read in one piece and the PROGRESS stays in the buffer; it ends
   the first wait of the probe, whose own statuses stay behind when the deadline
   passes. The effect is a needless resynchronisation at worst.
2. *State that is not live* (`spi_manager_order`). `receive_loop` may ingest a
   frame before an older one that `send` kept.
3. *Silent module shown online* (`manager_silent`). The timeout does not look
   at modules that were announced by `connection_detected` alone.

## Proofs

For every value of the constants that meets the assumptions of the module.

- `CanRxQueueProofs`. `RingInv /\ TypeOK` is inductive: the interrupt runs only
  while no read is in progress, and the slot it fills lies outside the queue.
  `RingInv` says so for each control point, without which the callback could
  publish a slot the reader is at. `RingImplementsFifo` shows that each store
  is a `Put`, `Get`, `GetNothing`, `Reset` or a stutter of the abstract queue:
  a frame is queued at `RxMakeRoom`, read at `TryReadCopy`. The lemmas are
  about indices modulo the length.
- `FlashTargetProofs`. `Inv` joins `TypeOK` to the five named invariants, which are not
  inductive one by one: `ReadyImageStaged` needs the cells of
  `StagingConsistent`, the copy needs `ReadyImageStaged` to be installing the
  verified image, and `BootImageIntact` needs the staging area to lie beyond
  the application (from `LayoutAssumption`). One lemma per action, joined in
  `NextInv`. `NoWriteFailure` and the action property `SessionNotPreempted`
  follow from `Inv`.
- `FlashUpdateProofs`, the transfer. `TransferInv` looks at the link as a set: what may
  still reach the target (`Sent`) and the host (`Heard`). Its parts follow the
  stages of `flash_image`. Until BEGIN is answered nothing of this session can
  be on the link (`EarlyInv`); from then on the target's count only grows, so
  that every report under way, however old, is at most what was received
  (`DataInv`); before COMMIT only DATA and FINISH are under way
  (`UncommittedInv`), so that COMMITTING answers this COMMIT and nothing behind
  it on the link undoes it (`CommitInv`). `BetweenFrames` says which frame the
  target is in the middle of, byte by byte: it is what makes `StagedFrames`
  inductive. `Inv` of `FlashTarget` is part of it, kept by the lemmas on that
  module's actions. Losses and timeouts only take away from what may be heard
  or add a TX_FAILED. `ConfirmedCorrect`, `StagedCorrect` and `InstallCorrect`
  follow, for any number of losses and retries and any link capacity.
  `LosslessCorrect` needs a second invariant on top, `SmoothInv`: with nothing
  lost and patient waits, one answer at most is under way and it is the one
  awaited, the frames on the link are those due next in order, and host and
  target count the window alike; hence something is always coming and no wait
  times out (`SmoothNeverLate`). Its assumption `Fits`, that the image fits
  the staging area, is the condition under which BEGIN is accepted.
  `TransferRefinesTarget` is the refinement: a transfer is a behaviour of
  `FlashTarget` if the image's size and frames are among those that module lets
  a host send (`Known`); `TargetIntact` gives the target's own promises
  without that assumption.
- `FlashUpdateProofs`, the bootloader. `LoaderImplementsTarget` is a refinement: every step of a
  module that goes from reset to reset through its bootloader is a step of
  `FlashTarget` or a stutter (leaving the loader is, to the handler, a power
  failure while idle). All theorems on `FlashTarget` are so theorems on the
  module; `ModuleBootImage` draws the most important one. `LoaderLeavesInTime`
  needs that the ticks heard nothing in and those left of the deadline add up
  to at most the timeout (`BootInv`).
- `BridgeProofs`, the SPI bridge. `StatusInv` is the heart: the bridge owes at most one
  status, to the one command that polls; while it transmits, the polls made
  equal the transfers it slept through; and when it owes nothing, the command that
  polls was not transmitted. With `BusyTransfers < IdleTries` a send that
  gives up is so never wrong. `HolderInv` adds that only the head of the
  lock's queue polls. `CommandReported` and `StatusBelongsToHolder` follow for
  any number of commands, and for a link that is skewed for good. `NoFrameLost`
  and `OvertakenOnceOnly` rest on `FrameInv`: the frames ingested, kept in
  `_rx_queue` and held by the bridge are apart, and with those a full queue gave
  up (`dropped`, and `evicted`, a history) they are all that arrived
  (`FramesInv`); the bridge and `_rx_queue` hold theirs in the order of the bus
  (`OrderInv`); and each kept frame is older than one ingested frame at most,
  than none once `receive_loop` is past its drain (`OvertakeInv`).
- `BridgeProofs`, the USB bridge. `DamageIsBounded` follows from `StreamInv`,
  which says where the parser is in the stream and what it has cost so far. With
  q packets of the stream behind it, the parser holds the first bytes of packet
  q (`Aligned`); or those without one that was dropped, so that it is going to
  take a byte of the next packet for its last (`Short`); or it looks for the
  next packet after a lost one (`Hunting`); or it keeps one byte of a lost
  packet when the next comes (`Late`). Each drop pays for two packets and one
  garbled frame: `Short` has reserved the packet it is going to garble and the
  one after, `Hunting` the rest of the packet it is in. No
  second byte is dropped while `Short`, because only a turn that used up its
  budget drops one, and a budget is at least a packet (`BudgetAssumption`).
  `Clean` keeps the bytes left over in `Hunting` and `Late` from looking like the beginning of a packet.
- `WebServerProofs`. Both properties are about a page that has received
  everything under way, which `After` computes by recursion over the messages.
  `BrowserIsCurrent` needs that each module that was heard and not overwritten is
  `Settled`: the last message under way that touches the module tells what the
  manager knows, or none touches it and the page shows that already. This
  survives what the sender takes from the front, what a full queue drops (which
  marks the modules it mentions as overwritten) and snapshots in any number.
  `GraphIsTrue` needs that every sample under way is later than all before it and
  than all drawn (`OrderInv`); that a connection that missed a sample has no
  history queued that would make up for it (`GapInv`); that the history holds
  this run's samples, or the newest of them (`RunInv`); and that what the page is
  going to draw ends with this run's samples one by one (`DrawInv`). The last two
  are the same statement of two lists (`Remembers`), which appending a sample and
  cutting either list to its limit, in whatever order, keep.
  What `After` does to sequences of any length is proved by induction over the
  number of messages. The library's induction theorems are out of reach; a set
  of numbers that is not empty has a least element (`WFMin`) does the same, for
  the set of numbers of messages for which the statement fails.
- `ManagerProofs`. `SilentGoesOffline` needs that last seen is at least as new
  as the last heartbeat and that a module online was seen within a timeout
  and what has passed since the last refresh (`SeenInv`). `LossIsTolerated` needs
  the age of a heartbeat plus the time to the next one to be at most a tick
  more than the events so far (`BeatsInv`). `LogStaysConsistent` needs that
  logged commands are done (`LoggedDone`) and what a bounded append keeps.
- `PumpSwitchProofs`. `MovesOrdered` says that the ring holds no command older
  than the candidate while a turn samples and debounces, since the turn
  before has emptied it; hence none older than what is accepted. `NewestReportHolds`
  is inductive with the types: one lemma per step of an event's path to the
  manager shows that the last event ahead of `shown` stays the last, or that
  `outdated` says why not.
- `MonitorProofs`. `InputIsConserved` needs, for each place between a load and
  a store, what the counter is going to be (`Drift`); `CalibrationIsKept` that
  a calibration being saved is never the empty one.

Every invariant of a passing run is proved, and so are the action property
`SessionNotPreempted` and the refinement `ImplementsFifo`. Only model-checked:
liveness (`TransferEnds`, `CommandsEnd`, `NewestIngested`, `RunningShownOnline`, `CommandStands`, `SwitchObeyed`,
`UnitsAgree`, `PresenceFollows`), which the prover does not support under
fairness.

## Not modelled

- `monitor_splash_jar.c` (12,806 lines of image data, most of the repository's
  lines) and the drivers, fonts and drawing of the displays: pure output.
- The curves of pressure and current: float arithmetic.
- Builders and decoders of frames, and pin look-ups: stateless; their results
  are the inputs of the models. `scp_module_run` has no caller.
- HTTP, arguments, progress bars, the pin checker, the shell scripts apart from
  the USB flash, the IP display, SocketCAN and the mock bus.
- Of the monitor, its event log, statistics and chart; of the gauges, their
  sampling. Both only feed drawing and events whose arrival is in `Manager`.
- The bootloader's bus, a local variable that stays registered with the
  interrupt until the application initialises its own (`can_bus.c:7`): what the
  interrupt then overwrites depends on the layout of the stack.
- Durations, apart from the order of timeouts.

## Plan

The modules were written in the order of what a failure costs: the ring and
the flash target, on which every module depends; the transfer; the two ways to
the bus; the manager; the switches; the browser; the monitor. What is left to
prove is liveness, which waits for a prover; what is left to model:

1. The gauges' and the turbo pump's sampling and connection events, suspended
   by a flash session, against the state the manager keeps of them.
2. The monitor's event log and chart.
