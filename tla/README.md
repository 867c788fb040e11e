# A verification project for MFoES02w

MFoES02w is a handheld Linux computer built around an application (`src/src`), a microcontroller "northbridge"
that owns the panel hardware (`src/Firmware/northbridge`), two daemons that carry USB traffic and updates
(`src/services`), and the libraries they share (`src/libs`). This directory holds TLA+ modules of the parts of
it where several threads, interrupts, processes or machines meet, TLC configurations that check them on small
instances, and TLAPS proofs for every instance.

`PROJECT.json` is the index: components, runs, the code lines each definition stands for, the hazards and the
properties that cover them, and the defects each property has been tried against.

## 1. Inventory

### Northbridge firmware (FreeRTOS, `configNUMBER_OF_CORES` 1)

| component | state | operations | hard part |
|---|---|---|---|
| `i2c_bus.cpp` | command queue, pool of transaction slots (rendezvous semaphore, `completed`, `abandoned`, result, bytes) | blocking reads and writes through `run_sync`, asynchronous writes through `post_async`, one worker | a caller's timeout races the worker's completion; a slot must be freed exactly once |
| `dspi.cpp` | transmit and receive queues, `g_next_tx`, one staging buffer, two receive buffers, request line | `dspi_send`, `dspi_receive`, `dspi_task`, `dspi_dma_isr`, `resync_if_stalled` | task, interrupt and DMA share buffers without a lock while another machine owns the clock |
| `dspi_cmd.cpp` | handler table | receive, handle, reply | a reply may not fit the queue |
| `main.cpp`, `selftest.cpp`, `buzzer.cpp` | LED mask, panel and encoder tasks, self test | events out, commands in | two tasks write the LEDs |
| `pcf8575.cpp`, `encoder.cpp` | debounced pins, detent count, event queues | interrupt or poll, debounce, queue | events lost at a full queue |
| `ds3231.cpp`, `build_time.cpp` | clock registers | BCD conversion, seeding | boundaries of the calendar |

### Host side of that link

| component | state | operations | hard part |
|---|---|---|---|
| `libs/hwinterface/northbridge.cpp` | send queue, one pending request, link thread | `send`, `request`, `exchange`, `parse`, `run`, `stop` | retries, late replies, shutdown while blocked |
| `src/northbridge_link.cpp` | mirrors of panel, encoder, LEDs, clock | events through the action queue, requests at start-up | mirror against a lossy link |

### USB

| component | state | operations | hard part |
|---|---|---|---|
| `services/usbd.cpp` | endpoints, table of channels, each with two rings and three threads | OPEN, DATA, CLOSE on bulk endpoints, client sockets | channels closed and reused under running threads; partial writes; lost endpoints |
| `hwinterface/usbd_client.cpp` | socket, receive thread | length-framed send and receive | framing after an error |
| `libs/usbproto` | parser, assembler, session, broker | resynchronise, relay | truncated and glued records |
| `tools/usb_channel.py`, `ota_usb_upload.py`, `DTS_videotransfer.py` | table of channels, their queues, reassembly buffer | open, send, receive, close; the receive thread's dispatch | a tool and the receive thread change the table between each other's looks |
| `services/otad.cpp` | update session, staging file, installed files | BEGIN, CHUNK, END, verify, install | interruption at every step |

### Application

| component | state | operations | hard part |
|---|---|---|---|
| `app.cpp` | action queue, one deferred action, threads | defer, main loop, `stop` | several producers, teardown |
| `usb_handling.cpp` | video frame under `frameMutex` | receive tiles, give up | sharing with the renderer |
| `drawreplay_link.cpp` | one-deep slot | publish, send, reconnect | a forced keyframe lost |
| `libs/uisys`, `gt911.cpp` | touch contacts, widget states, dialogs | route events, debounce, hold | a release routed elsewhere |
| `southbridge.cpp`, `ring_buffer.h` | lock-free ring | push, overwrite, pop | two threads move one index |
| `libs/libgfx/GFX.cpp` | pixels, up to three draw buffers | lines, shapes, text, bitmaps; swap, attach, detach | one shape, several code paths; a pointer into memory that was freed |
| `libs/libgfx/DrawReplay.cpp` | recorder's and viewer's drawing state | record a call, replay it | two copies of one state |
| `ui.cpp`, widgets' drawing | flags of what to draw | plan a frame, draw it twice | flags cleared after the look |

### Others

`Firmware/pwsw` (the power switch's pulse protocol), `pwm.cpp`, `gpio_sysfs.cpp`, `i2c_dev.cpp`, `ads1115.cpp`,
`74hc165.cpp`, `linfo.cpp` (stateless register access), `hostTools`, `targetTools` and the bench tools.

### How they interact

    App  --nbSetLeds/request-->  Link (northbridge.cpp)  ==SPI, host clocks==>  dspi.cpp --> dispatcher_task
    App  <--action queue--       Link                    <==SPI, IRQ line ====  dspi.cpp <-- panel/encoder tasks
    dispatcher_task, panel_task, clock --run_sync/post_async--> i2c_bus worker --> PCF8575, DS3231
    App  --unix socket--> usbd ==bulk USB==> host tools;   host uploader ==> usbd --> otad

The core is the I2C bus, the SPI slave and the SPI master, since everything the user presses or sees on the
panel passes through all three, and the update, whose failure leaves a device that needs its card taken out. The
proofs began with these and go on with the parts in which threads share state: the USB daemon, the host's channel
library, the broker, the audio ring, the draw buffers, and the small machines of the northbridge.

## 2. What each component must do

* I2C bus: every slot is free, held by one caller or in flight; a caller reads only the result of its own
  command; no slot is lost whatever times out.
* SPI slave: the interrupt never arms a half-built frame; a frame that landed is stable while it is validated;
  frames go out in order; no queued frame waits behind a released request line.
* SPI master: an answer matches its question; a resend does not undo a later command; `request()` and `stop()`
  return; the queue drains.
* Panel: the application's mirrors agree with the hardware once the link is quiet.
* usbd: a channel's bytes stay in order and inside their frames; a closed channel is released and only then
  reused.
* OTA: what is installed is what was verified; an interruption leaves something that boots.
* Clock: a good clock chip is never taken further from the true time. The code keeps this for every clock but one
  that merely looks plausible (section 6).
* Byte streams: what comes out does not depend on how the bytes were cut into reads.
* Sharing: no client of the broker sees a gap, no frame on the pipe is mixed with another; the host's open
  channel is the one that is served.
* App: it ends when it is told to; what the USB thread has to say is said.
* Picture: the panel, and a viewer that may come at any time over a link that breaks, end up showing the current
  state; a recorded frame drawn again is the frame; drawing goes to memory that reaches the panel.
* Touch: every press has one release; nothing stays held by nobody; what is typed goes to the focused field.
* Power switch: pulses and presses are taken for what they were.

## 3. Modules

| module | code | uses |
|---|---|---|
| `I2cBus` | `i2c_bus.cpp`; priorities of `main.cpp` | |
| `I2cBusProofs` | theorems about `I2cBus` | `I2cBus`, `TLAPS` |
| `Dspi` | `dspi.cpp`; the master's side from `northbridge.cpp` | |
| `DspiProofs` | theorems about `Dspi` | `Dspi`, `TLAPS` |
| `NbLink` | `northbridge.cpp`, `dspi_cmd.cpp`, the senders of `main.cpp` and `northbridge_link.cpp` | |
| `InterfaceProofs` | theorems about `NbLink`, `Touch`, `Screen`, `Typing`, `Shapes`, `Canvas` | `NbLink`, `TouchScreen`, `Drawing`, `Folding`, `TLAPS` |
| `Update` | what an update of the device promises (abstract) | |
| `Ota` | `ota_usb_upload.py`, `otad.cpp` | implements `Update` |
| `OtaProofs` | theorems about `Ota` | `Ota`, `TLAPS` |
| `Usbd` | `usbd.cpp`, `usbd_client.cpp`, the sending side of `usb_channel.py` | |
| `UsbdProofs` | theorems about `Usbd` | `Usbd`, `TLAPS` |
| `Panel` | `pcf8575.cpp`, `panel_task`, the dispatcher, the self test's LEDs, `northbridge_link.cpp` | |
| `Encoder` | `encoder.cpp`, `encoder_task` | |
| `Clock` | `rtc_task`, `ds3231.cpp`'s flags, the App's clock policy | |
| `Ds3231` | calendar and registers of `ds3231.cpp` | |
| `Southbridge` | `southbridge.cpp`, `ring_buffer.h` | |
| `PowerSwitch` | `pwsw.ino`, the pulses of `pwsw_ctltest.ino` | |
| `App` | `app.cpp`, `main.cpp`, `usb_handling.cpp` | |
| `Framing` | `usbproto.cpp`, the sizer of `DrawReplay.cpp`, the receive buffer of `usb_channel.py` | |
| `Broker` | `usbproto_broker.cpp` | |
| `HostChannel` | the table of channels of `usb_channel.py` | |
| `Replay` | `DrawReplay.cpp`: recording and replay | |
| `Raster` | `GFX.cpp`: which pixels a shape paints (operators) | |
| `Shapes` | one drawing call on each surface | `Raster`, three times |
| `Canvas` | `GFXcanvas`: five formats of an off-screen surface | |
| `Drawing` | an instance of each of the two | `Shapes`, `Canvas` |
| `Buffers` | `GFX.cpp`: the draw buffers | |
| `Remote` | `ui.cpp`, `drawreplay_link.cpp`, the viewer | |
| `Touch` | `gt911.cpp` | |
| `Screen` | `uisys` manager, buttons, sliders, dials, dialogs, who shows and hides the keyboard; the App's views | |
| `Typing` | what the keyboard, text edits and spin boxes write | |
| `TouchScreen` | an instance of each of the three | `Touch`, `Screen`, `Typing` |
| `MCI2cBus`, `MCDspi`, `MCUsbd`, `MCShapes` | instances of one module | |
| `MCOta` | runs `ota` and `ota_stale` | `Ota`, `Remote` |
| `MCNorthbridge` | runs `northbridge` and `drift` | `Panel`, `Encoder`, `Clock`, `Ds3231`, `Southbridge`, `PowerSwitch` |
| `NorthbridgeProofs` | theorems about `Panel`, `Encoder`, `Clock`, `Ds3231`, `Southbridge`, `PowerSwitch` | `MCNorthbridge`, `Folding`, `TLAPS` |
| `MCApp` | run `app` | `App`, `Framing`, `Broker`, `HostChannel`, `Replay`, `Drawing`, `Buffers` |
| `AppProofs` | theorems about `Framing`, `Broker`, `HostChannel`, `Replay`, `Buffers` | `MCApp`, `Folding`, `TLAPS` |
| `MCScreen` | run `screen` | `NbLink`, `TouchScreen` |
| `Folding` | theorems about `FoldLeft`, for any operator | `TLAPS` |

`MCNorthbridge`, `MCApp`, `MCScreen` and `MCOta` put modules that share no state side by side: `part` (`scene` in
`MCOta`) is chosen in the initial state, that module runs and the others stand still, so that a run checks the sum of
their state spaces and not the product. They are not a composition; where parts do interact, the interaction is inside
a module (`Panel` from the contacts to the App's mirror, `Remote` from the flags to the viewer's window, `Usbd` from
the host to the applications, `Ota` from the uploader to the disk).

`TypeOK` states the types of a module's variables (`I2cBus`, `Dspi`, `NbLink`, `Ota`, `Usbd`, `Panel`, `App`,
`Framing`, `Broker`, `Replay`, `Remote`); the others give them at their VARIABLES. Those of `I2cBus`, `Dspi`,
`NbLink` and `Usbd` are theorems; the rest hold on the instances below and are kept out of the runs' lists, which
ask what could be wrong.

A definition that "Next does not use", named in a module's heading, is a plausible mistake in that code; each
property has been tried against one and fails with it (`PROJECT.json`, "mutants").

### I2cBus

One action per step of `run_sync` between two points where another task may run: `Start` builds the command,
`Acquire` or `Busy` takes a slot or gives up, `Reset` clears the rendezvous, `Send` or `QueueFull` queues the
command or returns the slot, `TakeDone` and `Timeout` are the two outcomes of the wait, `GiveUp` is the critical
section after a timeout, `Drain`, `Collect` and `Release` finish. `Post` is `post_async`. The worker is
`WorkerReceive`, `WorkerExecute` (the transfer and the store of the result), `WorkerMark` (its critical section)
and `WorkerGive`. Bytes are abstracted to *which request they were received for*; that is all the properties
ask. `I2C_TXN_SLOTS`, the queue depth and the set of tasks are constants.

`CallersPreempt` says whether a caller may run between the worker's critical section and its `xSemaphoreGive`.
On one core with the worker above its callers, as `main.cpp:390-392` creates them, it cannot: the run and the
theorems about ownership take `~CallersPreempt`. With `CallersPreempt` the ownership property
`OwnerAfterCritical` fails (a late give completes the wait of the slot's next owner), so the priorities and the
single core are part of the protocol, although the comment at `i2c_bus.cpp:144` credits the critical section
alone.

### Dspi

A frame has `FrameChunks` chunks; one chunk is what the transmit FIFO prefetches. Chunk 1 is the header and
first bytes, which two frames may share; the others tell frames apart and hold the CRC, so a frame is intact
exactly when its chunks belong together. `Send(s)` is `dspi_send` in three steps; `Task` is `dspi_task` in the
steps the interrupt can fall between; `Isr` is `dspi_dma_isr`, during which no task runs but the DMA and the
master do; `Clock` is one chunk in each direction and the DMA's read-ahead; `MasterStop` is a transfer that
fails part way. `Tick` is the passage of the task's 20 ms. `g_tx_stage` is `Torn` from the moment `build_frame`
clears it until it is complete.

### NbLink

`request()` is `Arm`, `Send`, `Answered` or `TimedOut`, `Return`; the link thread is `Pop`, then `Transfer` or
`TransferFails`, `Parse`, `Loop`, `Wait`; `Stop` and `Join` are the two halves of `stop()`. The northbridge is
reduced to what `dspi.cpp` and `dspi_cmd.cpp` promise: intact frames in order into a bounded queue, executed in
order, answered if the reply fits. A transfer may lose a frame in either direction, or fail after the frame has
left the queue.

### Ota

The uploader and the daemon hold one session at a time over one channel. `HostStart` is `open_channel` and
`OTA_BEGIN`; `HostAcked` is `expect_ack` and whatever `run_ota` sends next; `HostFails` is a refusal, a closed
channel or the 60 s; `HostAborts` is the interrupt key; `HostClose` ends. The daemon's steps are those of
`run_ota_session` (`Begin`, `Chunk`, `Abort`, `LeaveLoop`, `Verify`) and of `apply_update` (`Unzip`, `Install`,
`InstallFails`, `Finish`, `Reboot`), in the code's order: success is acknowledged after the digest agreed and
before anything is installed. A packet arrives intact, fails its checksum, or passes it with an altered payload;
a channel is cut at any time (`Cut`) and power goes at any time (`PowerCut`). The package a zip belongs to
stands for its digest, so that two zips have one digest only if they are equal.

The file system has two views of each target: `disk`, what a reader sees, and `flash`, what is left after a
power cut. They are made equal by `sync` in `Finish` or, file by file, by the kernel at any time (`WriteBack`).
`Faults` names the failures of the device's own file system that a run admits: a short `fwrite` of a chunk,
`unzip` giving up half way, a copy that fails and says so, and a copy whose last flush fails and is not looked
at.

`Update` is the abstract specification: a file is replaced only by the accepted package's whole file, and the
device restarts of its own accord only when all of the package's files are in place for good. `Ota` implements
it under the mapping *target* = the digest of the session while it is being applied, *restarting* = the daemon
has called for the reboot; a power cut maps to a power cut. `disk` and `flash` map to themselves.

### Usbd

One channel of the daemon, the connections applications make to it one after the other, and the host. A
connection is numbered in the order of acceptance; an application that is refused comes back later as the same
connection. `Accept`, `Answer`, `Announce`, `Spawn` are `ipc_accept_thread`; `Read`, `ReadFails`, `Push`,
`Pushed`, `Deactivate`, `SayClose` are `app_reader_thread`; `Sleep`, `Fill`, `Loop`, `Send`, `Flush` are
`channel_tx_thread` with its two buffers; `Doze`, `TakeLength`, `TakePayload`, `TimesOut`, `Forward`, `Stops`
are `channel_rx_thread`; `Parse`, `WriteLength`, `WritePayload`, `Dispatch` are `usb_rx_thread`, with the two
writes of a frame kept apart; `Disable` and `Enable` are `ep0_thread`. The units of a ring are bytes of the data
and whole length prefixes.

Four facts of the code shape the model. `read_all` takes the end of a socket as a reason to try again, so the
reader of a departed application stays in `Read` for ever, unless unread messages reset the socket
(`ReadFails`). A CLOSE from the host clears `active` and signals nobody, so a thread may stay `"asleep"`;
`Channel::init` then initialises the condition variable it sleeps on, which POSIX leaves undefined and musl (the
target's C library) turns into never waking it: `"lost"`. A frame that a replug cuts stays in the reassembly
buffer (`stump`) and swallows the next. And the rings take what fits. `mishaps` records which of these has
happened (`"crowded"`: threads of two connections, or the receive thread in the middle of a frame, meet on the
channel; `"overrun"`, `"mixed"`, `"replug"`), so that a property can say what it is that must not have happened
for it to hold.

Left out: the other channels and the choice among them, an OPEN from the host and the ACK it gets (they change
nothing), the partial success of a write to the endpoint, and the leak of rings and sockets that
`Channel::destroy` would free but nobody calls. A write while the endpoints are closed fails as a whole.

### Panel

The panel from the contacts to the App's mirror and back to the lamps. `Scan(chip)` is one round of
`pcf8575_task` on one expander: two equal samples settle a pin, every pin that settled becomes an event, and an
event that does not fit is dropped. `PanelTask` is `panel_task` with its two writes of the LEDs kept apart from
its look at `g_led_state`; `Dispatcher` executes a command of the master; `SelfTest` lights the LEDs once.
`Arrives` and `Main` are the link thread's post and the main thread's action, with the seeding reply copied on
the main thread. Frames are lost both ways (`lost`). Two things are excepted by history variables: `told`,
whether the newest picture was sent and not lost, and `amiss`, whether an LED write failed or `panel_task` wrote
an older value over a newer one.

`KeepsUp` is the schedule of the two tasks: after the self test `panel_task` has emptied the event queue before
the expanders are scanned again, 10 ms later. During the test, while `panel_task` waits for it, the scans go on
and overrun the queue of three.

### Encoder, Clock, Ds3231

`Encoder` has the interrupt (`encoder_isr`'s table of transitions, its count of those that skipped a state, its
detents), the task that waits out the bounce and takes the count, the clamp to what the byte on the wire holds,
the queue that drops, and the button. The lines may move on before the interrupt reads them.

`Clock` has the chip with its oscillator flag, `rtc_task`'s seeding from the build stamp, and the App's adoption
of the chip's time and its hourly correction, between power losses of either machine and failing transfers. A
time is a tick; a tick before `SaneYear` looks unset. The northbridge may restart or lose its chip's battery at
any point, the Pi boots with what its file system last recorded, NTP comes and goes, and a system clock that NTP
does not hold drifts. `sound` says that the chip was seeded or found good and has kept its power since; `kept` says
that the App goes by a plausible clock that NTP does not hold. `RtcKeepsTime` compares, step by step, how far the
chip is from the true time before and after, while it is `sound` and not `kept`; `DriftNeverCorrupts` is the same
without the exception, which is what the code's header promises.

`Ds3231` walks the driver's calendar from 2000 to `LastYear` a day at a time and compares leap years, weekdays,
comparison and the register image (BCD, the century bit, 12-hour mode) with the count of the days.

### Southbridge

Every load and store of an index of the ring is a step of its own, as `push_overwrite`, `push` and `pop` have
them; `send_audio` and `reset` run in the caller's thread, the transmit thread sends frames or silence, and puts
a frame back when the peer is busy. `overwrote`, `crossed` and `disturbed` record that the oldest frame was
overwritten, that this met a pop, and that the ring was used from its wrong side.

### PowerSwitch

The ATtiny's `loop` and the delays it waits in, the sender's pulses and the button, in ticks of 30 ms, the
length of a pulse. The pulse protocol keeps its proportions (60 ms per pulse, 300 ms of silence after a command,
200 ms and 400 ms to tell commands apart); the button's seconds (`SAFELONGPRESS`, `CUTLONGPRESS`, the half
second's delay) are scaled down, as only their order matters. `clear` says that no pulse fell while the loop was
held up by the button; what a finger does to a command is excepted. A finger that comes back while the loop still
waits in a delay is not a new press to the code, and not here: the hold is one, from the first touch to the last
(`press`).

### App

`process`, the one deferred action, dialogs that call `process` again, the USB thread that gives up after 15 s
and posts its message, `stop` in a deferred action or in a signal handler on top of the main thread, its joins,
the restart. A draw after the graphics are gone is `"crashed"`. `early` says that a signal came between the
start of a pass and its last draw, or with a question pending, where `stop` returns into code that draws;
`EndsWhenAsked` excepts it. `overtaken` says that a deferred time-out message lost its slot to the question of a
button touched in the next pass; `TimeoutIsShown` excepts it. A second signal while `stop` runs is not modelled.

### Framing, Broker, HostChannel

`Framing` has the three loops that cut a byte stream: `FrameParser`, `StreamAssembler` with `DRRecordSize`, and
`_parse_rx` of `usb_channel.py`. One action per way an iteration can go: not enough bytes, a magic that is not
there, a length that cannot be, a unit, and the compaction at the end. `ChunksDoNotMatter` compares with a
reference that sees the whole stream. `strayed` marks the two searches that are different from a search of the
whole: one that runs into the end of the buffer may step back into a unit already handed on, or give up half a
magic.

`Broker` has the bounded queue of each client, partial sends, clients that leave or are dropped, and the pipe. A
frame has two halves, so that a write or read can stop inside it.

`HostChannel` has the table of channels as the tool's thread (open, send, close) and the receive thread
(`_feed_rx`, `_dispatch`) use it, each look and each store under the lock a step of its own. `crossed` says that
a thread stored on the strength of a look that the other had made stale. A transfer may hold a frame, a head and
its tail, or a stub shorter than a header, which the code drops (`usb_channel.py:534`); nothing is followed
beyond a frame that lost its end so (`cut`). Data of a closed connection that are still in the pipe when the
channel is opened again reach the new object; the property allows it. Reading from a channel's queue is not
modelled: only its reader does.

### Replay, Raster, Shapes, Canvas, Buffers

`Replay` has the recorder and the viewer with their two copies of the drawing state (cursor, font, colour,
style, rotation), the mask that drops kinds of calls and the size limit of bitmaps. A picture is the sequence of
what was painted together with the state that decides how it looks. A frame may be lost (`lost`), a font may
have no id (`foreign`), a frame may rely on state an earlier one set (`leaned`), a surface may be turned
(`turned`). Not here: calls through a `LinuxGFX&`, which record pixels and spans; `DRReset`; `setFontId`; the
truncation of `writeTextF`; malformed streams.

`Raster` says, as operators, which pixels a call paints: lines with their stroke, rectangles, circles, rounded
rectangles and triangles, outlined and filled, and bitmaps, clipped as each surface clips. `Shapes` draws one
call on the panel or on a canvas; `ShapesAgree` compares what is painted with what the panel gets, the outline with
the filling, and both with the box and the surface's edges. The canvas has fast lines of its own, which ignore the
stroke, so that the outline of a rectangle and the flat rows of a triangle are thin there whatever the stroke
(`Strokeless`): these two are compared with the panel's thin lines. Not here: arcs, anti-aliasing and
thick slanted lines, which are computed in floating point; coordinates beyond 16 bits; and colours, which
`Canvas` has.

`Canvas` is the off-screen surface in its five formats: one packs eight pixels into a byte, three hold less than
the 32 bits of a colour. The buffer is a function of cells; beside it a reference is drawn pixel by pixel, as the
colours the format has room for, and `KeepsColours` says that `getPixel` and the two copies read the reference
back whatever was drawn, turned, byte-swapped, detached or attached before. The reference blends every translucent
colour with what is there, as `GFX.h:153` says of all primitives. The code's `drawFastHLine` and `fillScreen` store
one as it is: such pixels are `unblended` until an opaque colour covers them, and excepted until then. Only a square
canvas is turned by a quarter.

`Buffers` has the draw buffers of the frame-buffer back end: `enableMultiBuffer`, which may fail after it freed the
old ones, `swapBuffers`, the choice of indexes, attached buffers, `stop`. `stranded` says that a call took away the
memory `m_pBuffer` points at, or moved the draw index to one without memory; most of these calls are legal, and one is
the library's own failed allocation (section 6). It is taken back when a call gives `m_pBuffer` memory again, and from
then on the property asks for everything again. A drawing call into freed memory is not followed. The DRM, SDL and
NC5874 back ends are left out.

### Remote

The render loop (`Process`, `Draw`, `Record`, `Swap`) plans a frame from flags that other threads raise, draws
it on the panel, draws it again as a record, shows it and clears the flags; `drPublish` drops a record equal to
the last and leaves others in the slot; the sender's thread (`Open`, `Gate`, `Receive`, `Take`, `Send`) opens,
polls, sends and reconnects; the viewer comes, asks for a whole frame once a second, touches and goes. `missed`
says that a text was written after the pass had drawn and lost its flag when the pass cleared it (`ui.cpp:123`).
The code sets no record mask, so that a record holds the video too, against its own comments (section 6): what a
viewer is held to is the picture `BesideVideo`.

### Touch, Screen, Typing

`Touch` is `pollLoop` and `processTouches`: contacts come, move and go between two reads, a contact that is back
too soon is `"bounced"`, a finger at rest is held. `Screen` is `uisys::Manager` with its four kinds of buttons,
sliders, dials, one dialog, and the keyboard with the fields that show and hide it, and the App's views over them;
the main thread drains its queue of touches once a frame. `Handle` has the manager's order (`manager.cpp:45-70`): a
hidden screen takes nothing in, a dialog that waits takes every event, then a keyboard that is shown takes every
event, and only then the widgets hear of it. A widget whose RELEASE a dialog, the keyboard, `hide_ui` or a change of
view took is in `missed`. A field that loses the focus hides the keyboard, and the fields hear of a press in
`Order`, so that a field early in the order can lose the keyboard it has just shown (`FieldsHear`). `Typing` is the
one keyboard and what the fields that share it write, in the order in which they hear of a press.

`Screen` and `Typing` are checked each by itself: `Screen` has whether the keyboard is shown and which fields have
the focus, as these decide where a RELEASE goes, and `Typing` has the texts, from the presses no dialog takes.

## 4. Runs

| run | instance | result | shows |
|---|---|---|---|
| `i2c_bus` | 2 tasks, 2 slots, queue of 1, `FairSpec` | holds | slots conserved, ownership after the critical section, reads are the caller's own, slots come back |
| `dspi` | 1 sender, 2 outbound frames that begin alike, 1 inbound, `FairSpec`, `OneLoad` | holds | handover, request line, stable receive buffer, order, every queued frame leaves |
| `dspi_staging` | same, without fairness | violated | the staging buffer *is* rewritten while the DMA reads it (`dspi.cpp:56-57`, `254-255`) |
| `screen` | link: 1 requester, 2 types, 2 attempts, queues of 2, 2 calls, 1 event; 2 contacts, 4 moves; 7 widgets (one a field), 2 fingers; 2 edits and 2 spin boxes | holds | answers match, no overtaking, nothing hangs; touches pair, nothing is stuck, the keyboard serves the focus |
| `ota` | 2 packages with different files, 2 chunks, 2 sessions, faults `write` and `copy`; 2 views, 1 text, 1 viewer, 1 loss | holds | success means verified, the promise of `Update`, the uploader returns; panel and viewer follow |
| `ota_stale` | same, fault `unzip` | violated | what a failed `unzip` leaves in `/tmp/ota_extract` is installed by the next update (`otad.cpp:443-444`) |
| `usbd` | 2 connections, rings and 2 units, frames of up to 2, 1 replug, `Uncrowded`, `OneLoad` | holds | order of the bytes out, OPEN before data, whole frames in, what is written leaves |
| `usbd_departed` | 1 connection, 1 unit, 1 frame, `FairSpec` | violated | a departed application keeps its channel (`otad.cpp:707`) |
| `northbridge` | panel of 1 button and 1 toggle, encoder of 6 steps, clocks to tick 16 with 3 faults, calendar to 2104, audio ring of 4 with 5 frames, 3 commands and presses | holds | mirror and lamps settle, no detent lost in silence, the chip keeps the time, calendar, audio order, pulses and button |
| `app` | 4 taps and 1 signal; streams of 7 bytes in reads of up to 3; 2 clients; 2 connections of 2 data; 3 drawing calls; shapes on 7 by 6 pixels; a canvas of 3 by 3 in each format, 4 colours and 3 calls; 4 pieces of memory | holds | the loop ends, the time-out is shown, streams, relay, host channel, replay, shapes, canvases, draw buffers |
| `canvas` | the shapes of `app` | violated | an RGB565 picture on an off-screen canvas is not painted, or painted all in one row (`GFX.h:587-588`) |
| `drift` | the clocks of `northbridge` | violated | a plausible system clock that NTP does not hold is pushed over a good chip (`northbridge_link.cpp:13-15`, `291-312`) |

Several properties are the conjunction of what two directions or two conditions ask of one mechanism:
`NothingHangs` (request, stop, queue), `StreamInOrder` (order, and OPEN first), `EveryDetentCounted` (the count
is exact; none is lost or doubled on the way), `RelayWhole` (clients; pipe), `ChannelServed` (the table; the
queues), `ShapesAgree` of `Drawing` (which pixels; which colours). Their parts are named definitions above them.

`CHECK_DEADLOCK FALSE` is set where the system really comes to rest: the link of `screen` after `stop()`; `ota` once
the uploader has made its last session; the `usbd` runs, `northbridge`, `drift`, `app` and the rest of `screen` when
what their bounds allow has happened and every thread waits, or the App has ended; `canvas` after its one call.

**Bounds.** Two tasks and two slots are enough for one task's stale give to meet another's slot, and a queue of
one makes `QueueFull` happen. Two outbound frames are the least for one to be built while the other is armed,
which is where the staging hazards are; a receive queue of one makes the drop happen; two chunks make a torn
frame possible. `OneLoad` lets `dspi` have two frames out or one each way, and `usbd` much traffic out or much
traffic in; both at full load are the product of two directions that meet only in what each keeps. Two calls
give a late reply, a resend and a later command; two attempts give a retry. For the update, two sessions are the
least for one to inherit what the other left; the second package lacks a file the first has, so that an
inherited file is seen; two chunks make a missing, a swapped and a last chunk differ. For usbd, two connections
are the least for a channel to be reused; a ring of two holds one frame of one with its length and overruns at
the next; a payload of one makes one message take two frames out, so that both of the sender's buffers are in
use. `Uncrowded` stops `usbd` at a state in which threads of two connections have met: from there on nothing is
claimed. A liveness property of a run with a constraint is about the behaviours that stay inside it.

`Panel` starts in two of its initial states, all contacts closed, and all open with a command of an earlier master
waiting; two movements and one loss give a change that is overtaken and one that is not seen. `Encoder`'s two steps
per detent, six steps and two steps behind give skipped states, a reversal inside a detent and a clamp at 1. In
`Clock` a clock is plausible from tick 10, the firmware was built at 12 and time goes to 16, which is room for a
plausible clock behind the build and for a drift beyond the tolerance of one; its three faults are a power loss of
each machine and a failed transfer. `Ds3231` passes 2100, which is no leap year, and the century bit. `Southbridge`'s
ring of four overwrites at two. `PowerSwitch`'s five holds are a bounce, and just within and just beyond the long
press and the cut; two presses and a command, or two commands and a press.

`App`'s one signal may come anywhere; four taps are the least to open a question, answer it while the time-out waits
in the slot, take that slot by another question and answer that too. `Framing`'s three byte values are the two of the
magic (1, 2, 1, which overlaps with itself) and a third; seven bytes hold a unit and the beginning of the next, or a
false start and a unit. `Broker` has a queue of two frames and a window of one. `HostChannel` has two objects for two
connections, so that an old one can be taken for a new. Three drawing calls set a state, use it and come back to it in
the next frame. The boxes and points of `Shapes` lie on, across and off each edge, with sizes 0, 1 and 2, radii larger
than half the box and strokes wider than the shape. Nine pixels of a canvas are one full byte of the packed format and
one with seven bits to spare; the colours are opaque, translucent and clear. Four pieces of memory are the panel's,
one of the caller's and two allocated ones: `enableMultiBuffer` of two, or of one and one again; every way to be
stranded and to recover comes with them.

`Screen` has a button of every kind, a slider, a question and one field whose keyboard covers a side button with its
ENTER key; two fingers hold one widget and press another, so that the second can open the keyboard over the first.
What a second field adds, the order in which fields are told of a press, is exercised by `Typing`, and the theorem
about `Screen` is for any fields in any order. `Remote` and the link have one of each thing that can be lost.

**Fairness.**
* I2cBus: weak fairness of the worker, which runs whenever its queue is not empty, at the highest of the
  priorities concerned; strong fairness of a caller inside `run_sync`, which is runnable again each time the
  worker blocks. A task is never obliged to start a call.
* Dspi: the interrupt, the tick, the task and a sender inside `dspi_send` run; the master keeps clocking, as its
  `poll_interval_ms` makes it, and may give up in the middle of any frame.
* NbLink: the link thread and a thread inside `request()` run and their bounded waits end. The northbridge is
  not assumed to answer, to execute or to assert its line, nor the transfers to succeed.
* Ota: a started uploader runs and its 60 s pass. Nothing is assumed of the daemon, which reads without a
  timeout and can wait for ever on a channel nobody closes, nor of the channel.
* Usbd: each thread of the daemon runs, and an application that is connected reads what it is sent. Nobody is
  obliged to connect, send, close or pull the cable.
* Panel: both expanders are scanned, the tasks and the App's main thread run, and a frame under way arrives
  unless the bounded loss takes it. Contacts are not obliged to move.
* App: the main thread and the USB thread run. Nobody is obliged to touch the screen: `TimeoutIsShown` asks for
  it by its own premise, that each question is answered in the end.
* Remote: the render loop, the sender and the writer of a text run, timers run out, and a viewer that misses
  frames asks again. `Take` is strongly fair: the sender looks at its slot again and again, and a viewer that
  asks once a second leaves it the time to. A session of usbd that was closed is accepted again in the end.
* The other modules have safety properties only, and no fairness.

## 5. Proofs

**`I2cBusProofs`** — for every finite or infinite set of tasks, every number of slots and queue depth, and
`~CallersPreempt`: `TypeCorrect`, `SlotsConserved` (`SlotInOnePlace`), `CriticalSectionDecides`
(`OwnerAfterCritical`) and `ReadsAreOwn` (`ResultIsMine`). None of the last three is inductive alone. `IInv`
adds that a slot is at most once in the queue and not also at the worker; that a command on its way is not
`completed` and is waited for unless `abandoned`; that the command in flight for a caller's slot was made for
that caller; that a given semaphore belongs to a completed, unabandoned slot; and what each program counter says
about its slot. The arguments meet at `GiveUp`: the flag `completed` is set in the same critical section in
which the worker reads `abandoned`, so exactly one of the two sides frees the slot. There is one lemma per
action, and under it one step per conjunct the action can disturb. Pool capacity (`Len(free) < TxnSlots` when a
slot is out) is a cardinality argument from `FiniteSetTheorems`.

**`DspiProofs`** — for every number of senders, queue depth and frame length: `TypeCorrect`, `HandoverSafe`,
`NothingForgotten` (`LineTellsPending`), `LandedStable` and `OutboundStaysInOrder` (`OutboundInOrder`). For the middle
three, `IInv` is the sorts of the variables, what `build` and `stage` imply for the task's and the interrupt's views
of `g_next_tx` (`HandoverInv`), the two windows in which the line can lag the queue (`LineInv`) and that the buffer
under validation is not the live one (`PingPong`). The order needs to follow a frame through all the places it can be
in (`OrderInv`): what is queued comes, in order, after what was taken (`QueueInv`); the staging buffer, unless it is
being rewritten, holds the last frame taken (`StageInv`); a chunk of a frame still to be staged is not on the wire,
but for a first one, which is alike for many frames (`WireInv`); of an armed frame the first chunk is in the FIFO, and
what takes its place in the buffer is the frame that follows it (`ArmedInv`); and a frame that is half in the master
has not arrived before (`ArriveInv`). A frame may arrive twice in a row, if its first chunk is that of the frame
before, whose place in the buffer it took; the property does not rule that out. The only assumption beyond the
constants' is that tasks do not run inside the interrupt, which is the guard `isr = "off"` of `Next`.

**`OtaProofs`** — for every set of files and packages, every number of chunks and sessions, and every fault:
`SuccessVerified` (`SuccessIsVerified`). `expect_ack` takes any acknowledgement, whatever its part number, so
the property needs the two sides to be in lock step, and that is the inductive invariant `SessionInv`: while the
channel is open and the uploader waits, at most one packet or one answer is under way, and where the daemon is
tells which question it belongs to (`AtReady`, `AtChunks`, `AtVerify`, `AtApply`, `AtClosed`; the theorem
`InStep`). `PromiseKept` (`KeepsPromise`, that `Ota` implements `Update`) is proved from `StagedInv`: what is
staged and extracted is the accepted package's, and the files `install_tree` is through with are in place. It
assumes `NoSilentFault`, that `unzip` does not fail half way and that a flush does not fail silently. Neither
can be dropped: `ota_stale` shows what the first does, and a copy whose last flush fails unseen is renamed into
place (`otad.cpp:397-417`), which is not a file of the package. The refinement is `PromiseInit` and
`StepPromised`: every step of `Ota` is a step of `Update` or leaves its variables alone.

**`InterfaceProofs`** —
* The link, for every number of threads, calls, attempts, events and queue depths: `TypeCorrect`; and for any set of
  command types, `AnswersMatch` (`AnswerMatches`) and `ResendsInOrder` (`ResendNeverOvertakes`). The last two take
  `OneRequester`: `request()` has one rendezvous, and the App calls `request()` and `send()` from its main thread
  only. Replies name the type of a command and not the call, so the argument is the order: from the last command
  executed, through the northbridge's queue, the transfer and the host's queue, the calls ascend (`OrderInv`); the
  call a thread is in is the last one made (`CallInv`), and a reply, wherever it is, answers a command that was
  executed (`ReplyInv`).
* `TouchesArePaired` (`TouchesPair`), any contacts, places and times: a pass of the driver tells of each contact by
  itself, first of those that went and then of the others, and what the listener makes of the whole list is, contact
  by contact, what it makes of that contact's own part of it. `TouchInv` adds the types and what the listener knows.
* `NothingIsStuck` (`NothingStuck`), any widgets, groups, fingers and questions: when all contacts are up the last
  event that waits is a RELEASE, as a contact goes up by one; what is in a finger's hand (`active`) is also
  pressed and is a button that is held; only a plain button asks a question (`ScreenInv`, `HeldInHand`). A RELEASE
  is handled widget by widget, and each either lets go or is put among those that missed it; the keyboard and the
  fields, whatever their order, take nothing into hand (`FieldsKeep`, `KeyboardKeeps`).
* `KeyboardIsServing` (`KeyboardServesFocus`), any fields in any order: a press goes to one field after the other.
  After each, one field at most is in use, none of those already passed is in use unless it was hit, and the
  keyboard belongs to the one that is (`TypingInv`); so a field that is left closes the keyboard only if it is still
  its own.
* `DrawingAgrees` (`ShapesAgree`), any size of surface, any boxes, radii, strokes and corners. For `Shapes`, whatever
  is painted is a union of clipped rectangles (`Block`), so that a canvas, which clips once, and the panel, which
  clips pixel by pixel, paint the same. `On` has the surface and the stroke as parameters and so relates the three
  instances of `Raster` (`PaintOn`, `PaintedHere`, `PaintedOnPanel`, `PaintedThin`); for the two calls that are
  `Strokeless` on a canvas the panel's thin lines are compared. That a filling leaves no hole is arithmetic: after
  every step of the octant the point is `Near` the circle, `|x*x + y*y - r*r| <= r` (`StepReaches`), and each column
  of a disk or a corner reaches as far as the points that are near; a triangle's rows run between edges of which each
  ends in its corners, whatever the sorting did to them. For `Canvas`, the invariant is that every cell decodes to the
  colour of the reference (`Held`, `Shown`): what a format keeps of a colour it keeps unchanged when it is stored
  again (`CodedIsKept`, `Settled`), and two pixels never share a bit (`PlaceOf`, `BitOf`). Pixels that are `unblended`
  are left out: a translucent colour that is only stored says nothing of the reference.

Touches, widgets and the keyboard fold a handler over a list and take `FoldKeeps` and `FoldAppend` from instances of
`Folding`.

**`UsbdProofs`** — for every size of the rings, the payload, the messages and the socket, any number of connections,
frames and replugs: `TypeCorrect` (the bounds of the rings among it), `BytesInOrder` (`StreamInOrder`) and
`FramesInOrder` (`FramesWhole`). Outbound (`OutInv`): unless threads of two connections have met (`crowded`, where
nothing is claimed), every connection but the one that has the channel is `Quiet`, and what the host got, the sender's
two buffers, the ring, the reader's message and the socket are one run of consecutive bytes (`ToHost`); a write that
fails shortens it at one end only. That the host was told of a connection before its data is claimed as long as no
replug or other mishap may have lost the OPEN. Inbound (`FromHostInv`): the ring is a row of whole frames of ascending
number of which only the last may lack its payload, while the receive thread is between its two writes (`RingInv`),
the forwarder stands between two frames or before a payload (`ForwardInv`), and all that is still to come has a higher
number than what was given (`GivenInv`).

**`NorthbridgeProofs`** —
* `RtcKeeps` (`RtcKeepsTime`), any times, faults, tolerance and restarts: an unset clock has not run long enough to
  look plausible (`sys < SaneYear => sys <= now - Build`), what NTP holds is the true time, and a running App that
  goes neither by the chip nor by NTP nor by a `kept` clock has one that looks unset and is not pushed
  (`ClockInv`); `rtc_task` seeds a sound chip only forward, as its stamp is in the past.
* `LedsAreAsAsked` (`LedsSettle`), any chips, buttons and losses: the panel's task reads `g_led_state` only after
  the self test, so that only its own late write and a write that fails can leave the lamps wrong (`amiss`, excepted).
* `CountIsExact` (`CountExact`, the half of `EveryDetentCounted` that is about the interrupt), any steps per
  detent: the interrupt is up to two steps behind, and each pending step went one way or the other (`Ahead`), so
  the table either counts all of them or sees that it missed two.
* `DetentsAreCounted` (`EveryDetentCounted`), any steps per detent, any depth of the queue, any limit of a delta:
  what the interrupt counted is what was forwarded, dropped or clamped away and what is on its way: in the count
  that is not taken, in the task's hands, in the queue. The sum over the queue is a fold, which one event more or
  less changes by that event (`QueuedFolds`, from `Folding`).
* `CalendarIsRight` (`CalendarAgrees`), any last year up to 2199: the driver's day count grows by one with each day
  the calendar goes on (`CalendarInv`), whether the day ends a month, a February or a year; the digits of each
  register and the century bit give back what was stored.
* `ButtonIsObeyed` (`ButtonObeyed`), any limits and holds: what is left of a press and what the loop saw of it make
  the whole (`Counted`), and where the loop is tells what was decided (`PressInv`).
* `CommandsAreHeard` (`HeardAsSent`), any commands and timing within `PulseConstants`: where the sender is in a
  command says how many edges the loop has counted and how long ago the last was (`Placed`).
* `AudioStaysInOrder` (`AudioInOrder`), any capacity and threshold: what was sent, the frame the transmit thread
  has taken out, the ring from tail to head and the frame being put in are one ascending chain, without a gap
  while nothing was overwritten (`Ordered`, `Whole`). Nothing is said after a reset or a frame put back for a busy
  peer (`disturbed`), nor of the order once an overwrite met a pop (`crossed`).

**`AppProofs`** —
* `RelayStaysWhole` (`RelayWhole`), any set of clients, any limit, window and number of frames, writes and
  breaks. `DownInv`: what a client has read, its socket and its queue together are every half frame since it was
  accepted, or a beginning of them once it is being closed. `UpInv`: what the broker still holds of a client
  (its socket and the half frame kept for it) is the end of what the client wrote and begins at a frame, and the
  pipe has whole frames, each client's in order and none that the broker still holds.
* `DrawingReaches` (`DrawingReachesPanel`), any buffers of the caller, any memory and any sequence of calls: what the
  library allocated is in one slot only and never the panel's or the caller's (`Separate`), so that giving it back
  takes it from no other slot; a slot has memory that is there, or the caller's, or none (`Sound`); and `m_pBuffer`
  is the panel's or the caller's without buffers (`SingleBuffer`), the draw buffer's with them (`MultiBuffer`),
  unless a call `stranded` it.
* `HostIsServed` (`ChannelServed`), any number of connections, data, channels and split transfers. `TableInv` says who
  may hold a closed channel and who is about to take it out; that the queues have no holes needs the pipe, whose
  data are a stretch of the device's stream (`PipeInv`: `Follows`, `Awaits`), and that the channel in the table
  goes on with the next datum of the pipe (`QueueInv`). It speaks of the states in which no two threads have met
  between two takings of the lock (`crossed`) and no frame has lost its end within the header (`cut`).
* `ReplayIsExact` (`ReplayExact`) and `FramesStandAlone` (`FrameStandsAlone`), any calls that `ReplayConstants`
  admits, with texts of any length, any fonts, mask, size limit and surfaces. What is followed is `Viewed`, the
  state and picture the viewer would have were the frame exported now. One call on the recorder and the commands
  it records on the viewer's side do the same to both (`CallSteps`, `StepFollows`): the marks of a call pass the
  mask all or not at all (`MarksPass`), what is recorded of a call makes the viewer draw as told (`SentTold`), and
  two texts written from states that agree on what text depends on put the same characters and leave the cursor
  in the same place (`WriteAlike`). `ReplayInv` then says that the viewer's state agrees with the recorder's on
  all that the mask records, or, after a loss, on what this frame has set (`Agree`).
* `SplitsDoNotMatter` (`ChunksDoNotMatter`), any bytes, magic, length limit and point of compaction. The reference
  `Cut` is a recursive function over the whole stream; that it exists, is a sequence of units and skips what no unit
  begins in is shown by induction from the end of the stream (`CutExists`, `CutType`, `CutSkips`). The invariant
  speaks of every stream that goes on from what was fed: its units are those handed on and those after the position
  (`HandedOn`). So bytes that still come change nothing; a step only has to show that what it passes over begins no
  unit, whatever follows (`BadSays`, `FoundIs`), and that what it leaves in the buffer is the end of what was fed
  (`MoveKeeps`).

**`Folding`** — lemmas for the other proofs, which say nothing of the code: what `FoldLeft` computes, for any
operator: it runs along the sequence (`FoldRuns`), so one element more is one step more (`FoldAppend`), a first
element can be taken off (`FoldFirst`), two sequences are folded one after the other (`FoldConcat`), and what each
step preserves holds at the end (`FoldKeeps`). The induction over the length is made with sets, as a set of naturals
that has 0 and each successor has them all (`Induction`, from the well-founded order of the naturals). `Fold` is
written out as `SequencesExt` writes `FoldLeft`, which keeps the instances of the module small. The other proofs take
an instance with the operator they need.

**Assumptions on constants.** They are named in the module that declares the constants, and TLC evaluates them on each
run. Most say that a bound or a size is a natural number. The others are the code's: `Types` of `NbLink` are requests
and not the two other kinds of frame; the build stamp is not below `SaneYear`, as it is the year of the compiler; the
long pulse ends before the hard cut (`PowerSwitch`), a command's silence is longer than the time after which it is
run, and the restart of the count does not come before that (`PulseConstants`, `pwsw.ino:43`); the ring has a place to
spare above `Threshold` (`RingConstants`, `ring_buffer.h`); `MaxBehind` is at most 2, as `encoder_isr` cannot tell
three steps from one. `BuffersConstants` is a way of numbering: the panel's memory is 1, the caller's buffers come
next. `EncoderConstants` and `CalendarConstants` say that the limit of a delta is a natural number and that the
calendar ends in 2199 at the latest, as the chip's century bit does. `FramingConstants`: bytes are natural numbers and
a magic has at least one. `ReplayConstants` says what the arguments of the drawing calls are: a text is a sequence, a
switch is a Boolean, a style is a pair. `TouchConstants`, `ScreenConstants` and `TypingConstants` are hypotheses of
their theorems and evaluated for the run by `ScreenAssumption`: the number of contacts is a natural number; what asks
a question first is a plain button, as in `ui.cpp`, no widget is called as a finger that is up, and `Order` is a
sequence of widgets; the fields are listed and the longest text has a length.

`DrawingConstants`: sizes and radii are natural numbers and no call gets a negative one, a stroke is at least 1,
colours have parts of eight bits.

**Model-checked only.** The liveness properties (`SlotsComeBack`, `FramesLeave`, `NothingHangs`,
`UploaderReturns`, `BytesLeave`, `MirrorFollows`, `EndsWhenAsked`, `TimeoutIsShown`, `PanelFollows`,
`ViewerFollows`), which are out of the prover's reach. And the five disagreements, which are counterexamples.

## 6. Disagreements between the code and what is said of it

`PROJECT.json`, "findings", quotes them: the staging buffer (`dspi_staging`), the leftovers of an update
(`ota_stale`), the departed application (`usbd_departed`), pictures on a canvas (`canvas`) and the clock that is
pushed though NTP did not set it (`drift`): a system clock whose year looks plausible when the App starts is kept
(`northbridge_link.cpp:231-236`), and the hourly check pushes it over the chip whatever it drifted to. The other way
round, once the App has taken its time from the chip (`nbClockFromRtc`), a correction by NTP is not pushed until the
App is started again (`:294`).

More are in the modules without a run of their own:

* `Dspi!StuckForATick` is what the comment at `dspi.cpp:211-213` says of the resynchronisation: it compares two
  samples of the DMA's counter that may be microseconds apart when a second notification was pending, and so gives up
  a transfer that was moving.
* `Ota`'s fault `flush` is a copy whose last flush fails and is renamed into place (`otad.cpp:397-417`).
* A reply that comes after its request gave up is handed to `on_frame()` (`northbridge.cpp:415`, `NbLink`'s
  `handed`), where `northbridge.h:187-188` says that it never is; the callback of the App ignores it.
* "Per-pixel alpha blending on all primitives" (`GFX.h:153-157`, also `GFX.h:39`): on a canvas `fillScreen` and
  `drawFastHLine` store a translucent colour unblended (`GFX.cpp:2574-2657`; `unblended` in `Canvas`), and so what is
  painted in rows, while `drawPixel` and `drawFastVLine` blend.
* A canvas "supports every draw primitive from LinuxGFX" (`GFX.h:587`), but its fast lines have no stroke: the
  outline of a rectangle and a flat triangle are thin there whatever the stroke (`Strokeless` in `Shapes`).
* "RGB565 bitmaps are masked out of the recording on purpose" (`app.h:75-77`) and cost "the remote stream nothing"
  (`ui.cpp:64-65`): nothing in the application calls `DRSetRecordMask` or `DRIgnore`, so every record of a frame with video carries
  the video (`Paint` in `Remote`).
* The three ways in which drawing loses its memory (`stranded` in `Buffers`). A second `enableMultiBuffer` that
  runs out of memory has freed the old buffers and leaves `m_pBuffer` pointing into them (`GFX.cpp:913-927`);
  `attachExternalBuffer` over the draw index frees the buffer and does not move `m_pBuffer`; and
  `detachExternalBuffer` of the draw buffer, or `swapBuffers` and `selectDrawBuffer` onto an index without memory,
  leave `m_pBuffer` and the draw buffer apart. What is drawn then goes to freed memory or nowhere.
* The message that the USB thread gave up may never be shown (`overtaken` in `App`): its action is deferred while
  another question is open, the question is answered, and `run()` calls `process()` before it looks at the slot
  again (`app.cpp:247-257`); a system button touched in that pass defers its own question over it (`app.h:55`).

Less than a disagreement, but what a reader should know of: each exception a history variable carries is a behaviour
of the code. An LED write of `panel_task` may overtake a newer command until the next one (`amiss`); a text written
between a drawing pass and the clearing of its flag stays unseen until the next redraw (`missed` in `Remote`); a
signal in the middle of a pass makes `stop` return into drawing code (`early`); a RELEASE that a dialog takes, or a
keyboard that a second finger opened, leaves the button under it pressed until the next RELEASE that reaches the
widgets (`missed` in `Screen`, `manager.cpp:49-60`); the focus that an old field loses hides the keyboard the new one
has just shown, when the old one is told of the press later (`textedit_widget.cpp:58-66`, `FieldsHear` in `Screen`);
an overwriting push that meets a pop repeats or tears frames (`crossed` in `Southbridge`); two threads that change the
host's table of channels at once may leave a tool with a channel that is no longer served, and a transfer that ends
within a header is dropped and its frame lost (`crossed` and `cut` in `HostChannel`, `usb_channel.py:534`); a power
cut while files are being renamed into place leaves two versions side by side (`Update` lets the power go at any
time). `fillRoundRect` two pixels high with a radius paints neither the first nor the last column of its box, which
`drawRoundRect` paints (`bare` in `Shapes`).

## 7. Not modelled

* Stateless drivers (`pwm.cpp`, `gpio_sysfs.cpp`, `i2c_dev.cpp`, `ads1115.cpp`, `74hc165.cpp`, `linfo.cpp`):
  each call writes or reads one register or one file and keeps no state a protocol depends on.
* Bring-up and bench tools: no part of the system depends on them.
* Bytes whose values no property tells apart: CRC arithmetic stands as "intact or not", a payload as which one it is.
* Layout, wording, fonts' outlines, smoothing, blending on the panel, arcs, scaled bitmaps: floating point and tables, with
  one caller and no state.
* The DRM, SDL and NC5874 back ends and finding and claiming USB devices: sequences of calls of other systems'
  interfaces.
* Two `request()` calls at once on the northbridge link: the application makes them from one thread.
* `usbd`'s other channels (a thread picks its channel by number and the channels share nothing but the
  endpoint), stalled control requests, and the reuse of a closed descriptor's number by another file while a
  thread still writes to it.
* The combo box, the tune of the buzzer, the walk of the self test through its reports, the southbridge's second
  bus, the tiles of a video picture.

## 8. Plan

What is left is proofs, in order of what they would add:

1. Type correctness of `Ota`, which its proofs already use in part.
2. An atomic bus that `I2cBus` implements, and a lossy ordered channel that `Dspi` and `NbLink` implement, as
   abstract specifications.
