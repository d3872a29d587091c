# TLA+ models of the STM32F746 webcam firmware

The repository holds firmware for the STM32F746G-Discovery board. The project it builds (`Test.emProject`) is a webcam:
an MT9D111 sensor is captured by DMA into a ring of frames, shown on the LCD, saved to the SD card as `.bmp`, `.jpg` and
`.mjpeg`, and served over HTTP. It runs on FreeRTOS, with one core, preemptive priorities and interrupts. This directory
models the parts whose correctness depends on the order of things: interrupts, threads, timeouts, late messages, errors.

## 1. Inventory

| thread (priority) | what it does | touches |
|---|---|---|
| app (normal) | mounts the card, makes the camera and the boxes, draws for ever | camera frames, LCD, FatFs at start-up |
| touch (normal) | polls the touch controller, sets request flags, switches preview/capture | flags, `mjpgFrameNum`, camera mode |
| save (above normal) | snapshots, movies, formatting | flags, `gFile`, FatFs, camera frames |
| server (above normal) | HTTP: a page and `cam.jpg` | camera frames, `mHeader` |
| net, dhcp (normal, below) | bring up the interface, DHCP, start SNTP | LwIP |
| tcpip, ethIf (high, realtime) | LwIP, received Ethernet frames | timeouts, pbufs |
| interrupts | DCMI, DMA2 stream 1, SDMMC and its DMA, LTDC, DMA2D, ETH | frame ring, queues, semaphores |

Component by component: the state, the operations, what is hard, what makes it correct.

* **Camera capture** (`BSP/mt9d111.cpp`). State: two DMA targets, `mBufCur`, `mLastFrameStart`, `mXferCount`, and the published
  frame (`mFrame`, `mFrameLen`, `mJpegFrame`, `mFrameId`, `mFrameSem`). Operations: `start`, the two interrupt handlers,
  `preview`, `capture`. Hard: hardware runs ahead of the handlers; chunk and frame ends race; wrap; overrun. Correct: the
  driver's arithmetic names where the hardware is, nothing is stored outside the buffer, a published frame is not written.
* **Camera readers** (`getLastFrame`, `getNextFrame`, `cCameraBox::onDraw`). Hard: four fields are read while interrupts
  publish. Correct: reads stay in the buffer, a held frame lasts, the picture shown is not an old one.
* **Save thread** (`usbMsc/main.cpp`). State: request flags, counters, the one file object `gFile`, the header buffer shared
  with others. Hard: requests that come and go while it waits; a frame of the other format that comes between its reads.
  Correct: saved files stay; snapshots are whole; requests are served.
* **FatFs** (`FatFs/ff.cpp`). State: mount id, lock table, file object. Hard: file objects that outlive a format or a
  remount, errors half-way. Correct: a file object that is accepted is really open; locks do not mix.
* **SD card driver** (`BSP/sd.cpp` over the HAL). State: driver state, DMA handles, the data path, completion queue. Hard: late
  transfers, failed transfers, and commands that fail after the DMA was started. Correct: a call takes its own completion,
  frees the buffer when it returns, and `RES_OK` means that its data is there.
* **SNTP client** (`usbMsc/sntp.cpp`). State: armed timeouts, DNS query, last server address. Hard: lost, late, duplicated
  answers. Correct: it never stops, and does not multiply.
* **Display** (`BSP/cLcd.cpp`, the loop of `cApp::run`). State: two frame buffers, the LTDC's address and reload bit, two
  binary semaphores with their "is anybody waiting" flags, the ring of debug lines. Operations: `ready`, the drawing functions
  (a DMA2D transfer for each box that is filled and for each glyph), `present`, both interrupt handlers, `debug`, `clearDebug`,
  `drawDebug`. Hard: the semaphores are created given; the last glyph is still transferred when the picture is presented; any
  thread writes debug lines while the app thread draws them. Correct: nobody waits in vain, nothing draws into what is shown,
  only lines that exist are drawn, picture follows picture.
* **Ethernet interface** (`BSP/ethernetIf.cpp` over the HAL). State: two descriptor rings, the HAL's lock, the input
  semaphore, the pbuf pool, the TCP/IP mailbox. Operations: the interrupt handler, the input thread, `lowLevelOutput`. Hard:
  three rings of different length run full; the handler clears a lock it does not hold; raw LwIP calls come without the core
  lock. Correct: frames come out in order, whole and once, none is forgotten, no buffer is lost.
* **Network start, DHCP** (`netThread`, `dhcpThread`, LwIP's `dhcp.c` as it is used). State: the client's state, tries, timers
  and lease; the thread's state and the address it shows. Hard: the client answers between any two statements of the thread
  that polls it; leases end. Correct: an address is only used under a timed lease, the client goes on, the thread settles.
* **Start-up** (`cApp::run`). State: `mMounted`, the camera, the boxes. Hard: the save, touch and server threads run from the
  beginning, and nothing makes them wait. Correct: no box asks for what is not there.
* **Touch UI** (`cTouch.h`, boxes): requests and the mode switch. **HTTP server**: its reading of frames and its header.
  **Image headers**: one buffer for three users.
* **PS/2** (`common/cPs2.h`), **USB mass storage** (`usbMsc/usbd*.cpp`), the **older audio application** (`main.cpp` in the
  root), **board support**, **vendored code**: see "Not modelled".

`PROJECT.json` lists every component with its status, every hazard at its line, and maps every definition to the code.

## 2. How the modules fit

```
  Camera ──implements──> FrameRing <──EXTENDS── CameraReaders     SdDisk
    ^                                               ^                ^
  CameraProofs                             CameraReadersProofs   SdDiskProofs

  StartUp ──EXTENDS──> Recorder ──EXTENDS──> FatFile
    ^                                          ^
  RecorderProofs ────────EXTENDS────────> FatFileProofs

  Network ──EXTENDS──> Sntp, Dhcp          EthernetIf ──implements──> FrameChannel
     |  └──implements──> Sntp                  ^
  NetworkProofs                            EthernetProofs

  Display ──EXTENDS──> Lcd, DebugLines <── DisplayProofs
```

`MC*.tla` and `MC*.cfg` instantiate a module for TLC. Operators named `Definition_Something` stand next to a definition
and are plausible bugs of it; they show that the properties can fail.

### Camera, FrameRing

Addresses are offsets from `mBufStart` in units of one DMA burst. `StoreUnit`, `EndOfFrame` and `Overflow` are the
hardware; `DmaIrqHandler` and `DcmiIrqHandler` are the handlers; `SetJpegMode`, `ClearFrame`, `ClearFrameLen` are the
stores of `preview`/`capture` with interrupts in between. What is assumed of the hardware:

* both interrupts have NVIC priority 8, so neither preempts the other, and when both are pending `DMA2_Stream1`, the lower
  exception number, is served first (`DcmiMayRun`); a handler is served before another whole chunk is stored;
* the sensor sends nothing in its vertical blanking, in which the frame-end interrupt is served, and no frame is longer than
  an RGB565 frame; it may be shorter by any amount, and the status word that claims a JPEG's length may hold any value;
* enabling the stream reloads `NDTR` and the current target; disabling it on an overrun may raise transfer complete;
* the buffer holds three of the largest frames (it holds 7.1: 6 815 744 bytes, frames of 960 000). The built variant
  `Capture800x600` gives both modes one frame size;
* the compiler keeps the order of the plain stores of a published frame.

Not modelled: the words that remain in the DMA FIFO at the frame end, frame rate counters, sensor registers.
`FrameRing` says the same without chunks and registers: one region that grows and becomes the latest frame or is dropped.

### CameraReaders

One reader at a time over `FrameRing`; `waits` tells `getNextFrame` from `getLastFrame`. `rEnd`, `age`, `overwritten`,
`rLatest` and `picLatest` are history. The ids of `onDraw` are reduced to whether they are the latest frame's.
`HeldFrameSurvives` states how long an unprotected frame lasts: `(age + 3)` frames plus a chunk must fit in the buffer,
three frame times in the firmware. A frame saved more slowly is overwritten while it is written.

### FatFile, Recorder

A file is the sequence of the pieces written. `FOpen`, `FWrite`, `FClose`, `FMkfs`, `FMount` are the FatFs calls with every
outcome, including a disk error at each, and the remount inside `findVolume`. Directory entries, clusters and long names
are abstracted; a full card and a failing `malloc` are left out. `f_setlabel` and `f_mount` after a format are one mount.

`Recorder` splits `saveThread` at its blocking calls (`savePc`); between them nothing of lower priority runs, but interrupts
do. The button is a pin that may read anything. `OtherHeader` is `onDraw` or the server filling `mHeader`. `AppendsToMovie`
and `SavedJpgIsJfif` state comments that the code does not keep.

`getNextFrame` reads the frame's length, its format and its address one after another, with interrupts enabled.
`SaveGotFrame` therefore takes the format before, and the frame after, a frame of the other format that may be published in
between (`FrameOfOtherFormat`): the snapshot is then a `.jpg` with an RGB frame in it, or a `.bmp` with a JPEG. This really
happens in the model, `mixed` (history) names those snapshots, and `SnapshotIsWhole` says that there is at most one for each
`capture()` or `preview()` and that every other snapshot has the format its name says. The one assumption is that the sensor
changes its format at most once for each of these calls (`due`), some time after it. The length, read first, may likewise be
that of the frame before, with or without a mode switch; `CameraReaders` has the three reads one by one and shows that what is
read stays in the buffer.

### StartUp

`boot` is where `cApp::run` is before its loop; `Mount`, `MakeCamera`, `AddBox` and `EndSplash` are its steps. The boxes that
make a request (`Menu`) are added one at a time; the focus, info and clear boxes, which ask nothing of other threads, are left
out, and so are touches that find no box. `savePc = "fault"` ends the model: the button takes a snapshot before the camera is
there, FatFs, which is not reentrant, is used by two threads during the splash picture, or the server is asked for a picture
before the camera is there. The code does not exclude these, and what it then does is not defined; the properties of `Recorder`
are stated for a start that was not overtaken.

### SdDisk

One call of `diskRead`/`diskWrite` at a time. `Start` is the call up to its wait for the message, with the HAL function it
calls; `GetMessage`, `GetTimeout` and `Poll` are the rest of it. The transfer completes (`Complete`), fails (`Fail`) or is later
than `SD_TIMEOUT`; `CommandFails` and `StopTransfer` are commands to the card that fail. The order in the HAL matters:

* a read starts its receive stream (`hdmarx` is then armed) and the data path (`dpsm`) before it sends its commands. When one
  fails, it returns with both as they are and the driver READY. A stream that is armed refuses the next read's buffer, which
  the HAL does not notice: "own" and "old" tell whose buffer it is armed at. A write starts its stream after its commands;
* an error of a transfer aborts one of the two streams, the transmit stream first, and leaves its handle NULL. As long as the
  receive handle is not NULL too, the driver stays BUSY, so that calls are refused until `diskInit`, and no stop command is
  sent (`SD_DMATxAbort`): a card in the middle of several blocks ("MANY") stays there;
* the poll for the card has no working timeout and is modelled without one. A call that took a stale message polls for ever
  if its card is one that nobody stopped;
* `diskInit` (`Reset`) links the streams and makes the driver ready whatever the card answers, and a new queue only if it does.

`fate` is history: what became of the transfer of the latest call, "misplaced" if its data went to the buffer of an earlier one.
`clean` is history: since `diskInit` no transfer was late and no command of a read failed, which is the condition under which the
properties hold; failed transfers and failed commands of writes do not end it. `pc = "astray"` ends the model: a NULL handle
is used, or a write starts while the receive stream is armed and both serve the one request of the SDMMC; what then happens
is not defined by the code. What is assumed: a transfer that fails is not completed too; the SDMMC ends the receive stream's
transfer (`DMA_PFCTRL`), whatever length the stream was armed for; a stop command that the card takes ends what it does. DMA
errors other than FIFO errors (`SD_DMAError`) and the identification of the card in `init` are left out, and two threads in
the disk layer at once (start-up) are not modelled.

### Sntp, Dhcp, Network

State of `Sntp` is what the client waits for: `timeouts` (how often each handler is armed) and `dns` queries. `replies` are
packets on their way, which `Recv` may leave there (duplication) and `Lose` discards; `late` notes that a packet was overtaken
by a timeout. With `SNTP_MAX_SERVERS` 1, trying the next server is a retry. Every request carries the same timestamp
(`sntp.cpp:193`), so a late answer to an older request is accepted: `Verdict` cannot tell it, though `sntp.cpp:73` means it to.

`Dhcp` is `dhcpThread` (`Start`, `Started`, `Poll`, `Assign`, `CheckTries`, `Stop`) and LwIP's client. The client runs in the
TCP/IP thread, of high priority, so each of its handlers is one step and comes between any two statements of the thread. What
is assumed:

* the link is up and `netThread` has started the interface: its straight sequence is the initial state;
* all answers share the transaction id, so that any answer may come in any state; an OFFER may lack its server id (`noId`);
* a request timeout is at least 1.5 s and the thread polls each 250 ms, so it polls before one expires (`polled`), except the
  first ARP check, 500 ms long, which ends with the next tick; leases last three minutes at least, and none is infinite;
* a NAK leaves the timers of the lease it ends running (`naked`): `SuppliedHasAddr` says what that can lead to;
* `dhcp_start` may find no memory for its message: it stops the client, and the thread polls on for ever;
* more than `MaxTries` tries are not counted on; AutoIP and the reboot state of LwIP are not built.

`Network` is both, started as `dhcpThread` starts them: `AddressAssigned` is `Assign` with `SntpInit`. The run and the proofs
of `Sntp` are those of `Network`; `MCSntp` stands alone for the finding only, which needs two addresses.

### EthernetIf, FrameChannel

One processor: the interrupt handler runs before the input thread (realtime), that before the holder of LwIP's core lock, and
that before the dhcp thread (`CanRun`); the DMA runs any time. The descriptors' `OWN` bits are `rxOwn` and `txOwn`; `RxDesc`,
`TxDesc` and `Lock` are the fields of `EthHandle`. A frame fits in one pbuf, one buffer and one descriptor, as those of
an MTU of 1500 do (`PBUF_POOL_BUFSIZE` is 1524). Poll demands are abstracted: a suspended DMA sees a
free descriptor when it is resumed. `RawSends` are the frames the dhcp thread sends without the core lock, from `dhcp_start`
and `sntpInit`. The HAL's handler unlocks unconditionally, and `lowLevelOutput` does not look at the result of
`HAL_ETH_TransmitFrame`. `TxDesc` is not volatile, so its old value may be used after another writer changed it. `dry` (the
pool was empty) and `overlap` (two writers met) are history. `FrameChannel` is put, lose, take: the receive path implements
it, and the transmit path does, without losses, until two writers meet.

### Lcd, DebugLines, Display

`Lcd` follows the app thread's `ready`, DMA2D start and `present` statement by statement (`appPc`). The LTDC takes a new
address at the start of the vertical blanking and interrupts at line 0 (`porch` is between). The waits' timeouts of 100 ticks
are left out: `NeverWaitsInVain` shows that the interrupt waited for is always to come, which a display frame or a transfer
brings much sooner. Both semaphores are created given, so the first waits are too early; `Dma2dInStep` and `FrameInStep` say when
that is over. A box is filled by the DMA2D (`FillBox`) or drawn by the thread (`DrawBox`); text is drawn by the DMA2D, a
transfer for each glyph (`StartGlyph`), each after a `ready` for the one before. Nobody waits for the last glyph, so `present`
begins beside a DMA2D that may run, and may flip the buffers beside it; the next drawing function's `ready` waits for it.

`DebugLines` splits `mDebugLine++` and each look `drawDebug` takes at `mDebugLine`. `raced` is history: two threads wrote at
once, or a clear came between two looks. There is no scrolling, for nothing calls `onKey`. The loop `while (secs > 9)` of
`drawDebug` does not change `secs`: it spins or the compiler drops it, both are modelled. `Display` puts `drawDebug` in
the app thread's loop, where its lines are text after text.

## 3. What the runs show

| run | bounds, and why they suffice | result |
|---|---|---|
| camera | buffer 13, chunk 3, frame 4: chunks end inside and at frames, several frames per wrap, frames span chunks and the wrap, the chunk does not divide the buffer; ids modulo 2 | 5 invariants, 1 action property, and the refinement of `FrameRing` |
| readers | buffer 13, frames of 3, so that a frame may be held for two frame times and be overwritten after it | 3 invariants |
| fatfile | 3 names, 2 locks (`_FS_LOCK`), 3 mounts, 1 disk error anywhere | 2 invariants |
| recorder | from the program's start; 3 inputs and disk errors together (`MaxEvents`), at most 1 error, movies of 2 frames: every pair and triple of requests overlaps at every blocking call and every step of the start; a frame of the other format may come at any time after a mode switch | 2 invariants, 1 action property, 3 liveness properties |
| recorder_append, recorder_jfif | as above without errors | violated: findings |
| network | 1 address, answers that are good, a kiss-of-death or short; up to 2 counted timeouts of SNTP per handler, 2 DNS queries, 1 lease, tries to 6, past where thread (4) and client (5) give up | 5 invariants, 2 liveness properties |
| sntp_stuck | 2 addresses | violated: finding |
| ethernet | 2 frames, 2 descriptors each way, a pool of 2, a mailbox of 1, 1 raw send: each of them runs full while the others do not | 3 invariants, the refinement of `FrameChannel`, and that of the transmit path |
| display | 2 writers, a ring of 2 lines of which 1 is displayed, 3 lines between two clears: the ring comes round | 3 invariants, 1 action property, 1 liveness property |
| sd_disk | 2 late transfers, 2 failed transfers, 2 failed commands or `diskInit`s, queue of 10: each error twice, in any order, with `diskInit` between or not | 4 invariants, 1 liveness property |
| sd_late | 1 late and 1 failed transfer | violated: finding |

Type invariants are proved (below) and not run again. The symmetry of the ethernet run's frames is
sound: no definition tells two frames apart, and the run checks safety only. Only the runs of `Display`, where `drawDebug` may
spin, of `SdDisk`, where a call may poll for ever or go astray, and of the stand-alone `Sntp`, whose packets are bounded, leave
deadlock unchecked; an overtaken start ends in a step that stutters (`Ended`).

**Fairness.** StartUp: the save thread has a higher priority than its peers, FatFs calls end because transfers time out,
the app and touch threads run while the save thread waits; a working camera gives one of infinitely many waits a frame (strong
fairness of `UpSaveGotFrame`). The user has no duty. Network: the dhcp thread runs, armed timeouts expire, since packets do not
come for ever and re-arm them, and DNS answers or gives up; the servers owe nothing, and `DhcpSettles` assumes that they
do not refuse for ever. Display: the app thread is scheduled, a transfer ends, the LTDC scans; there are finitely many boxes,
characters and debug lines, so each pass of the loop gets to its text, through its debug lines and to `present` (strong fairness
of `DrawInfo`, `DrawDebugLines` and `BeginPresent`); writers of debug lines have no duty. SdDisk: the caller runs, a transfer
completes or fails (the SDMMC has a data timeout), and a card gets ready that had one block to send or got the stop command.
Nothing is assumed of a card that was left in the middle of several blocks: `CallsEnd` names it (`Unstopped`), and `diskRead`
waits for it for ever. Where a property excepts a case (`savePc = "fault"`, `noId`, `drawPc = "spins"`, `Unstopped`, a first
DISCOVER without memory), the code really stops there: each is a hazard in `PROJECT.json`.

**Findings** (details in `PROJECT.json`):

1. Appending to a movie writes through whatever `gFile` is by then: after a snapshot, a format or a mode switch during a
   movie the frames are lost or the movie is not closed. A second movie in the same mode goes to the close branch at once,
   because `mjpgFrameNum` stays above 500.
2. A `.jpg` may start with the BMP header that the HTTP server made in the shared `mHeader` while `f_open` blocked.
3. The SNTP client stops for good when it gets a packet from another address than the one it asked last.
4. After an SD read later than `SD_TIMEOUT`, the next read can fail and still return `RES_OK`: it takes the completion that the
   first one left in the queue. Writes take messages in the same way.

`RES_OK` is not to be trusted after a failed command either, with nothing late: the next read's data goes to the buffer of the
failed one, at which the stream was left armed, and `diskRead` returns `RES_OK`. `MCSdLate.cfg` shows it with `MaxLate` and
`MaxErrors` 0 and `MaxCmdErrors` 1; the other properties of `SdDisk` name it by `clean`.

## 4. What is proved

TLAPS proves, for every value of the constants that the named assumptions allow:

* **CameraProofs**, from `CameraAssumption`: `IInv` is inductive, hence `TypeOK`, `DriverFollowsDma`, `DmaInBuffer`,
  `FrameInBuffer`, `LatestFrameIntact`, `NoJpegInPreview`, the action property `PublishedWasStored`, and the refinement
  `Spec => ImplementsFrameRing`. `DriverFollowsDma` is not inductive: `TargetsConsecutive` and `ChunksCounted` say why the
  next chunk will be where the driver expects it, with the parity of `mXferCount` in step with the stream's target;
  `SpanIsSent` ties the sensor to the pointers; `RoomForFrame` is the room check seen from the middle of a frame;
  `NoJpegAfterClear` is what holds while `preview()` is under way.
* **CameraReadersProofs**, from `ReadersAssumption`: `ReadersInv` is inductive, hence `ReadsInBuffer`, `HeldFrameSurvives` and `DisplayNotStuck`.
  `RingBounds` keeps the ring in the buffer, `Latest` and `Held` relate what was read to what is published, and `Behind` and
  `Round` measure how far capture has come round towards a held frame, against the room left for its age.
* **FatFileProofs**, from `FatFileAssumption`: `FatInv` is inductive, hence `FatTypeOK`, `ValidFileIsOpen` and `LockedOnce`.
  The strengthening is `NotFromLaterMount`: a file object never carries an id that a later mount will be given.
* **RecorderProofs**, from `RecorderAssumption` and `FatFileAssumption`, of the program from its start (`UpSpec`), for any number
  of inputs and errors and movies of any length. `RecorderImplementsFatFile`: every step is a step of `FatFile` or leaves the
  file system alone, so `ValidFileIsOpen` and `LockedOnce` hold here too (`RecorderFilesAreOpen`). `RecInv` is inductive, hence
  the type invariant, `SnapshotIsWhole` and the action property `SavedFilesStay`. `Mixes` ties the snapshots of two formats, and
  the changes of format still to come, to the calls of `capture()` and `preview()`. `Paid` counts the inputs a request and a file
  number cost, which is why no number is given twice; `Numbered` says that every file on the card has
  a number that is not given again, and that a name about to be opened is new there; `Branch` is what `saveOp` may be at each blocking
  call; `SnapIsOpen` says what the file holds at each of them, and that on a card without errors nothing but a movie is left
  open when a snapshot ends. `Started`, the order in which `cApp::run` makes the camera and the boxes, with `RequestsAreSafe`
  is a second inductive invariant: a request comes from a box, and a box is there only with what it needs.
* **SdDiskProofs**, from `SdDiskAssumption`: since `diskInit` and while no transfer was late and no command of a read failed
  (`clean`), for any queue size, any number of failed transfers and of failed commands of writes, `BufferIsFree`,
  `MessageIsOwn`, `CompleteIsOk` and `CleanOk`. Without `clean` the last is false: finding 4 and the remark below it. The strengthening `CallState`
  says for each place of the call what the data path, the queue and the transfer are, and that no stream is armed that nobody
  waits for.
* **NetworkProofs**, of `Sntp` alone, from `SntpAssumption`: `OneAtATime`, for any addresses and packets; and `NeverStuck` when
  the server has one address and answers in server mode, which is exactly what the finding lacks. From the assumptions of
  `Sntp` and `Dhcp`: `DhcpInv` is inductive, hence `NeverIdle`, `AddrIsLeased` and
  `SuppliedHasAddr`. `Timed` says which timers each state of the client has, `InTime` that no lease ends before the thread saw
  it, `Shown` what the thread's state says of the address. `SntpImplemented` shows that `Network` implements `Sntp`, so that
  the theorems about `Sntp` carry over.
* **EthernetProofs**, from `EthAssumption`: `EthInv` is inductive, hence `RxNeverBusy`, `NoFrameForgotten` and
  `PbufsAccounted`, for rings, pool and mailbox of any length. `LockInv` says who holds the HAL's lock, `RingInv` that the
  frames not yet fetched lie in one stretch from `RxDesc` to the DMA's descriptor, `HandInv` what the input thread has in
  hand, `SuspendInv` and `WakeInv` that a frame left in the ring is on its way to wake it. Both refinements of `FrameChannel`
  are proved with the invariant `IsQueue`: the descriptors in use are those that a queue of their number has, from its head
  on, and the next free one is where the queue ends. It turns a set of `OWN` bits into a sequence of frames (`Queued`), to
  which the lemmas `QueuedAdd` and `QueuedTake` add at the end and take from the head. `RxImplementsChannel` then maps each
  step: a stored frame is put; fetching, copying and posting it move it along `RxChan`, which stays the same; an empty pool
  or a full mailbox loses exactly the frame in hand; LwIP takes the first. `TxImplementsChannel` needs `TxAlone`, that without
  an overlap one writer at a time has a descriptor, and it is the one behind the queue.
* **DisplayProofs**, from `DebugAssumption`: `LcdInv` (`Handed`, `Waited`) and `LinesInv` (`Filled`, `Writing`, `Drawing`,
  `OneWriter`) are inductive, hence `NeverWaitsInVain`, `PictureIsSafe`, `StaysInStep` and `DrawnLinesExist`, for any writers
  and sizes. `Handed` says which of the two buffers the LTDC has or will take at each statement of `present`; `Waited` that
  what was waited for is over after `ready`, and that a transfer nobody waited for yet runs or has given its semaphore, also
  the last glyph's while its picture is presented.

Every invariant, action property and refinement that a run expects to hold is proved. Only model-checked are the liveness
properties (`SnapshotServed`, `MovieEnds`, `FormatServed`, `KeepsTrying`, `DhcpSettles`, `KeepsPresenting`, `CallsEnd`), which
rest on fairness and so on `ENABLED`, beyond the provers used here.

## 5. Not modelled

* **PS/2**: its instance and its use are commented out in `usbMsc/main.cpp`. **USB mass storage** and the **older audio
  application** are not in the project `Test.emProject`. No program that is built runs them.
* **Parsing of HTTP requests, TCP**: the server takes one request at a time; only its use of frames and of the header is
  seen by others.
* **Drawing, fonts, JPEG decoding, touch geometry, headers' bytes, time formatting**: computations of one thread on its own data.
* **FAT and exFAT structures, reading of files, card identification, sensor registers, MAC and PHY set-up, frames longer
  than a buffer, the stack of `netThread` on which its interface stays after it ended**: data or start-up sequences that the
  models' properties do not tell apart, or, for the last, memory that no model here has.
* **FreeRTOS, LwIP, LibJPEG, CMSIS, the HAL**: third-party code, nearly all of the repository's lines. What the program relies
  on is modelled where it is used: semaphores and priorities, `sys_timeout`, `dhcp.c`, `tcpip.c`, `HAL_SD`, `HAL_ETH`.
