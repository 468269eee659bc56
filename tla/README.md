# A verification project for the single-pixel infra-red camera

The program under verification (`temp.rpi/IRcamera`) turns one infra-red sensor
into a camera.  Two stepper motors, each driven by a Phidget stepper board on
USB, point the sensor at one pixel after another; a Raspberry Pi reads the
temperature over I2C; the picture is then written as it is, or, if only a part
of the pixels was measured, reconstructed from wavelet coefficients (FISTA).
The motors are moved through `libphidget21`, whose source is part of the
repository and is built with the program: it is the concurrent part of the
system, and most of what can go wrong in ways a test would hardly reach is
there.

All paths below are relative to the repository; file names without a directory
are in `temp.rpi/libphidget` (`cphidget*.c`, `cthread.c`,
`linux/cusblinux-1.0.c`) or `temp.rpi/IRcamera` (`IRcamera.c`, `brain.c`,
`steppers.c`).

## 1. The system

| Component | State | Operations | Module | Status |
|---|---|---|---|---|
| Write queue of a stepper handle and its threads | queue of one packet, two events, `writelock`, stop flags, status bits | setters (`sendpacket`), `CPhidget_write`, write and read thread, the taking down by `CPhidget_close` and by `CPhidgetDetachEvent` | `StepperLink`, `PacketChannel` | modelled, proved |
| Attaching a stepper again | the link, the steps of `attachActiveDevice`, the age of packets | `attachActiveDevice`, `initAfterOpen`, with setters and closes that began earlier | `Reattach` | modelled, proved |
| Opening, attaching and detaching | lists `ActiveDevices`, `AttachedDevices`; per handle: status bits, `specificDevice`, `serialNumber`; three locks | `CPhidget_open`, `CPhidget_close`, the central thread (`CPhidgetManager_poll`, `findActiveDevices`, `CPhidgetDetachEvent`), the bus | `Attach` | modelled, proved |
| Stepper state and packets | target, engaged and stopped state, packet counter, and the echoes of the board | `dataInput`, `initAfterOpen`, `makePacket`, setters, `getStopped` | `StepperState` | modelled, proved |
| Aiming | positions and targets of both motors, what the application believes of them | `gotoPixel2D`, `gotoPixel2DandExit`, `gotoLocation`, `haltStepper` | `Aim` | modelled, proved |
| Scanning the picture | the loop counters, the lists `y` and `idx` | `dumbCamera`, `getMeasurementsFromBranch`, the sampling part of `mainIST` | `Scan` | modelled, proved |
| Infra-red sensor, main program | EEPROM cell, I2C controller and its FIFO | `main` up to the scan, `writeConfigParams`, `findPec`, `readConfig`, `readTemp`, `bcm2835_i2c_write`, `bcm2835_i2c_read_register_rs` | `I2C`, `IRSensor` | modelled, proved |
| Wavelet transform, FISTA | the arrays of an iteration | `dwt2_full`, `idwt2_full`, `FISTA` | `Wavelet`, `Fista` | modelled, proved |
| Arduino camera (earlier version) | picture file on an SD card | `initPPM`, `writePixel2`, `readPixel`, `takePicture` | | not modelled |
| Tree sampling, Python IST | coefficients known so far | `tree`, `recurse` | | not modelled |
| Image output, plots, noise and wait-time experiments, build files, MATLAB | | | | not modelled |
| Rest of libphidget21 | other devices, network, zeroconf, Java, LabVIEW | | | not modelled |

How they interact.  `main` creates two stepper handles and opens both with serial
number -1 (`initStepper`; its argument `serialNumber` is not used).  Opening
puts the handle in `ActiveDevices` and starts the *central thread*, one for the
process, which polls the bus every 250 ms, attaches handles to boards
(`findActiveDevice`) and takes handles down when their board disappears or
reports an error (`CPhidgetDetachEvent`).  Attaching a handle starts its *read
thread* (reports of the board go through `dataInput`) and its *write thread*
(packets of the setters go to the board).  The scan in `brain.c` calls the
`goto` functions of `steppers.c`, which call a setter for each motor and then
poll the position that the read thread stores; then it reads the sensor and
stores the reading.

The behaviours that are hard here, in the order in which they decided the plan:

1. One handle is used by up to four threads (application, read, write, central)
   under `writelock`, two events and a handful of status bits.  An event is a
   flag and a condition variable waited for *once*, with a time limit: lost
   wake-ups, wake-ups without a cause and late signals are all possible.
2. The application and the central thread both take handles down: both set the
   stop flags, join the same threads and close the same USB connection.
3. A handle opened with -1 "is equal" to other handles in ways that depend on
   what is attached at that moment; registration and the recovery from errors
   use this equality.
4. Boards are unplugged, come back, fail while they are opened or are enumerated
   with errors, between any two steps.
5. What a handle knows of its motor is what the board reported some time ago.
   Whether a report is older or newer than the last packet is decided by a counter of
   four bits, and the application polls this knowledge in loops without a limit.
6. The scan walks every other row backwards, with three versions of the
   expression for the column, and the reconstruction takes a fixed number of
   readings from a random number of them.
7. The I2C functions poll a controller that goes on by itself while the
   processor is elsewhere; the power may fail while the EEPROM is being written.

What makes each component correct: *link*: every packet a setter was told is
accepted reaches the board once and in order as long as the connection lives,
setters and closing return, nothing runs any more after a close; *attach*: open
handles and registered handles are the same, a board serves one handle, a
waiting handle is served, losses and errors are noticed, a handle is taken down
by one thread at a time, close returns; *scan*: every reading is stored at the
index of the pixel it was taken from, none over another, every pixel is
measured; *state*: a motor that is said to have stopped has executed everything
and rests where it was sent; *aim*: a goto returns when the motors are where the
pixel is, and it returns; *wavelet, FISTA*: the transforms are those of the Haar
wavelets, and no iteration makes the fit worse; *sensor*: a transfer that says OK has
moved every byte, the sensor works with the configuration that was asked for.

The hazards, each at its line and with the properties that cover it, are in
`PROJECT.json`; one has no property, and a note that says why.

## 2. Modules and how they correspond to the code

### StepperLink: from the setters to the board

One attachment of one handle, from `attachActiveDevice` having set
`PHIDGET_ATTACHED_FLAG` and started the threads until it has been taken down.

| Actor | Places (variable) | Code |
|---|---|---|
| each client in `Clients` | `pc[c]` | a setter: `SENDPACKETINDEXED` and `sendpacket` of `cphidgetmacros.h`; or the local part of `CPhidget_close` |
| write thread | `wpc`, `buf`, `wres` | `WriteThreadFunction`, `CPhidget_write`, `getPacket`, `CUSBSendPacket` |
| read thread | `rpc` | `ReadThreadFunction`, `CPhidget_read`, the lock in `dataInput` |
| central thread | `cpc` | the error branch of `CPhidgetManager_poll`, `CPhidgetDetachEvent`, `CUSBCloseHandle` |
| the cable | `plugged` | |

The grain of the steps is that of the synchronisation: one action per access to
a lock, an event, the queue, a stop flag, the status bits or the USB handle; a
section under a mutex of the library that nothing can interrupt visibly is one
action.  Packets are numbered in the order in which they enter the queue: the
properties tell packets apart, not what is in them.  0 is the empty queue, and
also the zeroed buffer that `CPhidget_write` sends when it finds the queue empty
(`getPacket` returns OK with length 0, which is ignored).  `accepted`,
`delivered`, `phantom`, `detachBegun` and `spurious` are history variables; no
guard reads them, except for the bounds.

A wait is a place and a set `signalled` of the threads whose condition has been
signalled while they waited.  A waiter goes on because of a signal, without a
cause (as `pthread_cond_timedwait` may, at most `MaxSpurious` times), or because
of the time limit, and a signal that comes after the time-out has no effect
except for the flag.

`PacketChannel` is the abstract specification: a first-in first-out channel of
`Capacity` packets that may stop for good.

### Reattach: the link over several attachments

`Reattach` extends `StepperLink` by `attachActiveDevice`: `apc` is the place of the central thread in it, from
`CUSBOpenHandle` over `initAfterOpen` (empty the queue, read the first report, take over the state) and
the two resets to the start of the threads.  The actions of `StepperLink` are taken over as they are, with
two guards added: a close waits for the end of an attachment (`openCloseLock`), and the central
thread either attaches or detaches.  A setter is not stopped by a detach, nor by the next attachment,
except that `dataInput` needs `writelock` for the first report, if the read succeeds.
The histories `attachment`, `made`, `madeIn` and `old` say in which attachment a packet was made and
received.  A board comes back (`Plug`) only after its loss has been seen; that a version does
not fit or a thread cannot be created is left out.

### Attach: which handle has which board

| Actor | Places | Code |
|---|---|---|
| application, one thread | `mpc`, `mh` | `CPhidget_open`, `RegisterLocalDevice`, `StartCentralThread`; `CPhidget_close`, `JoinCentralThread` |
| central thread | `cpc`, `todo`, `gone`, `polling`, `dev`, `matches`, `phid` | `CentralThreadFunction`, `CPhidgetManager_poll`, `CUSBBuildList`, `findActiveDevice(s)`, `attachActiveDevice`, `CPhidgetDetachEvent` |
| bus | `bus`, `broken` | plugging, unplugging, USB errors |

`active` are the handles in the list `ActiveDevices`, and `since` says when each was put
in.  A handle is in the list at most once, because open looks for it first, and a new one is
put at the end, so set and times are the list.  Its order matters, because
`CList_findInList` takes the first handle that is equal and
`CList_removeFromList` looks at the head first and then stops if it fits.
`matches` is likewise a set of handles with the place of each, as it was when
`findActiveDevice` collected them.
`known` is `AttachedDevices`; it is a set, since its order decides only in which
order boards are looked at, and that order is left open.  The locks are
conditions on places: `MainHolds(h)` and `CentralHolds(h)` say who is between lock
and unlock of `openCloseLock`, `ActiveFree` that the central thread is not in the
part of `CPhidgetDetachEvent` that holds `activeDevicesLock` while it joins
threads.  Sections under one lock that do not block are one action.

An attachment is one bit here (`attached`); what goes on during it is
`StepperLink`.  `broken` marks handles whose board was unplugged: the flag says
attached, the connection is dead.  `serial` and `specific` are the fields
`serialNumber` and `specificDevice`, including that a detached handle keeps the
serial number of the board it had.

### Scan: which pixel, and where its reading goes

`yy`, `xx` are the loop counters, `aim` the pixel the sensor points at, `samples`
what has been stored, in order, each reading with the index it was stored at and
the pixel it was taken from.  `main` calls `mainIST`; the other two scans are called by
lines that are commented out at present.  `scan` says which of the three functions runs,
`region` which part of the picture (`getMeasurementsFromBranch` takes one).  The
condition `rand() % n < upper` is a free choice.  `HorizPixel` holds the three
expressions for the column of an odd row, as they are in the three functions.
`Upper` is `(int)(n * p)`.  A reading out of range is taken again in the code;
the repetition changes nothing that is modelled.

### StepperState: what a handle knows of its motor

| Actor | State | Code |
|---|---|---|
| a setter of the application | `spc`, `req`, `packet`; `target`, `engaged`, `stopped`, `made` | `setTargetPosition`, `setCurrentPosition`, `setEngaged` and the limits, `SENDPACKETINDEXED`, `makePacket` |
| read thread | `rpc`, `done`; `echo`, `stopped` | `CPhidgetStepper_dataInput` |
| central thread | `apc`, `attached`; `writing` | `initAfterOpen`, the flag in `attachActiveDevice`, the detach, a failing transfer of the write thread |
| board (outside the repository) | `board`, `report`, `out` | what `dataInput` and `makePacket` take for granted of it |

`target` is `motorPosition`, `made` is `packetCounter`, `echo` are the four echoes that
`dataInput` stores.  The counter is kept as a number that does not come round; the code compares
it modulo `CounterMod` (`Same`), and so does the model.  `setEngaged`, and the velocity and
acceleration limits, are packets of one kind, as in the code.  `out` is what `StepperLink` proves its
queue to be: a channel of two packets, and one place when the write thread is dead.

A setter tests the flag (`Call`), waits for `writelock` and assigns (`Assign`), makes its packet (`MakePacket`), and in
`sendpacket` tests the flag again (`TestStatus`) and finds room or waits (`Enqueue`, `AwaitRoom`); from the assignment on it
holds the lock, as `dataInput` does in `Decide`.  An attachment takes no lock of its own: it clears the fields
(`AttachClear`), reads (`FirstRead`), copies the echoes to the fields (`CopyPlace`, `CopyCounter`) and sets the flag
(`SetAttached`), with a setter of the attachment before at any place in between.
Two histories mark the attachments in which the code does not know what it
should.  `initAfterOpen` ignores the result of its `CPhidget_read`: in a `blind` attachment it failed, and
everything is unknown.  In a `crossed` one a setter made its packet before the counter was copied, most of all between
`dataInput`'s unlock and the copy; it queues it once the flag is set, and no number of the handle stands for it.

### Aim: when the sensor is where the pixel is

`Goto` begins `gotoPixel2D` ("exact"), `gotoPixel2DandExit` ("early") or `gotoPixel` with
`gotoLocation` ("one" axis); `SetTargets`, `PollH`, `PollV`, `TestVelocity` are the steps of their
bodies, `ReadTemp` and `Rested` what the scan does after `waitMillis`: it reads, and then `mainIST` waits once
more, while `getMeasurementsFromBranch` and `dumbCamera` go on to the next goto.  A pixel may be in column `Width`, at which
`mainIST` aims in odd rows; its location is `Far`.  Time is counted in `Tick`s:
a motor moves at most its speed in a tick, changes its speed by one, brakes for its target; a
report is at most `MaxAge` ticks old.  `loc` are the local variables `sendHorizLoc` and
`sendVertLoc`, with the behaviour of a failing `getCurrentPosition`: it leaves them alone.
What the model takes for granted: no tick passes between the two setters of a goto, and a packet that
was accepted is executed before the next tick.

### I2C and IRSensor: the sensor and `main`

`I2C` has the two functions of `bcm2835.c` step by step (`StartWrite`, `Fill`, `StartReadRegister`,
`RepeatStart`, `Take`, `TransferOver`, `Finish`) and, as `Wire...`, the controller they poll, which goes on
between any two of their steps; `DONE` stays set after a call, until the next one clears it.  Bytes are numbered by their place in the message.  `IRSensor` adds
`main`: the EEPROM is cleared and written (`EepromWritten`, `Settled`), the power is cycled, the
configuration is read and printed, and temperatures are read until one is in range.  `FindPec` is the
table of `findPec`.  The checksum that the sensor computes is a constant, `Checksum`, and the
assumption `PecTable` says that the whole table agrees with it; the run gives it the CRC-8 of the module `Pec`
(`Crc8`), so that TLC evaluates the assumption, and the proofs need nothing else of it.  `PowerFails` may come at
any step and the program then starts again.

### Wavelet and Fista: the reconstruction

`Wavelet` has `dwt`, `idwt`, `dwt2`, `idwt2`, the copying of corners, and one turn of the loops of
`dwt2_full` and `idwt2_full` as operators on arrays of integers; `width>>k` is `width \div Pow2[k]`.  `Fista` is the loop of `FISTA`: one action per
level of a transform, the comparison with the readings, the soft threshold.  A number stands
for a multiple of 1/`Scale`, with `Scale` such that every halving is exact; the two divisions by the root of
two in each direction are one halving.  The reference (`Wave`, `HaarOf`, `PictureOf`, `Objective`) is
written from the definition of the Haar wavelets and does not use the operators of the code.
`xold1` is set to `xold` right before the next iteration subtracts the two, so the momentum
that distinguishes FISTA from IST is always zero; the model has the code as it is.

## 3. What is model-checked

| Run | Module, instance | Asks | Result |
|---|---|---|---|
| `link_safety` | two clients, 3 packets, 1 wake-up without a signal | type, no lost wake-up, conservation of packets, no packet out of nothing, close leaves nothing behind, no transfer on a closed handle (read thread; write thread outside a detach), refinement of `PacketChannel` | holds |
| `link_flush` | one client, 2 packets | is a packet that was accepted sent before a close? | **no** |
| `reattach` | one client, 2 packets, 2 attachments, fair | setters, close, detach and attach return; the queue drains of what was made for this attachment; no thread is started beside an earlier one | holds |
| `attach_app` | two handles, never closed, opened with -1, or one with -1 and one with a number; two boards; 4 bus events; fair | one owner per board; a waiting handle is served | holds |
| `attach_serial` | two handles with different numbers, opened and closed, 3 opens, two boards, 3 bus events; fair | type, registration, one tear-down at a time, life of the central thread, recovery from errors, a loss is noticed | holds |
| `attach_close` | one handle, one board | does the last `CPhidget_close` return? | **no** |
| `state` | 3 setter calls, a counter modulo 3, at most 2 packets behind, two faults, attachments while a setter is anywhere in its call; fair | type; stopped means executed and at rest at the target; stopped is reported | holds |
| `aim` | 2 x 8 pixels, two gotos, a vertical motor half as fast, scans that wait once or twice, one fault; fair | type, with no motor ever outside the picture; the sensor is read at its pixel; the loops end | holds |
| `sensor` | FIFO of 2 bytes, three configurations, one loss of power, two readings; fair | type; OK means every byte moved; the sensor is configured; a transfer ends | holds |
| `scan_cover` | 4 x 3 pixels, all scans, all regions, every choice of `rand` | readings placed, every pixel measured, short moves, arrays large enough | holds |
| `scan_samples` | 4 x 3 pixels, `mainIST` | are there as many readings as FISTA uses? | **no** |
| `fista` | 4 x 4 pixels, 2 iterations, several samplings, with a pixel read twice | type, both transforms are those of the Haar wavelets, no iteration makes the fit worse | holds |

Each property of a passing run also has a mutant in `PROJECT.json`: an operator of
the module that changes one definition the way a plausible bug would, and under
which the property fails.  These operators stand in front of the actions under
the heading "Faults" and are no part of the specification.

### The disagreements found

* **A last packet is dropped by close** (`link_flush`).  `WriteThreadFunction` tests
  `writeStopFlag` only after its wait has timed out, "so actual writes are not
  missed".  A packet that is queued between the time-out and the test is: the
  thread exits, `CPhidget_close` has joined it and goes on.  This is the pattern of
  `haltStepper`, whose `setEngaged(0)` is followed at once by `CPhidget_close`.
* **Close and central thread wait for each other** (`attach_close`).  The central
  thread has put a handle in `matches`, let go of `activeDevicesLock` and wants
  the handle's `openCloseLock`; `CPhidget_close` holds that lock, finds
  `ActiveDevices` empty and joins the central thread.
* **Too few samples** (`scan_samples`).  FISTA uses the first `upper` entries of `y` and
  `idx`, however many were stored.  `mainIST` also aims at column `width - xx` in odd
  rows, where the other scans have `width - xx - 1`: the first pixel of such a row is
  taken one column outside and stored as the first pixel of the next row.
  `Placed` is therefore stated of the other two scans only, and `SamplesSound`
  has both conditions.  With `srand(42)` of glibc the 1024 x 1024 picture gets 525226 readings
  for 524288, which is enough, and 266 of them misplaced; 64 x 64 pixels get 2028
  for 2048.

Limits of the code that show in what the properties except or what an instance leaves out,
and for which no run is kept:

* `CPhidgetDetachEvent` closes the USB handle before it joins the write thread, which may be in a
  transfer; `CPhidget_close` has the order right.  `ClosedHandleUnused` excepts the detach.
* `attachActiveDevice` resets the events ("make sure the write events are in a good state", cphidget.c:1336)
  after the first read.  A setter that passed its status test before the detach may have filled the queue since
  `initAfterOpen` emptied it; its wake-up is then gone, the packet stays in the queue, and every setter
  returns `EPHIDGET_TIMEOUT` until the next detach wakes the write thread.  A read that succeeds does not help:
  it waits for the setter to finish, and the reset comes after.  `QueueDrains` excepts packets of an earlier attachment.
* Such a packet may also reach the board of the next attachment ("Make sure no old writes are still
  pending", cphidgetstepper.c:54): if the first read fails, which nobody looks at, nothing waits for the setter; if it
  succeeds, a setter may still make its packet between `dataInput` and the taking over of the state.
  `OneOldWrite` says, and the proof shows, that there is no second one before the next detach.
* With such a packet under way `getStopped` may be TRUE, against "the motor is not moving and there are no outstanding
  commands" (cphidgetstepper.h:223): the copies have put the board's counter and place over those of the packet,
  so that the handle agrees with the first report.  `StoppedSound` excepts the attachments this happens in
  (`crossed`), and those whose first read failed (`blind`); TLC finds it violated without either exception.
* Two handles opened with -1 are equal whatever their boards, so that closing one may take
  the other out of `ActiveDevices`, and an error of one is hidden by the other while
  that one waits in front of it.  `attach_serial` has a number for each handle.  The theorems about registration
  are for handles with numbers of their own (`OwnNumbers`), and for handles all opened with -1
  (`AnyNumber`) of which none is closed, as in the camera, or always the one opened first (`HeadFirst`).
* A board that is unplugged and back before the next poll (250 ms) is in both lists of the poll, so its
  handle is never taken down.  `QuickReplug` is FALSE in the runs.
* After a packet was lost with a failing transfer, or an attachment that began while the motor
  was moving, `getStopped` never becomes TRUE, and `haltStepper` polls for ever.  `StopReported` assumes
  that handle and board agree.
* If a board is lost during a goto, after the first poll, the goto does not end; before it, the goto
  counts as having arrived.  `GotoReturns` and `ReadAimed` except both.
* `gotoPixel2DandExit` tests the velocity of the farther axis only.  For a long move of
  the slower motor the early exit is too early; the scans move by one row at most.
  The motors still brake when the sensor is read: `Blur` must be at least 1.  After a single wait the next
  goto of `getMeasurementsFromBranch` may find them still on their way, and its first poll a motor that goes through
  the new pixel.
* `readTemp` reads the checksum byte and does not look at it, nor at the result of the
  transfer; what was on the stack is then taken for a temperature if it is in range.
* `findPec` answers 0xFF for a configuration that is not in its table.  The sensor would refuse that write, and nothing in the
  code would notice; `main` asks for one of the table, and `Configured` speaks of those.

One more is left as what `PhantomOnlyInDetach` allows: a detach of a board that is
still on the bus wakes the write thread before it clears `PHIDGET_ATTACHED_FLAG`, and the
write thread then sends a zeroed buffer that no setter made.  The property says,
and the proof shows, that this and a wake-up without a cause are the only ways.

### Bounds, and why they are enough

* `StepperLink`: `MaxSends` bounds how many packets are made, `MaxSpurious` the
  wake-ups without a signal.  At most two packets are under way (proved), so three
  fill the queue while one is being sent and one more waits; two clients compete
  for `writelock`, so that one is inside `sendpacket` while the other waits for the
  lock, closes, or both.  What returns in the end is asked in `Reattach`.
  The proofs need none of these bounds: they hold for any `Clients`, `MaxSends`,
  `MaxSpurious`.
* `Reattach`: `MaxAttachments` bounds the attachments; two are one before and one after.  The run has one client,
  as the program has for each handle, and two packets: the second one finds the queue full.  A wake-up without
  a signal is left out of it, for size: a thread so woken looks again and waits anew.  The
  theorems hold for every bound and for any `Clients`; `OneOldWrite`, about two setters of an earlier
  attachment, is proved and stands in no run.
* `Attach`: `MaxEvents` bounds what happens on the bus (a plug, an unplug, a USB
  error, a failing open, a failing enumeration count one each), `MaxOpens` the
  calls of open.  Two handles and two boards are what the camera has.  Four events let a
  board be lost, come back and fail again while the other one is being attached; three opens
  let one handle be closed and opened again while the other lives.
  After the events are used up the bus is at rest, which is what the liveness
  properties speak about; they hold after every such history.
* `Scan`: 4 x 3 pixels give both directions of a row, a first, an inner and a last row
  and column, regions of every shape that fits, an even and an odd first row of a region.
  The theorems hold for every size.
* `StepperState`: `CounterMod` is 3 instead of 16 and `MaxLag` 2, the largest for which the
  counter tells packets apart: with `MaxLag = CounterMod` TLC finds `StoppedSound` violated.  Three setter
  calls take the counter round once; of two faults one ends an attachment and one spoils the first read of the
  next, or a transfer in it.  The theorems hold for every `MaxLag` below
  `CounterMod`; that fewer than sixteen packets are made between a report and its arrival is an assumption
  on the board, which reports every few milliseconds, while a setter waits for a USB transfer.
* `Aim`: eight rows leave room for the vertical motor to reach its speed, to brake, and to be
  still on its way when the horizontal one has arrived.  Two gotos, so that the second one
  finds what the first one left, at rest or, after a single wait, still moving; one fault.
* `IRSensor`: a FIFO of two bytes holds neither a write of four nor an answer of three, so that
  every loop of the transfers turns.  Three of the fourteen configurations; all are in `PecTable`.
* `Fista`: 4 x 4 pixels have two levels, so that a corner is really transformed in place; the second
  iteration begins with coefficients that are not zero.

### Abstractions a reader should know of

* `Attach`: one application thread (the camera has one); `CPhidget_delete` and the
  memory of a handle are left out, so a use after it is not found; `QuickReplug`
  is FALSE in the runs: they assume that a board that is unplugged stays away until
  the poll after.  `attach_serial` gives each handle its own number.  A handle that is closed and opened with *another* number while it is in
  `matches` is attached under the old one; no run opens a handle with two numbers.
* `CUSBBuildList`: a board it knows is found by its bus address without I/O; a
  new one must be opened and asked for its number, and may be missed; a
  failure of the whole list leaves it empty.
* `StepperLink`, `Reattach` and `StepperState` see one handle; `StepperState` has one application thread, as the
  program has.
* `StepperState` and `Aim`: a board is what the code takes for granted of it.  A motor changes its
  speed by one in a step and brakes in time for a target it was given in time.
* `Fista`: integers for floating-point numbers, square pictures, a whole `CUT`.
* `IRSensor`: whether a temperature is in range is a free choice; the number of readings is bounded,
  the code's loop is not.
* `pthread` mutexes are fair only as far as weak fairness on each thread makes
  them; no property needs more.

### Fairness

`ReattachFairSpec`, for the link: weak fairness of each thread's own steps, `attachActiveDevice` being among those
of the central thread.  The threads
are kernel threads and every wait in them has a time limit (`CThread_wait_on_event`
with 200 ms in the write thread and 1500 ms in `sendpacket`, the USB transfers with
theirs), so a thread that can go on does.  That a lock is free at infinitely many moments
is not assumed to be enough to get it: where a
property needs a lock, the holder gives it up for good.  No fairness is assumed for calls of the
application (`Call`, `CloseBegin`), for plugging and unplugging or for wake-ups without a signal.
`FairSpec` of `Attach`: weak fairness of the central thread (its wait ends after 250 ms)
and of a call of open or close that has begun; none for the bus and
for new calls.  `FairSpec` of `StepperState`, `Aim` and `IRSensor`: weak fairness of the program that is in a
call, of the threads of the library, of the boards, the wire and the time, which do not wait for the
program; none for new calls of setters, for faults or for failures of the power.

## 4. What is proved

Eight modules of proofs, checked by TLAPS, for every value of the constants that satisfies the
assumption of the module: `LinkAssumption` (the clients are neither "nobody" nor "writer", the
bounds are natural numbers), `AttachAssumption` (`Any` is no number and `None` no handle), `StateAssumption` (fewer than
`CounterMod` packets between a report and its arrival), `ScanAssumption` (the picture is not empty, `Upper`
is at most the number of pixels), `I2CAssumption` (the FIFO is not empty), `SensorAssumption` and `PecTable` (the
configurations are ones of `findPec`'s table, which agrees with the checksum), `AimAssumption` (the picture is not
empty, speeds, ages and waits are natural numbers), `FistaAssumption` (the pixels that were read are of the picture).

| Module | Theorem | States | By |
|---|---|---|---|
| `StepperLink_proofs` | `TypeCorrect` | `[]TypeOK` | itself inductive |
| | `WakeupNeverLost` | `[]NoLostWakeup` | inductive with `TypeOK` |
| | `PacketsConserved` | `[](TypeOK /\ LinkInv)`, with `Conservation` | `LinkInv` |
| | `LinkImplementsChannel` | `Spec => ImplementsChannel` | `LinkInv`, a step at a time |
| | `NoEarlyPhantom` | `[]PhantomOnlyInDetach` | `Mutex`, `WakeupMeansPacket` |
| | `CloseLeavesNothing` | `[]CloseQuiesces` | `CloseInv` |
| | `HandleOpenWhenUsed` | `[]ClosedHandleUnused` | `CloseInv` |
| `Reattach_proofs` | `ReattachTypeCorrect`, `SettersExclude` | `[](TypeOK /\ AgeOK)`, `[]Mutex`, over any number of attachments | the lemmas of `StepperLink_proofs` |
| | `ThreadsStartOnce` | `[]OneThreadEach` | `Phases` |
| | `AtMostOneOldWrite` | `OneOldWrite` | `OnePlace`, `Phases`, `Mutex` |
| `Attach_proofs` | `TypeCorrect` | `[]TypeOK` | itself inductive |
| | `ThreadLives` | `[]CentralRuns` | `CentralInv` |
| | `DeviceHasOneOwner` | `[]OneOwner` | `OwnerInv` |
| | `ListIsOpened`, `TakenDownOnce` | `[]Registered`, `[]OneTeardown`, if `OwnNumbers`, or if `AnyNumber` and `HeadFirst` | `ListInv`, with `NumberInv` for `OwnNumbers` |
| `StepperState_proofs` | `TypeCorrect` | `[]TypeOK` | itself inductive, with `PlacesKnown`, `EchoKnown`, `DetachedQuiet` |
| | `StoppedCorrect` | `[]StoppedSound` | `StateInv`, `AttachInv` |
| `Scan_proofs` | `ScanCorrect` | `[](TypeOK /\ ScanInv)` | `ScanInv` |
| | `ReadingsPlaced`, `PictureComplete` | `[]Placed`, `[]Complete` | `ScanInv` |
| | `ReadingsFit`, `MovesShort` | `[]SamplesFit`, `ShortMoves` | `CountInv`, `NearInv` |
| `IRSensor_proofs` | `TransfersCorrect`, `TransferRanges` | `[]TransferSound`, `[]I2CTypeOK`, for any calls | `TransferInv`, `RangeInv` |
| | `TypeCorrect`, `MainTransfersCorrect` | `[]TypeOK`, `[]TransferSound`, for the calls of `main` | every call of `main` is one of those |
| | `SensorConfigured` | `[]Configured` | `ConfigInv` |
| `Aim_proofs` | `TypeCorrect` | `[]TypeOK`, with no motor ever outside the picture | `Typed`, `InPicture` |
| | `ExactAimed` | `[]ReadAimed` for the exact gotos | `AimInv`, if `Patient` |
| | `EarlyWithin` | how far a motor can be from its target after an early exit | `AimInv`, if `Patient` |
| `Fista_proofs` | `LineInverse`, `CoefficientInverse` | `dwt` and `idwt` undo each other on a line of any even length | arithmetic |
| | `PictureInverse`, `CoefficientsInverse` | `dwt2` and `idwt2` undo each other on a picture of any even size | four pixels of a square at a time |
| | `LevelInverse`, `LevelInverseBack` | so do the levels of `dwt2_full` and `idwt2_full` in place | `CornerKept`, `CornerRestored` |
| | `TypeCorrect` | `[]TypeOK` | `FistaInv` |
| | `NothingLost`, `StepsUndone` | the transforms in the loop lead back to what they began with, at the end and at each step | `FistaInv` |
| | `AnalysedCorrect`, `SynthesisedCorrect` | `[]Analysed`, `[]Synthesised`: the transforms are those of the Haar wavelets | `Coarse`, `Partial` in `FistaInv` |
| | `IterationsDescend` | `Descent`: no iteration makes the fit worse | `KeepsLength`, `Adjoint`, `ThresholdBest` |
| | `NoMomentum` | the extrapolation changes nothing | `AtTop` |

**Conservation.**  `Conservation` counts, for a live write thread, what is in the queue and
in its buffer; alone it is not inductive, since a step from "in the buffer" to "delivered" must
know *which* packet is in the buffer.  `LinkInv` adds `InOrder` (the queue holds the
last packet accepted, the buffer the first not delivered) and `Bounded`, which survives
the death of the write thread and gives the refinement: `Accept` of the channel needs
`accepted < delivered + 2` at the moment the queue is filled, and the queue is filled only when empty.

**No packet out of nothing.**  `PhantomOnlyInDetach` needs that, before a detach and without
spontaneous wake-ups, a wake-up *means* a packet (`WakeupMeansPacket`): the setter
that filled the queue has not signalled yet, or exactly its signal is pending.  Two
setters between filling and signalling would break it; `Mutex` excludes them.

**Closing.**  `CloseInv` says who may take the handle down (`OneCloser`: `openCloseLock`;
`CloseOrDetach`: a handle that is being closed is not in `ActiveDevices`, where alone a
detach finds it) and what has been done at each place of a close and of a
detach (`CloseProgress`, `DetachProgress`); `Down` says what it means for the threads that the
USB handle is closed.  The last one is what makes the reads safe and `CloseQuiesces` follow.

**Attaching again.**  `Split` says that a step of `Reattach` is a step of `StepperLink`, one of
`attachActiveDevice` or a board coming back, so that what `StepperLink_proofs` shows of a step carries over.
`Phases` says that attaching, detaching and closing do not meet and find no write thread
running that they did not start.  `OnePlace` follows an old packet: with the setter that made it,
in the queue, in the write thread's hand, received.  Two could coexist only if one waits in the queue while
another setter holds the next one; then the reset of the event has taken the first one's
wake-up (`Mutex`: no other setter is about to signal), and it stays where it is until a detach begins.

**Attaching.**  `OneOwner` follows from what happens to a handle between being collected and being
attached (`OwnerInv`): a collected handle is not attached, only the central thread attaches, and
from the moment it has the handle's `openCloseLock` until the end of the attempt the application is not
at work on that handle, so that its number is still that of the device; the claim of the
interface does the rest.  It needs no assumption on how handles are opened.  `Registered` does:
the removal by equality must remove exactly the handle (`ListInv`).  With numbers of its own a handle is equal to
no other (`NumberInv`), whatever it was attached to meanwhile.  With -1 it may be equal to all, but the removal
looks at the head first and stops there, so that it is right for the handle that was opened first; and a removal that
does not happen is right anyway.
`OneTeardown` is then that a handle being closed is not in the list, and one being detached is.

**Stopped.**  `StoppedSound` rests on an order of numbers (`Numbered`): board, packets under way, counter of the
handle.  All that `dataInput` may still compare with is less than a lap behind (`Recent`), so that equality
modulo `CounterMod` is equality, hence nothing is under way.  A report of a motor at rest is still true
if no packet was executed since it was made (`RestTold`), and the last packet carried the flag that
the handle shows (`FlagSent`).  All this holds in an attachment whose first read succeeded and that no
packet crossed.  What leads to it is `AttachInv`: from the first read on, an attachment holds what is still true
of the board, which executes nothing meanwhile; a setter that makes its packet after `CopyCounter` counts on
from there, and a packet that was made before and is still held or queued at the copy has crossed.

**The scan.**  `Placed` and `Complete` follow from an order: a pixel of the present row is
`Passed` if the loop came to it before, which in an odd row means that it lies to
the right.  What has been stored is passed (`SamplesInv`), so the present pixel
is new (`DistinctInv`); for `dumbCamera` what is passed has been stored (`CoverInv`).  That the index of a
pixel is inside the array and tells pixels apart (`IndexInRange`, `IndexInjective`) is
the only arithmetic.  `CountInv` bounds the number of readings by the pixels passed; `NearInv` says which pixel
the last reading of `dumbCamera` was taken from.

**Transfers.**  `TransferInv` accounts for every byte: for a write, not yet in the FIFO, in it, or over the
wire; for a read, in the buffer or, in order, in the FIFO.  A `DONE` that was left from the first stage
ends the loop of a read too early, but not with OK, as bytes remain.  `Use` allows
all calls, at all times and with any length, of which `IRSensor` makes four.

**Configuration.**  `Configured` speaks of two writes that said OK.  By `TransferSound` all bytes of each were then
moved, so the cell was first cleared and then written, in this start: `ConfigInv` follows the message through
`main`, says at which places the cell holds what this start has put there (a failing power takes `main` back to the
start, and the cell may hold anything), and by `PecTable` the sensor finds the checksum right and takes the value.

**Aiming.**  `AimInv` says, as long as nothing was lost and no setter failed (`calm`), where each motor is from
one place of a goto to the next.  A motor is still (`Still`: it rests, and
the last report says so), or on its way (`OnWay`: it can still stop at its target, which it was sent or will be sent last;
the last report is not nearer to the target than the motor is, and shows it at rest if it shows the target).  Hence a
polled position that equals the target means that the motor is there for good (`Seen`), and both have been seen when
`gotoPixel2D` returns (`There`).  After `gotoPixel2DandExit` the farther one was no farther than the wait times a speed
of its own, and so was the nearer one (`Near`), which is `EarlyWithin`.  How far the brakes bring both in the wait
is only model-checked (`Blur`).

These theorems assume `Patient`: an early goto begins when the motors rest.  Without it a motor still on its way to the last pixel may be
polled *at* the new one, going through.  With the two waits of `mainIST` it is so in the instance of `MCAim`; with the one
of `getMeasurementsFromBranch` it is not, and of that scan only what `ReadAimed` says in that instance is known.
`dumbCamera` does not call the early goto.  `TypeCorrect` does not assume it: however the gotos follow each
other, no motor leaves the picture.  A motor that can stop at its target goes no farther than the target; one that cannot brakes, and the
point where it will come to rest (`StopPoint`) stays where it is, inside the picture (`MovedBounded`).  TLC has checked `AimInv` as
an invariant, and `Patient` of every step with two waits, in the instance of `MCAim`; they stand in no run, being lemmas.

**The transforms.**  Both directions mix the four pixels of a square into four numbers, one for
each quarter of the corner; doing it twice gives four times each (`Dwt2Sums`, `Idwt2Sums`), and the two halvings
are exact on even numbers.  A level takes a corner out and puts it back, and what the other transform takes out is
what was put in (`CornerKept`); what is outside has never been touched (`CornerRestored`).

**The iterations.**  That the halvings are exact where they happen is the invariant `FistaInv`: with `i` iterations
done, `Room(i)` halvings are to come, and the coefficients are multiples of `2^Room(i)` (`Exact`); a level
uses up one.  The readings are multiples of `Scale`, hence of all powers that are needed later, and the threshold
takes away multiples of `Scale`.  With it, each level is undone by the other transform, and
`Leads` strings the levels together: from `t1`, all levels of `dwt2_full` lead to `xold`.

**The wavelets.**  That a transform is the one of the Haar wavelets says something about its whole result; the
invariant says what has become of it after some of the levels.  After `l` levels of `dwt2_full` (`Coarse`) a place of the
corner holds the sum over its block of `2^l x 2^l` pixels, divided by `2^l`, and the places outside hold
the coefficients of the reference.  With `l` levels of `idwt2_full` to go (`Partial`) a place of the corner holds
what the coefficients of the corner add up to on the pixels of its block, and outside stand the coefficients still to
come.  A level splits each block into four quarters, on which the three new wavelets of the block are 1 or -1, and 0
everywhere else (`WaveAt`); so `dwt2_full` forms its sums from those of the quarters (`DifferenceSum`), and to a pixel
exactly three coefficients are added (`CornerSum`).  No division appears in it: each claim is about a
number times a side, and `FistaInv` says that the numbers can be halved.

**The fit.**  `IterationsDescend` is the usual argument for thresholding with a step of length 1, with whole numbers
and with the code's way to cut off.  A step `d` of the coefficients changes the picture by the picture of `d`
(`SynthesisMinus`), whose squares add up to those of `d` (`KeepsLength`, which follows from the two transforms undoing each
other: `ReachableEnd`); what it does to the misfit is what it does to the misfit's coefficients (`Adjoint`).  At
the pixels that were not read the step can only cost (`MisfitStep`).  So the objective rises by no more than a sum over the
coefficients, in which the threshold has made each term as small as it can be (`ThresholdBest`).  It needs `xold1 = xold`
during an iteration, and so shows where the momentum that FISTA should have would break it.

**Induction.**  The induction theorems of the library have an operator as a parameter, which the provers cannot
instantiate.  `Fista_proofs` uses sets instead: a set of numbers with 0 and with every successor contains all of them
(`Induction`), because a set that is not empty has a least element (`Least`, from `NatLessThanWellFounded`).  With
it the recursion of `Pow2` is shown to have a solution (`Pow2Facts`), and what it computes.  The sums of the
reference are the library's `SumFunctionOnSet`, a recursion over the subsets of a set: it has one solution (`SumExists`,
`SumUnique`), from which any element may be taken out first (`SumOut`), and sums over parts add up (`SumUnion`).

Only model-checked: all liveness properties (under fairness, beyond this prover); of `Aim`, `ReadAimed` after an early goto.

## 5. Not modelled

* **A handle opened with another number while it is in `matches`** (cphidget.c:1220): the behaviour is in
  `Attach` for instances in which `Opens` has two numbers for a handle; the application has none.
* **Arduino camera**: the earlier program, which shares no code with this one; its scan is the one
  of `dumbCamera` without the way back, the rest is files on a card.
* **Tree sampling and the Python prototype**: studies that run on a workstation on picture files and decide by
  comparing floating-point numbers.  `brain.c` was translated from the prototype, and is what is modelled.
* **Image output, plots, MATLAB**: formatting and drawing.
* **Experiments** (`testNoise`, `testWaitTime`, `config.c`): straight-line code run by hand.
* **The rest of libphidget21**: other devices, the network client, zeroconf, the bindings for Java and LabVIEW.
  It makes up most of the lines of the repository and is not used by the camera, which opens two local
  steppers; of the library the parts are modelled that those two go through.
* **The rest of `bcm2835.c`**: GPIO, PWM, SPI, timers are register accesses without states of their own.

## 6. Running it

    tlc -config MCStepperLink_safety.cfg MCStepperLink      # and so on, as in PROJECT.json
    tlapm StepperLink_proofs.tla                            # and the other *_proofs.tla

`CHECK_DEADLOCK` is off where the program may really stop: in the runs of `Attach` in which the application
closes its handles (with every handle closed the central thread has ended and nothing has to
happen any more), in `MCIRSensor` (`main` ends), in `MCFista` (the reconstruction ends) and in
`MCAim` (the bound on the gotos can be used up).  `attach_serial` contains the circular wait
that `attach_close` reports; its own properties are invariants, or hold in such a state as well.
