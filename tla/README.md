# A TLA+ verification of teensy-io

teensy-io drives the pins of a Teensy 4.1 from a host. Three programs take part:

- the **firmware** (`src/teensy-io-firmware`, C++): parses binary packets from the
  USB serial port, executes commands on pins, counters, encoders, I2C buses and
  DACs, sends telemetry, and stops the outputs when the host goes silent;
- the **Python client** (`src/teensy-io-python`): turns method calls into commands,
  batches and flushes them from several threads, matches responses, keeps telemetry
  and event queues, sends heartbeats;
- the **ROS bridge** (`src/teensy-io-ros`): exposes the client as topics and services.

This directory holds TLA+ modules of the parts whose correctness depends on order,
concurrency, failure or the limits of machine numbers, TLC runs on small instances
and TLAPS proofs for all instances.

## 1. Inventory

### Firmware

**Safety latch and watchdog** (`safety/SafetyState.h`). State: `emergency_stop_`,
`watchdog_expired_`, `last_heartbeat_ms_`, on the 32-bit `millis()` clock, which wraps.
Operations: `heartbeat`, `emergency_stop`, `clear_emergency_stop`, `update`,
`outputs_allowed`. Hard: the wrap; a heartbeat that arrives after the watchdog has
fired clears one of the two flags. Correct when: a driven output means a fresh host;
only the clear command releases a stop.

**Output commands** (`commands/CommandHandler.cpp`: system, digital, PWM, I2C, DAC
handlers, `apply_safe_outputs`, `update`). State: `pwm_configured_`,
`i2c_configured_`, `dacs_`; behind them the pin multiplexer and the external devices.
Hard: the safe output follows a record (`pwm_configured_`) that other commands on the
same pin do not maintain; guards must hold for every sequence of commands. Correct
when: after a stop no PWM pin drives, nothing starts to drive during one, a refused
command has done nothing, a DAC slot has its bus and its value fits.

**Counters and encoders** (`CommandHandler.cpp:23-111, 501-654`, `io/PulseCounter.h`).
State: the slots `g_counters`, `g_encoders`, and the handler attached to every pin.
Operations: configure, reset, read, reset of the configuration; interrupt handlers
that run in between and inside `configure_encoder`. Correct when: handlers follow the
configuration, and every edge is counted once.

**Asynchronous output** (`queue_async`, `flush_async`). State: a ring of frames with
head, tail, count and drop counter. Hard: overflow while head and tail coincide, a
flush that stops for want of room, a reset in the middle. Correct when: it is a
first-in first-out queue that gives up its oldest frame.

**Main loop** (`main.cpp`). Alternates between reading input and `update()`. Hard:
`update()`, and so the watchdog, runs only when the input is drained.

**Subscriptions** (`CommandHandler.cpp:656-762, 942-989`). State: 16 slots with resource,
rate, flags, `next_due_ms` and the last sample. Operations: subscribe, unsubscribe,
reset, and `update_subscriptions`, slot by slot. Hard: due times on the wrapping clock
compared without subtracting; signals that move between two samples; resources that are
taken away under a subscription. Correct when: whoever follows the events of a slot
knows the value, and telemetry comes at the rate asked for.

**Packet parser, writer and CRC** (`protocol/`, and `protocol/packet.py` on the host).
State: the board's parser keeps the frame so far, the host's decoder a buffer. Hard:
damaged frames and stray bytes, start bytes inside payloads and checksums, reads that
cut the stream anywhere, unknown types. Correct when: what is decoded was sent, in
order, and no undamaged frame is lost by the host.

**Analog input**: reads of the converter, which change nothing.

### Host

**Command queue** (`client.py`: `connect`, `close`, `batch`, `_command`,
`_queue_packet`, `flush`, `_start_auto_flush`). State: `_batch_depth`, `_queued`,
`_queued_bytes`, `_lock`, `_transport_lock`, the flush thread. Hard: several threads; a
decision taken under one lock section and acted on in another; writes that fail; two
locks; a join with a timeout. Correct when: the byte count is exact, order is kept, the
transport has one user, the queue drains and is flushed by `close()`, no call waits for
ever.

**Request and reply** (`_command`, `_read_response`, `_handle_async_packet`,
`_put_bounded`, `_poll_async_packets`). State: `_seq`, telemetry and event queues with
drop counters. Hard: timeouts and the late responses they leave; responses of batched
commands nobody waits for; 16-bit sequence numbers that wrap; lost packets; two threads
that put frames into one bounded queue. Correct when: a call gets its own answer;
telemetry keeps its order and what is dropped is counted.

**Resources and configuration** (`resources/*.py`, `config/`, `configure_all`,
`_counter_id` and its kin). State: the loaded file, the handles with their pins,
identifiers, resolutions and last counts, the dictionaries that give identifiers. Hard:
sections that refer to earlier sections; a configuration that is refused or whose answer
is lost half-way; handles changed before the command is sent; counts that wrap or are
cleared behind a handle's back. Correct when: what `configure_all` returns from is on the
board as the file says; deltas are the edges; an acknowledged write is the value asked
for, where the name says.

**Heartbeat thread** (`start_heartbeat`, `stop_heartbeat`): ends on any exception; the
join has a timeout. **Serial transport**: a wrapper of pyserial.

**ROS bridge** (`bridge_node.py`). State: the client, `_name_by_ref`, the counters of a
poll. Operations: `main()`, services, `_subscribe`, `configure_names`, `_poll`. Callbacks
of a single-threaded executor do not overlap, but the heartbeat thread of the client runs
beside them. Correct when: frames are published once, in order, under their name; a
service says ok only for what was done; the queues are emptied however small the budget
of a poll.

### How they interact

    ROS bridge -> handles -> client --packets--> parser -> CommandHandler -> pins, DACs
                               ^                              ^   |
         heartbeat and         |                   interrupts-+   | frames
         flush threads --------+ <--- responses, telemetry -------+

Shared state is the command queue, the transport and the host queues (several
threads), and the counter and encoder slots (main loop and interrupt handlers).
Everything else in the firmware belongs to `loop()`.

## 2. Modules

| module | models | builds on |
|---|---|---|
| `SafetyState` | class SafetyState | |
| `PinDrive` | pins as the Teensy core drives them, `apply_safe_outputs` | |
| `I2cDac` | buses, DAC slots, device outputs, `write_dac_raw` | |
| `OutputSafety` | every output command, `update()`, time | the three above |
| `WatchdogLoop` | `loop()`, receive buffer, a host that degrades | `SafetyState` |
| `DropQueue` | *abstract*: what asynchronous output promises | |
| `AsyncOutbound` | the ring; refines `DropQueue` | `DropQueue` (INSTANCE) |
| `Subscriptions` | the slots that queue frames | |
| `Interrupts` | counters, encoders, handlers, edges | |
| `PacketCodec` | framing, decoder and parser, on bytes | |
| `CommandQueue` | the client's queue, batches, flush, connect, close, by threads | |
| `RequestReply` | sequence numbers, responses, telemetry queue | |
| `ReceivePath` | the telemetry queue under two threads | |
| `HostResources` | file, handles, identifiers, calls, and the board's memory of them | |
| `Bridge` | the ROS bridge | `HostResources` |
| `MCOutputSafety`, `MCAsyncOutbound`, `MCLink`, `MCBridge` | instances for TLC | see below |
| `OutputSafetyProofs`, `InterruptsProofs`, `CommandQueueProofs`, `RequestReplyProofs` | theorems and proofs | the module named |
| `OutboundProofs` | theorems and proofs about `AsyncOutbound` and `Subscriptions` | `MCAsyncOutbound` |
| `LinkProofs` | theorems and proofs about `PacketCodec`, and the types of both levels of the link | `MCLink`, `RequestReplyProofs` |
| `HostProofs` | theorems and proofs about `HostResources` and `Bridge` | `MCBridge` |
| `InductionLemmas` | least elements, induction up to a number, definition by recursion, parts of sequences | library theorems |

Operators carry the names of the functions they model, variables those of the fields
(underscores included). An operator `Foo_something` marked "Mutant" in a comment is
`Foo` with a plausible mistake; no specification uses it. It documents which mistake a
property excludes: with the mutant in place of `Foo` the property fails.

The `MC` modules join what belongs together into one run and let each behaviour look at
one side, chosen in the initial state: pins or DACs (`focus`), the ring or the slots that
feed it (`part`), packets or bytes (`level`), a script or the bridge on top of the client
(`application`). In the first three the two sides share no variables but the safety
flags, which `MCOutputSafety` sets on both, so nothing is lost but the product of their
states; in `MCBridge` they are two programs, of which one uses the client at a time. A
module without an `MC` module is its own instance.

### Correspondence and granularity

`OutputSafety`. One action is one call of `CommandHandler::handle` with one command, or
one `update()`. The firmware is single threaded and its interrupt handlers touch none
of this state, so a call is atomic. A handler's disjuncts are its early returns in the
order of the code, then its effect. A pin is multiplexed to GPIO (driven by its latch
if its direction is output) or to a timer (driven by its duty): `pinMode` selects GPIO,
`analogWrite` the timer, `digitalWrite` sets the latch; this is what the Teensy core
does and is marked external. A device that does not acknowledge a transfer is the
disjunct `ResourceUnavailable`. Pin numbers, buses and identifiers range over valid and
invalid values. `age`, `lag` and `latched` are history: the true time since the host was
last heard, the time since the last `update()`, and whether a stop came after the last
clear.

`WatchdogLoop`. `Handle` is one frame taken by the while loop, `Update` the loop with
nothing to read. The clock may not overtake the processor: `StepsPerMs` steps of
`loop()` run between two ticks. The host gets worse, never better.

`AsyncOutbound`. The loops of `flush_async` and `update_subscriptions` are taken one
frame at a time since the port's transmit buffer drains concurrently (`Drain`) and
replies use it too (`Reply`). A frame is a member of a set, with the encoded size that
`flush_async` compares with the room.

`Interrupts`. Commands run with one step each where the code disables interrupts or
an edge makes no difference; `configure_encoder` runs with interrupts enabled and is
four steps (`configure_encoder`, `SampleEncoder`, `AttachEncoder` twice). `Edge` changes
a level and raises the interrupt, `Interrupt` runs the handler. History variables count
what should be counted and note slots that shared a pin (`clash`), edges that came
while one was pending (`overrun`) and encoders both of whose pins changed between two
samples (`missed`): the cases in which no software could count right.

`Subscriptions`. One slot of `update_subscriptions` is one step, since signals move while
it runs; the clock is read once and stands still meanwhile. A value is 0 or 1. `Counters`
stands for every resource that must be configured to be read, `DigitalPins` for those
that need not; an entry of `inputs` is such a pin. A slot whose resource is gone is freed
(`SkipSlot`). History: the age of the last report, whether the clock has wrapped since,
the last sample, and what a host knows that follows the events.

`PacketCodec`. Bytes from a small set of values, one of them the start byte. The checksum
is one symbol that stands for the content it covers: the CRC is taken to have no
collisions, and its value may still look like a start byte. The sequence number and the
second byte of the length are left out; both are read and written like the payload. One
call of `feed` is one step. `Turn` is one turn of its `while` loop; where the code breaks,
a turn changes nothing more, so `feed` is as many turns as there are bytes, each turn but
the last taking a byte or more off the buffer. `PushAll` calls `push` for each byte of a
read, as `loop()` does. Both loops are recursive functions.

`CommandQueue`. A section under `self._lock` is one step; `_transport_lock` is held over
steps and is a variable. A thread's position is `pc`. `DecideQueue`, `_queue_packet` and
`CheckFlush` are separate because the code leaves the lock in between. `transport.write`
may raise where `failing`. The application connects once; `close()` is called by a thread
that may have a batch open, once the other application threads are done. `Join` may time
out while the flush thread is in a write.

`RequestReply`. One host thread, the board, and two queues of packets on their way. Any
number of arrived packets comes with one read (`ReadResponse(k)`), which is what decides
what happens to packets behind the response. A packet that fails its CRC is lost
(`Lose`), in either direction.

`ReceivePath`. The application polls without the transport's lock, the heartbeat thread
reads with it; `_put_bounded` is taken in its three calls on the queue, each of which is
atomic in Python's `queue`.

`HostResources`. Calls come one after the other, from one thread. Configuring a handle is
one step that changes the handle, the identifiers and the board as far as the code got
before it raised, was refused, or lost the command or its answer; `configure_all` is a
step per entry. The board is what its slots hold and for which handle. Of the fields of
an entry the model keeps what can make a difference to these steps (the module says
which). History: edges since the last delta, counts the board cleared, configurations
that were not acknowledged.

`Bridge`. A callback that makes one call is one step; `_poll` is a step per frame, because
the heartbeat thread puts frames into the queues between them (`Receive`). The frames of
`_poll_async_packets` and those of the heartbeat thread reach the queues through the same
action.

## 3. Runs

| run (`.cfg`) | asks | result |
|---|---|---|
| `output_safety` (`MCOutputSafety`) | two PWM pins, an invalid pin, clock of 5 values, all sequences of commands; or two buses and an invalid one, one DAC slot and an invalid one | holds, 297 000 states |
| `output_safety_i2c` (`OutputSafetyI2c`) | does a stop hold DAC outputs? | **no**: raw I2C transfers |
| `async_outbound` (`MCAsyncOutbound`) | ring of 3, flush limit 2, buffer of 3 units; or two slots, a pin and a counter, three rates, clock of 4 values | holds, 2 126 000; the ring refines `DropQueue` |
| `interrupts_slots` (`InterruptsSlots`) | a counter and an encoder over two pins, shared at times | holds, 1 380 000 |
| `interrupts_docs` (`InterruptsDocs`) | the documented configuration on pins 5 and 6 | **fails**: the shared pin |
| `watchdog_gone` (`WatchdogLoopGone`) | is a silent host always noticed? | yes (liveness), 16 100 |
| `watchdog_flood` (`WatchdogLoopFlood`) | are lost heartbeats noticed while commands flow? | **no** |
| `command_queue` (`CommandQueue`) | two threads, two calls, two batches, failing writes or none, with and without a flush thread, from connect to close; safety and liveness | holds, 39 900 |
| `link` (`MCLink`) | own answers, order, drop counter with numbers that wrap, timeouts and a loss; or three frames, one of them damaged or a stray byte, cut anywhere | holds, 333 000 |
| `request_reply_frame` (`RequestReplyFrame`) | do only responses end a call? | **no**, at sequence number 0 |
| `receive_path` (`ReceivePath`) | is every lost frame counted, with two threads? | **no**: `_put_bounded` has no lock |
| `host` (`MCBridge`) | files of up to two entries, flaws, refusals, a lost command or answer; script or bridge | holds (liveness included), 413 000 |

### What the properties say

- `StoppedPwmPinsOff`, `NoEnergizeWhileStopped`: whatever was configured, reconfigured
  or refused before, a stop silences the PWM pins, and nothing drives a pin until it is
  cleared. GPIO outputs that were high before a stop stay high; the code does not claim
  otherwise, and the properties do not either.
- `DrivenPinIsFresh`: the watchdog bounds the time a PWM pin drives after the host was
  last heard, across the wrap of the clock, to the timeout and one round of `loop()`.
- `StopIsLatched`: the outputs are stopped from a stop, by command or watchdog, exactly to
  the next clear: no heartbeat, reset or configuration releases them.
- `RefusedChangesNothing`: every nack comes before any effect.
- `DacSlotsSound`, `DacHeldWhileStopped`: a DAC slot never outlives its bus, the clamp
  holds behind the truncating cast, DAC commands move nothing in a stop.
- `SilentHostStops`: a host that is gone leads to stopped outputs for good.
- `OutboundTypeOK`, `LinkTypeOK`, `HostTypeOK`: the types of the two modules a run composes.
- `RingCoherent`, `ImplementsDropQueue`: see `DropQueue`.
- `EventsTrackValue`: `update_subscriptions` compares with the last *sample*, not with the
  last event, so a slot that asked for one kind of edge still tells of every such edge.
- `TelemetryAtRate`: a slot reports no sooner than its interval and in the first update
  from then on. The property excepts the time around a wrap of the clock, where the code's
  `now < next_due_ms` is wrong: a slot due before the wrap reports at every update, one
  due after it too early. The board reaches this after 49 days.
- `NoDanglingIsr`, `UnsharedIsAttached`: handlers serve exactly the slots configured on
  their pins, as long as pins are not shared.
- `CounterTracks`, `EncoderTracks`: counts equal the edges and the travel of the shaft,
  edges between the steps of `configure_encoder` included.
- `BytesAccounted`, `QueueOrderKept`, `TransportExclusive`, `CloseFlushes`,
  `QueueDrains`, `CallsEnd`. `QueueDrains` is the subtle one: a packet may be decided to
  be queued in a batch that is closed and flushed before the packet is in the queue;
  `CheckFlush` saves it. `CloseFlushes` excepts a failed write and a join that timed out:
  then `close()` may leave packets behind.
- `AnswerIsOwn`: no call takes the response of a call that timed out or of a batched
  command, as long as fewer packets are under way than there are sequence numbers.
- `TelemetryInOrder`: order through queue and drops, and an exact drop counter.
- `DecodesIntact`, `ChunksDoNotMatter`: the host's decoder against a reference that
  looks for whole frames in the stream: there are undamaged frames (`kept`), one for each
  packet decoded, in the order of the stream and without overlap; every other undamaged
  frame that the host is past, or behind whose start a largest frame's worth of bytes has
  come, begins inside a kept one (the checksum of a frame may read as the start of
  another). Where reads cut the stream makes no difference. `BoardDecodesIntact`: the
  board's parser, which does not look back, may lose frames behind a damaged one and
  nothing else.
- `AppliedAsWritten`, `QuietConfigApplies`: what `configure_all` returns from is on the
  board; a valid file fails only for a reason the file shows, or a lost answer.
- `DeltaExact`, `WriteExact`: see section 1. `DeltaExact` excepts the one delta after the
  board has cleared the count without the handle's knowledge (attaching again, a reset of
  the configuration, a reset whose answer was lost); `WriteExact` a handle whose last
  configuration was not acknowledged: the handle takes its resolution before the board
  does.
- `PublishedInOrder`, `PublishedUnderItsName`, `OkMeansDone`, `QueuesDrain`: the bridge.

### Bounds, and why they are enough

- *Clock* (`ClockMod` 5, timeout 1, lag 1): the smallest clock on which the timeout, a
  round of the loop and the wrap are all distinct and the wrap happens in every phase;
  `OutputSafetyProofs` removes the bound. DAC behaviours need no clock: the command
  `EmergencyStop` sets the flags that they read.
- *Pins, buses, slots*: two of each kind that interact, and an invalid argument of each
  kind; handlers act on one pin or bus (encoders on two), so a third adds no new
  interaction. Word width 2 bits and scale 2 let a normalized value overflow the word.
- *Ring*: three slots, so that head, tail and middle differ; up to four frames in one
  update, so that one update overflows the ring; frames of two sizes, so that a flush
  stops in front of a large one. Counters wrap at 3. The proofs remove the bounds.
- *Subscriptions*: two slots, so that the first free one, doubled subscriptions and a full
  table occur; no rate, a rate whose interval is `Second` and one that is rounded up to a
  millisecond; a clock of 4, on which every phase of a wrap occurs. Slots do not interact,
  and the proofs remove the bounds.
- *Interrupts*: two pins are what an encoder needs and what sharing needs. Counts wrap
  at 4, so runs wrap many times; runs are not bounded in length. The proofs are for any
  pins, slots and width.
- *CommandQueue*: two threads, two calls, two batches, packets of one and three bytes, a
  limit of four and chunks of two: a packet larger than a chunk, a full queue, nested
  and overlapping batches all occur. Whether a rate is set and whether writes may fail is
  chosen in the initial state. The proofs remove the bounds for every safety property; a
  queue without a limit of bytes (`None`) is one whose limit is never reached.
- *RequestReply*: sequence range 4 and six calls, so numbers repeat; at most three
  packets on their way (`Window`), fewer than the range, which on the real link holds
  by a wide margin (some hundred packets against 65 536). Losses are bounded so that
  `Window + MaxLosses <= SeqRange`: a response that stays on the link while the commands
  behind it are lost could otherwise meet its own number again. The bound is exact, one
  more loss violates `AnswerIsOwn`; on the real link it is more than 65 000 losses while
  one response waits in a buffer. The proofs keep this assumption and remove the other
  bounds.
- *PacketCodec*: three frames or stray bytes in all, one damaged: what a damaged frame does
  to those before and behind it. The start byte is a legal value of payload, checksum and
  length field, payloads have up to two bytes, and one of the types sent is unknown to the
  host. The stream is complete before the first read; a read takes up to three bytes. The
  proofs remove the bounds, and leave the stream complete before it is read.
- *HostResources, Bridge*: two names, two pins, two resolutions and two entries, so that
  every pair of sections meets, with names and pins equal or not; four pieces of work
  (entries and calls); counts of four values and four edges, which wrap; one loss. The bridge
  starts with files without flaws, since a script has covered the others; queues of two
  frames, three frames in all and a budget of one per poll, so that a queue overflows
  and a poll ends with frames left. The proofs remove the bounds for every safety property.
- *ReceivePath*: a queue of one frame and two heartbeats are all the violation needs.

Deadlock is checked except in `CommandQueue`, `MCLink`, `RequestReply`, `ReceivePath` and
`MCBridge`, whose bounded applications and streams end.

### Fairness, and why the code justifies it

- `WatchdogLoop`: weak fairness of `Loop` (the Arduino core calls `loop()` for ever) and
  of `Tick` (time passes). None of the host, which owes the board nothing.
- `CommandQueue`: strong fairness of each thread's `Progress` and of the flush thread's
  `Flush`: a thread that finds the transport free again and again gets it some time.
  Python's locks promise no order, but neither do they starve a waiter for ever under
  the operating systems' wakeups; a weaker assumption would make `CallsEnd` a statement
  about the scheduler. Weak fairness of `end_batch` (applications leave their `with`
  blocks), of the steps of `close()` and of the flush thread's wakeup and end (its timed
  wait ends). A response wait ends by response or timeout, hence `Await` under `Progress`;
  a write returns or raises. `QueueDrains` promises nothing where writes may fail: after a
  failed write the flush thread is dead.
- `Bridge`: weak fairness of `_poll`: the timer fires again, and a callback that has begun
  is run to its end. None of services, frames or the heartbeat thread.

The other specifications state no fairness.

## 4. Where code and documents disagree

Each is a run that violates the property stating the document's claim.

1. `output_safety_i2c`: `I2cWrite` (`CommandHandler.cpp:814`) does not ask
   `outputs_allowed()`; a raw transfer moves a DAC during a stop.
   `docs/SAFETY_AND_CONFIG.md:7` promises that such commands are rejected.
2. `interrupts_docs`: the example configuration puts a counter and an encoder on pin 6;
   `configure_encoder` takes the pin from the counter, which stays active and counts
   nothing.
3. `watchdog_flood`: `update()` is not reached while input keeps coming, so lost
   heartbeats go unnoticed while other commands flow fast enough;
   `docs/SAFETY_AND_CONFIG.md:18` says the firmware enters the safe state.
4. `request_reply_frame`: sequence numbers reach 0 when they wrap, and 0 is what every
   asynchronous frame carries; the frame ends the call with `ProtocolError`.
5. `receive_path`: `_put_bounded` (`client.py:430`) gives up a frame and puts again without
   a lock; when another thread has taken the place, `queue.Full` leaves the poll, or ends
   the heartbeat thread, and the frame is lost and not counted. `README.md:125` promises
   drop counters.

Behaviour worth knowing that no run states, because no document of the code contradicts
it: the encoder's mode is stored and never used, so the
documented modes x1 and x2 count like x4; `emergency_stop()` called while any thread has
a batch open is queued and returns unsent; `_read_response` returns from inside its loop
over decoded packets, so telemetry decoded behind the response is lost and not counted; a
frame of a type the host does not know stays in the decoder's buffer and raises in every
later call.

## 5. Proofs

TLAPS checks the following for every value of the constants that satisfies the named
assumptions.

| theorem | says | assumptions |
|---|---|---|
| `TypeCorrect` | `Spec => []TypeOK` (OutputSafety) | `ClockAssumption`, `LagAssumption`, `PinAssumption`, `DacAssumption`, `PowerAssumption` |
| `StopSilencesPwm` | `[]StoppedPwmPinsOff` | the same |
| `WatchdogBoundsDrive` | `[]DrivenPinIsFresh` | the same |
| `StopStaysLatched` | `[]StopIsLatched` | the same |
| `StopStartsNothing` | `NoEnergizeWhileStopped` | the same |
| `RefusalHasNoEffect` | `RefusedChangesNothing` | none |
| `DacSlotsStaySound` | `[]DacSlotsSound` | as `TypeCorrect` |
| `DacsHoldInStop` | `DacHeldWhileStopped` | none |
| `RingTypeCorrect`, `RingStaysCoherent` | `[]TypeOK`, `[]RingCoherent` | `RingAssumption` |
| `RingImplementsDropQueue` | `Spec => ImplementsDropQueue` | `RingAssumption` |
| `InterruptTypes`, `NoHandlerDangles` | `[]TypeOK`, `[]NoDanglingIsr` | `InterruptAssumption` |
| `UnsharedKeepsHandlers` | `[]UnsharedIsAttached` | `InterruptAssumption` |
| `CountersCount`, `EncodersFollow` | `[]CounterTracks`, `[]EncoderTracks` | `InterruptAssumption` |
| `SlotTypes`, `EventsFollowed` | `SubSpec => []SubTypeOK`, `[]EventsTrackValue` | `SubAssumption` |
| `TelemetryKeepsRate` | `SubSpec => TelemetryAtRate` | `SubAssumption` |
| `TransportHasOneUser` | `[]TransportExclusive` | `ClientAssumption` |
| `BytesStayAccounted` | `[]BytesAccounted` | `ClientAssumption` |
| `QueueKeepsOrder` | `[]QueueOrderKept` | `ClientAssumption` |
| `CloseHasFlushed` | `[]CloseFlushes` | `ClientAssumption` |
| `OutboundTypesCorrect` | `MCSpec => []OutboundTypeOK` | `RingAssumption`, `SubAssumption` |
| `LinkTypesHold` | `[]TypeOK` (RequestReply) | `LinkAssumption` |
| `AnswersAreOwn`, `TelemetryOrdered` | `[]AnswerIsOwn`, `[]TelemetryInOrder` | `LinkAssumption` |
| `ChunksAreAlike`, `HostDecodesIntact` | `CodecSpec => []ChunksDoNotMatter`, `[]DecodesIntact` | `CodecAssumption` |
| `BoardDecodesFrames`, `CodecTypesCorrect` | `CodecSpec => []BoardDecodesIntact`, `[]CodecTypeOK` | `CodecAssumption` |
| `LinkTypesCorrect` | `MCSpec => []LinkTypeOK` | `LinkAssumption`, `CodecAssumption` |
| `DeltasAreExact`, `WritesAreExact` | `[]DeltaExact`, `[]WriteExact` | `HostAssumption` |
| `FilesAreApplied` | `[]AppliedAsWritten` | `HostAssumption` |
| `QuietFilesAreApplied` | `[]QuietConfigApplies` | `HostAssumption` |
| `BridgeIsExact`, `BridgeAppliesItsFile` | the same four for `BridgeSpec` | `HostAssumption`, `BridgeAssumption` |
| `PublishingIsOrdered`, `NamesAreRight`, `OkIsDone` | `BridgeSpec => []PublishedInOrder`, `[]PublishedUnderItsName`, `[]OkMeansDone` | the same |
| `HostTypes` | `[]TypeOK` (HostResources) | `HostAssumption` |
| `HostTypesCorrect` | `MCSpec => []HostTypeOK` | `HostAssumption`, `BridgeAssumption` |

Most assumptions are the ranges of constants. Those that say more: `LagAssumption` (a
round of the loop and the timeout fit in one turn of the clock), `LinkAssumption` (fewer
packets under way and lost than there are sequence numbers, see section 3),
`ClientAssumption` ("free" and "nobody" are not names of threads), `HostAssumption` (names
are not numbers, and the junk value of a file is neither), `BridgeAssumption` (a queue has
room for a frame; a `maxsize` of 0 would be no bound). `CodecAssumption` says that bytes and
bounds are naturals: the start byte may be a type, a length, or any byte of a payload.

**OutputSafety.** `DrivenPinIsFresh` is not inductive. The watchdog sees the difference
of two wrapped times, so the invariant says when that difference is the true age
(`AgeOnClock`: while less than one turn of the clock has passed) and that outputs are
allowed only to a fresh host (`AllowedIsFresh`); together with `LagAssumption`, that a
round of `loop()` and the timeout fit in one turn of the clock, no host can go unheard
for a whole turn and look fresh. `FlagsAgree` (the watchdog flag
implies the emergency-stop flag, which is set exactly while a stop is latched) is why a
heartbeat that clears the watchdog flag releases nothing, and is all that `StopIsLatched`
needs. `StoppedPwmPinsOff` rests on the two steps that
take `outputs_allowed` away both running `apply_safe_outputs`, and on the guards of the
steps that could drive a pin afterwards. `SafetyInv` is the conjunction.
`PowerAssumption` is arithmetic (powers of two up to the word width are natural numbers
in order) that the backends do not know; TLC evaluates it. The
action properties need no invariant but the types: `StoppedStep` goes through the commands
and finds that what the outputs' guards let pass during a stop switches pins off.
`DacSlotsSound` is inductive with the types: only
`ResetConfig` takes a bus away and it empties every slot, and what is written into a slot
has been clamped (`ClampedInRange`).

**AsyncOutbound.** `RingInv` is `TypeOK` and `RingCoherent`: the tail is `count` slots
after the head and exactly the slots in between hold frames. `QueueIsPut` and
`FlushIsSend` show that under it a step of the ring is a step of the queue read off the
ring from its head; every other step is `Reset` or a stutter.

**Interrupts.** `IsrInv` adds to the types and `NoDanglingIsr` that a pending pin has a
handler, without which an interrupt could run for nobody, and that the slot under
configuration stays active, without which `AttachEncoder` would attach a handler to a
slot that is not configured on the pin. `UnsharedIsAttached` needs the invariant `AttachInv`: slots that share a
pin *now* are in `clash` (`SharingIsNoted`; otherwise detaching the pins of one could
detach the other), and the handlers still missing are those that the `configure_encoder`
under way has yet to attach (`HasHandlers`). `AttachInvConfigured` is the one argument for
counters and encoders. `CounterInv`: a counter that
shares nothing has its edge in its pin's trigger, so an edge it has to count becomes
pending, and its edges are its count and the one that is pending, if none came on top of
it. `EncoderInv`: the travel is the position and the quarter turn between the last sample
and the present levels, which can be told as long as the two are not opposite; `SampleInv`
says why an edge before `SampleEncoder` changes nothing: nobody handles the pins yet.

**Subscriptions.** `SlotsInv` has three parts beside the types: what a slot remembers is
what it sampled last (`Remembered`), whoever follows the events of a slot knows that
sample where an event was asked for (`Followed`), and for as long as the clock has not
wrapped the due time is one interval after the last report, or has come (`Timed`).
`TelemetryAtRate` follows from the last for one step of `UpdateSlot`.

**CommandQueue.** `LockInv`: a thread between the first write and the last read of an
exchange, or between taking packets from the queue and having written them, is the owner
of the transport's lock. Every step is of one of four kinds, a lemma each: it moves a
thread between places, takes the free lock, gives it back, or touches neither. `QueueInv`
adds `SessionInv` (who may still be where while `close()` goes on, and that it has found
the queue empty before it closes the transport), `BytesAccounted`, and `OrderInv`: packets
in the queue and in chunks are in the order in which they were accepted, after
all that were written. A failed write puts its chunk back in front; this keeps the order
for the reason `LockInv` gives, that nobody else can have taken from the queue meanwhile.

**RequestReply.** `LinkInv` bounds how old a number can be: between a command on its way
and the present call there are no more calls than commands behind it and losses
(`CommandsInTime`), and for a response the packets behind it and the commands under way
come on top (`RepliesInTime`). So an old response is less than a turn of the sequence
behind, which is where the assumption is needed and why it is exact. For telemetry, frames
read, queued and under way are increasing, and a read that brings several packets is
an induction over them, with `PutLater` as its step.

**PacketCodec.** Where a frame stands in the stream is said byte by byte (`HasFrame`), and a
candidate passes every check of the decoder exactly where one stands (`CandidateStands`,
`StandingMatches`): a checksum is told apart by what it covers, so the length in front of it
is the right one. `feed` is a run of turns (`Run`) that ends however many turns are counted
(`RunEnds`, since a turn shortens the buffer), and bytes behind those in the buffer change
no turn but the last, which waited for them (`TurnJoined`, `WaitJoined`). So two calls are
one call with both pieces (`FedTogether`), which gives `HostFed`, the invariant of
`ChunksAreAlike`: the host is where one call with all the bytes would have left it.
`HostReads`: up to the first call that raises, what was decoded are frames of the stream
that follow each other, and at every byte in front of the buffer at which a frame stands,
that frame is kept or begins inside a kept one (`Good`). A turn keeps this because it skips
only bytes at which no frame stands or will stand. What waits is shorter than a largest
frame, hence the bound in `DecodesIntact`. For the board nothing is said of the frames
behind a damaged one. As long as nothing was damaged the stream is whole frames end to end
(`Tiled`) and the parser holds the first bytes of the next one, so a start byte inside a
payload or a checksum is never taken for a start (`BoardInv`).

**HostResources and Bridge.** `HostInv`: names and identifiers are one to one and only
grow (`HandlesInv`); a counting slot is that of the handle it is for (`SlotsInv`); its
value is congruent, modulo the width, to what the handle has read last and the edges
since, unless the board has cleared it (`CountsInv`); a handle whose configuration was
acknowledged has a slot, which is as the host believes (`SettledInv`). `DeltaExact` and
`WriteExact` follow at the step that makes the call, and stay, as they speak of that call
(`CallInv`). `RunInv` follows `configure_all` through the file: the first *k* entries are
on the board or have been replaced by a later one (`Applied`), and a number that the file
gives is that of the last entry for its handle. Since the sections come in order, what an
entry refers to has been applied before it (`EarlierSections`), so it is found with the
right number, or the file does not have it (`PlanApplies`). `BridgeInv` adds that
subscribed slots and names fit each other (`NamesInv`), that an answer of ok is
backed by the call (`AnswerInv`), and that frames shown, queued and dropped are all that
arrived, in rising order (`FramesInv`). The types need two facts that are not types
(`TypesInv`): the file has been validated, which is why identifiers and pins that it gives
are numbers, and a DAC on the board has one of the resolutions that there are, which is why
the highest value of its slot is a number. `ApplicationInv` keeps them under a script and
under the bridge.

**Induction over data.** The library's induction theorems have an operator as a
parameter, which the backends cannot instantiate. `InductionLemmas` has sets in place of
operators: a set of counterexamples has a least element, and of that one the step says
that it is none. The sizes of queued packets, reads of several packets, the turns of the
decoder and the bytes pushed into the parser are treated in this way. No module that is
proved about has a RECURSIVE operator.

Every invariant and every action property that a passing run checks is stated by a theorem,
and so is the refinement of `DropQueue`. Model-checked only are the liveness properties:
`SilentHostStops`, `QueueDrains`, `CallsEnd` and `QueuesDrain` rest on fairness, and ENABLED
is beyond the prover.

## 6. What is not modelled

- `set_watchdog_timeout`: nothing calls it.
- The period and frequency of counters, on the board and the window of
  `PulseCounter.frequency` on the host; values of analog conversions.
- The electrical pulse between `pinMode` and `digitalWrite`, which is a few cycles inside
  one handler.
- Collisions of the CRC.
- What DAC telemetry reports against what the device puts out: the board records 0 on
  `ConfigDac` and on a reset while the device keeps its output.
- Two threads inside the decoder at once (`_poll_async_packets` feeds it without the
  transport's lock): a data race on a bytearray whose outcomes are the interpreter's.
- Telemetry callbacks and `on_edge`; `stop_heartbeat` followed by `start_heartbeat`; a
  second `connect`.
- Of the handles: PWM disable and raw I2C transfers, and threads that attach at once.
- `publish_status`, which reports counters and constants; ROS types and parameters.

What remains would be data (frequencies, conversions) or a scheduler's business (two
threads in one method), not order or failure that these models could say more about.

## 7. Running

    tlc -config MCOutputSafety.cfg MCOutputSafety.tla
    tlapm OutputSafetyProofs.tla

The longest run, `MCAsyncOutbound`, takes some two minutes with two workers.
`PROJECT.json` lists components, runs, the mutant of every property, the source lines
of every definition, findings, hazards and theorems.
