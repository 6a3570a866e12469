# A TLA+ verification of linux-web-audio-capture

The library (`src/`) records what a PulseAudio or PipeWire server plays: it opens
the monitor of a sink, cuts the stream into fixed-size frames on a capture
thread, and hands them to a consumer through a bounded queue that discards its
oldest frame. This directory holds TLA+ modules of that machinery, TLC
configurations that model-check them on small instances, and proofs checked by
TLAPS for every value of the constants. Paths such as `capture.cpp:259` are
relative to `src/src/` (`webacapture.h` is `src/include/webacapture.h`).

## Running it

    tlc -workers 2 -config FrameQueue.cfg FrameQueue
    tlc -workers 2 -config Control.cfg Control
    tlc -workers 2 -config CaptureStream.cfg Capture     # and the other Capture*.cfg
    tlc -workers 2 -config Query.cfg Query               # likewise Pacing, Config
    tlapm FrameQueueRefinement.tla                       # and the modules *Proofs.tla

`PROJECT.json` lists the runs with their expected verdicts, the source lines
every definition stands for, and for every checked property a mutation of the
model, shaped like a plausible bug of the code, under which the property fails.

## 1. Inventory of the system

| Component | Source | State | Operations |
|---|---|---|---|
| Frame queue | `frame_queue.h` | ring storage, read index, count, lost-frame count, closed flag; one mutex, one condition variable | `init`, `push`, `pop`, `close` |
| Server connection | `pulse_control.{h,cpp}` (`control_t`) | main loop, context, main loop thread, the flags `_ready`, `_failed`, `_terminated` | `init`, `shutdown`, `state_callback`, `ready`, `resolve_target` |
| Alarm | `primitives.h` (`alarm_t`) | a value that is rung once, a mutex, a condition variable | `make_alarm`, `try_ring`, `wait` (`ring`, `reset`: called nowhere) |
| Recording stream | `pulse_mic.{h,cpp}` (`mic_t`) | a `pa_simple` | `open`, `read`, `close` |
| Capture thread | `capture.cpp` (`capture_loop`) | the stream, the monitor it records, time of the next sink check | open, read, push, follow the default sink, back off, leave |
| Consumer | `capture.cpp` (`weba_capture_read_frame`) | deadline of the next frame, frames lost so far in this call | read, paced or not |
| Lifecycle | `capture.cpp` (`weba_capture_start/stop/destroy`) | `running`, `stop_requested`, the `std::thread`, `thread_abandoned` | start, stop, destroy |
| Configuration | `capture.cpp` (`weba_config_defaults`, `weba_capture_create`, `frame_period`), `pulse_mic.cpp` (`mic_t::open`) | the handle's settings, the queue's sizes | defaults, validation, sample spec, channel map, frame size, period |
| Error text | `capture.cpp` (`weba_capture_last_error`) | a string under a lock, a `thread_local` copy | set, read |
| Logging | `log.{h,cpp}` | the level | set, read, write |

**Interaction.** Four threads meet on one handle: the *owner* (start, stop,
destroy), the *consumer* (read), the *capture thread*, and libpulse's *main loop
thread* inside `control_t`. They share

- the queue: producer the capture thread, consumer the reader, closed by stop;
- `running`, `stop_requested` (atomics) with `stop_lock` and `stop_cv`, on which
  the capture thread sleeps through its backoff, the paced reader sleeps until
  its frame is due, and stop waits for the capture thread to leave;
- `pending_flags` (an atomic): set by the capture thread, exchanged for zero by
  the reader, *beside* the queue;
- the published format under its lock;
- the connection: the main loop thread runs `state_callback()`, while start and
  the capture thread query the server through it.

**What is hard.** Notifications after an unlock or without the lock; a stop that
meets any place of any thread; a thread given up on after 3 s that goes on using
the handle; a server that fails, moves its default sink or says nothing; flags
that travel on another path than the frames they describe; calls of the
interface in an order nobody tried (stop before start, start after a failed
start, start after stop). `PROJECT.json` "hazards" has each one at its line.

**What makes each part correct.**

- *Queue*: order kept through every wrap and discard; each lost frame reported
  exactly once, with the frame behind the gap; no wakeup lost; after close the
  held frames drain and then nothing follows.
- *Connection*: `init()` answers though the server never does; `ready()` speaks
  of the present context only; `shutdown()` touches the context only without a
  main loop thread, and returns.
- *Queries and alarms*: no waiter sleeps on an answer that was given; an answer is
  the one to the query that takes it; what is resolved is a sink and its own
  monitor; every query returns.
- *Capture thread*: what is published and compared is what is recorded; the
  stream follows the default sink past moves and failures; a reopen is reported
  no later than its first frame.
- *Consumer*: every read returns; the lost frames it reports are the gap.
- *Pacing*: output is neither ahead of real time nor drifting; a patient caller
  sees no timeout, an impatient one none before its time.
- *Configuration*: what creation accepts can be opened; a frame has one size
  everywhere; storage, fragment and copy have room for it.
- *Lifecycle*: stop always returns; nothing is freed or shut down under a live
  thread; a stop request wakes a thread that sleeps.

## 2. Modules

    DropOldestQueue ............ what the queue promises (abstract)
      ^ implemented by            ^ used by
    FrameQueue                  CaptureHandle --- Control (as Link)
      ^                           ^    ^    ^        ^
    FrameQueueProofs    CaptureThread  ReadFrame  Lifecycle   ControlProofs
      ^                           ^    ^    ^
    FrameQueueRefinement          Capture
                                     ^
                                  CaptureProofs --- ControlProofs (as ControlFacts)
                                     ^
                                  CaptureFrameProofs

    Query <- QueryProofs      Pacing <- PacingProofs      Config <- ConfigProofs

The three modules of the last line look at one part of the system in a detail that
the composition above abstracts: `Query` at what a query of `Capture` is made of,
`Pacing` at the instants behind the facts `due` and `expired` of `ReadFrame`,
`Config` at the sizes behind a frame.

### FrameQueue, DropOldestQueue

`FrameQueue` is `frame_queue_t` statement for statement where it matters. Its
variables are the members of the class; a critical section of `_lock` is one
action, and the `notify_one()` / `notify_all()` after the unlock is another
(`PushNotify`, `CloseNotify`), so that every thread can run in between. The
consumer is `idle`, `waiting` on the condition variable or `awake`;
`wait_for` with a predicate is `PopCall` (predicate tried under the lock),
`PopResume` (woken), `PopTimeout` (goes on whatever the predicate says) and
`SpuriousWakeup`. A frame is its number in the order of capture, which is what
order and gaps are about; `accepted` and `delivered` are history.

`DropOldestQueue` states the same service over a sequence, with no ring, lock or
condition variable. `ImplementsDropOldest` is the refinement: the ring, read from
its read index on, is that sequence. The capture modules run on the abstract
queue, which is what the refinement licenses. Its loss count saturates at
`MaxDropped`, a bound the concrete queue never reaches.

### Control

`control_t` with the caller's thread and the main loop thread. `call` is the caller's
place in `init()` or `shutdown()`; `callback` the main loop thread's in
`state_callback()`. `InitNotStarted` has every failure before the thread starts, with
what each leaves behind: `NoMainloop` (`pa_mainloop_new()`, which leaves the context
and its callback as they were) and `NoConnection` (`pa_context_new()` or
`pa_context_connect()`); `InitStarted` the rest up to the wait. A `std::thread`
assigned while joinable ends the process: `call = "dead"`. A second `init()` can
overwrite `_mainloop` under a running thread, which is then `unnamed`, and with the
next step `_ctx` too, which makes it `orphaned`: the thread still runs, its old
context still has this object as callback data (`OrphanCallback`). No later
`shutdown()` can end either (`Lost`). `shutdown()` is four actions in the order of the
code: quit, join, disconnect, free.

### CaptureHandle, CaptureThread, ReadFrame, Lifecycle, Capture

`CaptureHandle` declares the state of `struct weba_capture`, the two parts
(`Queue`, `Link`) and the server: which sink is the default and which failures a
run allows. The three modules above it hold one thread each.

- `CaptureThread`: `loop` is the place in `capture_loop()`. A step runs to the
  next call that can block or the next access another thread can see. The
  backoff, `wait_for_stop()`, is `BackoffTest` (predicate under `stop_lock`),
  `BackoffBlock` (wait begins, lock released), `BackoffOver`. The end of the
  loop stores `running = false` and notifies in two steps without the lock, as
  the code does.
- `ReadFrame`: `consumer` is the place in `weba_capture_read_frame()`. Without fixed
  rate the call waits in `pop()`; with it (`fixedRate`, chosen at the start from
  `FixedRates`) the loop of `capture.cpp:411-459` sleeps until the frame is due. The
  clock is two facts, `due` and `expired`. `Delivered` is the frame with its info;
  `lastFrame` and `reported` are history.
- `Lifecycle`: `owner` is the place in start, stop or destroy. A stop requests,
  notifies, closes the queue, waits (`JoinTest`, `JoinBlock`, `JoinTimeout`),
  joins or abandons, and shuts the connection down unless it abandoned.
- `Capture` puts them together and states the properties.

`stop_lock` is held only between a failed predicate and the wait it leads to
(`backoffBlock`, `joinBlock`); every other section under it is one step, guarded
by `StopLockFree`.

A sink stands for its monitor too. A failed query covers an error, no answer in
5 s and no such sink, which the callers treat alike.

### Query

`resolve_target()` (`pulse_control.cpp:280`) with `query_default_sink()` and
`query_monitor()`, the two callbacks, and `alarm_t`. `place` is the query that the
caller is in, `waiting` where it is in `alarm_t::wait()`, `notifying` the alarm that
the main loop thread has raised in `try_ring()` and is about to notify. An operation
holds the address of its alarm, as the `pa_operation` holds the raw pointer:
`operations` outlive their query, a sink lookup calls back a second time at the end of
its list (`phase` "eol"), and a lost context cancels what is pending. `AlarmGone`
frees the alarm when the query returns, and a later `make_alarm()` may get the same
address. A callback that touches freed memory is undefined behaviour; the outcomes
modelled are that it goes unnoticed or, the address reused, rings the new alarm. That
the process crashes instead is not a state of the model. `stray` remembers that it
happened.

### Pacing

The read of `ReadFrame` again, on a clock that ticks between any two steps. An instant
is kept as the time left until it (`dueIn`, `timeLeft`, `sleepLeft`), so the state is
bounded although time is not. A tick is a fraction of a microsecond (`Micro` ticks
make one), because what the casts to microseconds drop is where a pacing loop goes
wrong. A wait is computed from the clock at the top of the loop (`PacedSleep`,
`PlainPop`) and begun in a step of its own (`PacedBlock`, `PlainBlock`), since the
thread can be held up in between, by the lock among others; as a duration it then runs
in full, past the deadline it was computed for. `ahead`, `behind` and `slipped` are
history.

### Config

`weba_config_defaults()`, the initial values of a handle's fields (`HandleDefaults`),
the caller's overrides, `weba_capture_create()`, the arithmetic of
`frame_queue_t::init()` and `mic_t::open()`, the size of the copy in a read. Products
keep their width: `W32` and `W64 = W32^2` are 2^32 and 2^64 in the code. The size of a
sample stands in three places and has a definition for each:
`weba_capture::frame_bytes()` for the queue's slot (`SampleBytes`),
`map_sample_format()` for the stream's fragment (`MapSampleBytes`), and libpulse
itself for what a read delivers (`PulseSampleBytes`, external). `SizesAgree` compares
them, as `CreatedOpens` compares the checks of creation and open. A fourth table,
behind `mic_t::frame_bytes()` (`pulse_mic.cpp:105-125`), is not modelled: that
function is called nowhere.

## 3. Runs

| Run | Asks | Verdict |
|---|---|---|
| `queue` | ring order, accounting, gaps, wakeups, end, refinement of `DropOldestQueue` | holds |
| `control` | flags, verdicts, order of shutdown, and that `init()` and `shutdown()` return | holds |
| `capture_stream` | one capture, with fixed rate and without, through a failure and a move of the default sink: format, losses, reopens | holds |
| `capture_lifecycle` | starts, stops and destroys, in both modes, with a pinned sink: frees, queries, stop requests, `std::terminate`; a stop returns, and ends every waiting read | holds |
| `capture_follow` | the stream follows the default sink | holds |
| `query` | queries and alarms against late, repeated and missing callbacks | holds |
| `pacing` | cadence, bursts, timeouts and return of a read, against the clock | holds |
| `config` | creation against open, one frame size everywhere, room for it in the copy and the queue | holds |
| `lost_exit` | "notifying after the store cannot be lost" | violated |
| `never_started` | "safe to call on a handle that never started" | violated |
| `control_reconnect` | `ready()` is "whether the context reached PA_CONTEXT_READY and is still alive" | violated |
| `query_dangling` | alarm pointers "stay valid for the lifetime of the request" | violated |

### What the violations show

- **`lost_exit`** (`capture.cpp:259`). The capture thread stores
  `running = false` and notifies without `stop_lock`. Between a stop's test of
  `running` and its wait both can pass; the stop then waits out
  `kJoinTimeout` (3 s) for a thread that has left. It still joins it: the cost is
  the delay, which is why `StopAlwaysReturns` holds. The comment at
  `capture.cpp:257-258` reasons from the predicate reading an atomic; that makes
  the read race-free but does not order the notification after the wait.
- **`never_started`** (`capture.cpp:507`). Stop closes the queue even if nothing
  was started, and only `weba_capture_create()` opens it. A later start
  succeeds, and every read returns `WEBA_ERR_STATE`.
- **`control_reconnect`** (`pulse_control.cpp:205`). `_failed` and `_terminated` are
  never lowered. After one failed connect, or one `shutdown()` of a live context,
  `ready()` is false for every later context and a restart cannot resolve its sink.
  TLC's trace is the shortest case: an `init()` whose `pa_context_connect()` fails,
  which raises `_failed`, then one that succeeds. The property asks this only of a
  context on the running thread of the present main loop, so that neither a lost loop
  nor its callbacks decide it.
- **`query_dangling`** (`pulse_control.cpp:235`). The `shared_ptr` of
  `make_alarm()` is a local of the query; libpulse holds `alarm.get()`. A query
  that times out returns and frees the alarm with its operation neither cancelled
  nor answered (`pulse_control.cpp:243`), and the callback rings what is gone. Even
  without a timeout the waiter may take the value and free the alarm between the
  unlock and the `notify_all()` of `try_ring()` (`primitives.h:77`). The comment at
  `primitives.h:119-121` gives the shared ownership as the protection against
  this. `OwnAnswer` (run `query`) and `TargetWasRight` hold as long as no query
  was outlived so.

### Divergences met while modelling that have no run

- A second `init()` after one that failed with its thread started ends in
  `std::terminate` (`pulse_control.cpp:151`): the thread is left joinable and start
  does not call `shutdown()` on that path (`capture.cpp:333-337`).
  `TerminateCases` (run `capture_lifecycle`) shows that, of all the orders of
  calls, the process ends in this way only after such a failed start or after an
  abandoned thread.
- `pending_flags` is one word beside the queue (`capture.cpp:220`), so the next
  frame delivered takes the flags, even one queued before the reopen that follows
  its predecessor without a gap: `WEBA_FRAME_DISCONTINUITY` may come early. What
  does hold is `ReopenReported`: it never comes late.
- "Exact duration of one frame" (`capture.cpp:49`) is cut to whole microseconds. At
  44100 Hz and 960 samples output runs 0.7 us a frame ahead of the source, one frame
  of silence about every eleven minutes. A rate above 10^6 times the frame's samples
  gives a period of zero, which `Pacing` leaves out.
- `webacapture.h:79` calls a non-zero `fixed_rate` the default, and "every field
  documents its default for the zero value"; a zeroed configuration has
  `fixed_rate` 0, which is off.
- `weba_capture_create()` also returns `WEBA_ERR_FORMAT`, which its list at
  `webacapture.h:127-129` lacks. Its check for zero at `capture.cpp:306` can no
  longer fail, the defaults having replaced every zero.
- `frame_queue_t::init()` is to return "False if the requested storage could not be
  allocated" (`frame_queue.h:47`), but does not check the product of capacity and slot
  (`frame_queue.h:54`). For a frame of more than 2^32 bytes, which creation accepts, it
  can wrap in `size_t`: the queue is made with less storage than its slots, or none.
  `StorageSuffices` is that no shorter frame can do this, whatever the capacity.
- A queue length beyond `max_size()` makes `frame_queue_t::init()` throw
  `std::length_error`, which it does not catch (`frame_queue.h:56`), through
  `weba_capture_create()` and its C interface.
- "Fragments are sized to exactly one frame" (`pulse_mic.cpp:160-162`): in 32 bits,
  so not for frames of 4 GiB and more.
- A sample rate above libpulse's maximum passes creation and is refused at every
  open, which the capture thread then tries for ever.
- With fixed rate a caller whose timeout is exactly the period can be told
  `WEBA_ERR_TIMEOUT`, by what the casts drop: `PatientRead` needs a microsecond
  more. Likewise a timeout can come within the last microsecond of the call's time.
- A failed read flags the reopen (`capture.cpp:229`) that the reopen flags again;
  the comment at `capture.cpp:249-251` says this is not done.
- A failed first open (`capture.cpp:207`) flags a reinit and a discontinuity on
  the first stream; the comment at `capture.cpp:217-218` says the first stream
  has none.
- The message at `capture.cpp:527-529` says an abandoned thread is blocked in
  `pa_simple_read()`; since `kJoinTimeout` is 3 s and a query may take 5 s, and an
  open has no bound, it may be in either of those.
- The format is published before the stream opens (`capture.cpp:201`), so until
  the open succeeds `get_format()` names a monitor that is not recorded.
- With fixed rate a read caught by a stop does not sleep any more: it goes round its
  loop until its frame is due or its time is over. It returns, but not at once.
- A second `init()` that fails on `pa_mainloop_new()` leaves the earlier context and
  thread without the loop that could end them (`unnamed`), and one that fails later
  replaces the context as well (`orphaned`). A `shutdown()` then waits for that thread
  in `join()` for good. `ShutdownReturns` and `StopAlwaysReturns` name this exception.

### Bounds, and why they are enough

- `queue`: two slots, five frames. Two is the smallest ring where order and
  wrap-around are distinct things; five frames wrap it twice with discards
  before, between and after pops. One slot, or a request for none, is covered by
  the theorems.
- `control`: three calls of `init()`: a first, one that meets what the first
  left behind, and one that meets what that pair left.
- Capture runs: one queue slot, so that every second unread frame is a loss; at most
  one failure (`MaxFaults`) of the kinds in `Faults` and one move of the default sink
  (`MaxMoves`). `MaxStarts`, `MaxStops` bound the owner's calls; two of each give
  every restart; `capture_stream` has no stop, since its properties are about a
  capture that runs, and both values of `fixedRate`. A lost connection ("context") is
  not counted against `MaxFaults`: it can happen to each context.
- `capture_lifecycle`: two starts and two stops or destroys, and both values of
  `fixedRate`, so that a stop finds the consumer asleep in `sleep_interruptible()` and
  in `pop()`. Its failures are those of the connection, which also make queries fail;
  an owner that waits for good for a lost main loop is among its states (`Over`). Its
  sink is pinned, which halves the states: a thread in the query that checks the
  default sink (`checking`) is not among them. The theorems on `FreeIsSafe`,
  `QueryHasContext`, `NoLostStop` and `TerminateCases` cover that place, and an
  unpinned sink, with the rest. For the two liveness properties the same configuration
  with `PinnedSink = NoSink` and `MaxStops = 1` reaches that place, and they hold
  there too; it is not among the runs.
- `MaxNumber`: frames are numbered up to it and from there on are not told apart;
  the thread goes on reading, so liveness is not cut short by the bound, and
  `DropsReported` speaks of the frames below it. The loss count saturates there.
- A single pinned sink is enough where the property is not about which sink is
  recorded; `capture_stream` and `capture_follow`, which are about that, have two.
- `query`: three queries, so that an operation can outlive its own query and meet
  two more; two sinks and one move of the default between the two queries of a
  call; two addresses, so that a new alarm may or may not get an old one.
- `pacing`: a tick is half a microsecond and a period is two microseconds; what
  matters is their order, which the theorems do not need (any `Period`, `Micro`,
  `OneMs`). `MaxLate` exceeds `Period`, and beyond a period all lateness is the
  same to the code, which then starts afresh. The bounds of `NeverAhead` and
  `PatientRead` are tight: with `<` for `<=`, or `Period` for `Period + Micro`, TLC
  finds a violation.
- `config`: widths scaled to 10 and 20 bits, with sizes that wrap in either; a
  channel count that 8 bits cannot hold; a frame of exactly 2^10 bytes, where
  `StorageSuffices` is tight. A
  failed allocation can happen at every size.
- Deadlock is checked except in `Control`, where a component with no calls left
  simply stops. In `Capture` a handle that is gone, a process that ended, or an
  owner that waits for a main loop nothing can end, stutters (`Over`).

### Fairness

- The library's own threads run (`LoopRuns`, `ReadRuns`, `OwnerRuns`,
  `ControlStep`, `PushNotify`, `PopResume`...): the operating system schedules
  threads that can run and grants free locks.
- Queries get an answer or run out of time (`LoopQueried`): `alarm_t::wait()` with
  `kQueryTimeout`. `JoinTimeout`, `BackoffOver`, `InitTimeout` and `SinkCheckDue` are
  the library's own clocks, and so is `FrameDue`, the deadline of the next frame.
  `CallExpires`, the timeout of a read, gets none: it may be as long as the caller
  likes, and a read that a stop caught must return all the same.
- `ReadRuns` of `Capture` is strongly fair. A read with fixed rate needs `stop_lock`,
  which a capture thread that cannot resolve its sink takes again and again; that
  thread sleeps a second with the lock free between two turns, so the reader's step is
  enabled again and again and the lock is granted to it in the end.
- `OpenSucceeds`, `OpenFails`, `ReadReturns`, `ReadFails` get none: neither
  `pa_simple_new` nor `pa_simple_read` has a timeout. `DefaultFollowed` alone
  assumes a server that keeps answering (`LiveServer`).
- `Query`: the waiting thread runs and its timeout passes (`WaitStep`). Neither the
  server nor the main loop thread need do anything, so `QueryReturns` holds with a
  server that is silent.
- `Pacing`: the clock ticks and the consumer's thread runs (`Tick`, `ReadRuns`).
  Nobody need push.
- Callers get none: nothing makes them call, nor stop calling.

## 4. Proofs

All are for every value of the constants, from the named assumptions of the
modules alone: `FrameQueueAssumption` (capacity and bound are naturals, zero
included), `ControlAssumption`, `QueryAssumption` and `CaptureAssumption` (bounds
are naturals, the markers for "none" are no sinks or addresses),
`PacingAssumption` (clock units and period are positive, `MaxLate` exceeds the
period), `ConfigAssumption` (a word has at least 8 bits, the defaults are positive
and every input fits its word) and `PointerAssumption` (the markers for NULL, no
handle and no stream are not values).

| Module | Theorem | States |
|---|---|---|
| `FrameQueueProofs` | `QueueTypeCorrect` | `Spec => []TypeOK` |
| | `RingKeepsOrder` | `Spec => []RingInOrder` |
| | `NothingUncounted` | `Spec => []FramesAccounted` |
| | `LossesAreFull` | `Spec => []DropsOnlyWhenFull` |
| | `WakeupsArrive` | `Spec => []NoLostWakeup` |
| | `GapsAreReported` | `Spec => GapsReported` |
| | `EndStaysFinal` | `Spec => EndIsFinal` |
| `FrameQueueRefinement` | `QueueImplementsDropOldest` | `Spec => ImplementsDropOldest` |
| `ControlProofs` | `ControlTypeCorrect` | `Spec => []TypeOK` |
| | `ReadyNeverStale` | `Spec => []ReadyIsLive` |
| | `VerdictsArrive` | `Spec => []NoLostVerdict` |
| | `ContextOnlyAlone` | `Spec => ContextReleasedAlone` |
| `QueryProofs` | `QueryTypeCorrect` | `Spec => []TypeOK` |
| | `AnswersArrive` | `Spec => []NoLostAnswer` |
| | `AnswersAreOwn` | `Spec => []OwnAnswer` |
| | `TargetsAreRight` | `Spec => []TargetWasRight` |
| `PacingProofs` | `PacingTypeCorrect` | `Spec => []TypeOK` |
| | `OutputNeverAhead` | `Spec => []NeverAhead` |
| | `CadenceHolds` | `Spec => []NoDrift` |
| | `PatienceIsEnough` | `Spec => []PatientRead` |
| | `TimeoutsAreHonest` | `Spec => TimeoutIsHonest` |
| `ConfigProofs` | `ConfigTypeCorrect` | `Spec => []TypeOK` |
| | `AcceptedOpens` | `Spec => []CreatedOpens` |
| | `FrameSizesAgree` | `Spec => []SizesAgree` |
| | `CopiesFit` | `Spec => []CopyFits` |
| | `StorageOfWordFrames` | `Spec => []StorageSuffices` |
| `CaptureProofs` | `StopsWake` | `Spec => []NoLostStop` |
| | `ConnectionIsControl` | `Spec => Link!Spec` |
| | `NothingFreedEarly` | `Spec => []FreeIsSafe` |
| | `QueriesHaveContext` | `Spec => []QueryHasContext` |
| | `OnlyTheseTerminate` | `Spec => []TerminateCases` |
| | `OneCaptureThread` | `Spec => []SpawnsAlone` |
| `CaptureFrameProofs` | `CaptureTypes` | `Spec => []TypeOK` |
| | `StreamsAreNamed` | `Spec => []StreamIsNamed` |
| | `QueueIsDropOldest` | `Spec => Queue!Spec` |
| | `ReopensReported` | `Spec => ReopenReported` |
| | `LossesReported` | `Spec => DropsReported` |

The theorems on `DropsOnlyWhenFull`, the types of `Pacing` and `Config`,
`SpawnsAlone` and the two compositions have no run beside them.

**Queue.** The inductive invariant is the conjunction of the type invariant, the
order of the ring, the accounting, `DropsOnlyWhenFull` and `NoLostWakeup`. Neither
the order nor the accounting stands alone. `RingInOrder` after a push needs the
write slot to differ from every slot still held, which takes the bounds of
`TypeOK` and facts about `% Capacity` (lemmas on `NextSlot` and `SlotAfter`).
`FramesAccounted` after a pop needs `RingInOrder`, to know which frame the read
index names; and a pop that finds nothing clears `dropped` with no frame to report
it, which is right only because an empty ring is not full, `DropsOnlyWhenFull`.
`GapsReported` is then the accounting read off one step. `EndIsFinal` has its own
small invariant: once the end was reported the queue is closed and empty, and
stays so.

**Refinement.** By `RingInOrder` the frames held are the run of the last `count`
numbers, `Upto(accepted, count)`. Three lemmas say what `Append`, `Head` and `Tail`
do to such a run; with them a push maps to `Push`, a pop past its wait to `Pop`,
`close()` to `Close`, and every notification, wait and wakeup to a stutter. The
saturation of the abstract loss count never bites: by `FramesAccounted` a loss
leaves `dropped` below `MaxFrames`.

**Connection.** What a flag is worth depends on where the two threads are, so the
invariant adds `CallPlaces` (init() waits only while its thread runs; shutdown()
is past its join only without a thread; only a shutdown in progress has told the
loop to quit) and `FlagsAgree` (a due callback has a verdict to give, a failure
with none due is known, and nothing is ready without a thread except inside
`shutdown()`). `ReadyIsLive` outlives a `shutdown()` because `_ready`
is lowered, and would even without it because the flags of the context that was
lost are never lowered; the same stickiness is what `control_reconnect` shows to
be too much for a *new* context.

**Queries.** `OwnAnswer` and `TargetWasRight` rest on `RingersAreCurrent`: while no
query was outlived by its operation, every operation that can still ring belongs
to the query in progress, carries its alarm and asks for its name. That holds
because a query without a timeout ends only once its operation has rung, after
which a sink lookup has only the end of its list left, and `try_ring()` is not
called for that. `ValueIsRight` carries it to the value taken, `SinkIsCandidate`
through the first query to the second. `NoLostAnswer` needs only that the waiter's
test and wait are one critical section, and that `try_ring()` needs the same lock.

**Pacing.** `NeverAhead` follows from `AheadOfDeadline`: what was delivered ahead of
real time is covered by the distance to the next deadline, which a delivery moves
by one period or, late, sets to one period. `NoDrift` is the sum of `dueIn` and
`behind`, which a tick and a delivery each leave unchanged. `PatientRead` needs
`PatientIsEnough` at every place of the call: what is left of the caller's time
exceeds what is left to the frame's deadline by at least the microsecond that the
casts may drop (lemma `CastDrops`), also while a wait is computed and not yet begun.

**Configuration.** One invariant relates the handle to the accepted configuration
(`HandleChecked`), the queue to the handle (`QueueSized`) and the stream to the handle
(`StreamMatches`); the rest is arithmetic: for the counts and formats that are
accepted, `% 256` loses nothing and the three sizes of a sample agree, and a frame's
bytes fit `W64` because the samples fit `W32` and each is at most 32 bytes over all
channels. A capacity fits a word, so with a frame of at most `W32` bytes their product
fits `W64`: `StorageOfWordFrames`.

**Composition.** `Link!Spec` and `Queue!Spec` are the specifications of `Control` and
`DropOldestQueue` on the variables of `Capture`. `ConnectionIsControl` says that every
step of a capture is one of its connection's own or leaves the connection alone; so
what is proved of `Control` with `MaxInits = MaxStarts` holds of a capture, and its
inductive invariant is taken over as it stands (`LinkInvariant`, through the instance
`ControlFacts` of `ControlProofs`) rather than proved again. `QueueIsDropOldest` says
the same of the queue, for which the arguments of `Push` must be frames, hence the
types. With `QueueImplementsDropOldest` it is what licenses the abstract queue in
`Capture`: nothing the three threads do falls outside of what the ring was proved to
promise.

**Capture: stop.** `NoLostStop` is inductive with one conjunct more,
`TestedUnderLock`: a thread between its failed test and its wait holds `stop_lock`, so
no stop is requested; a request comes before the test, or finds the thread asleep and
is followed by its notification.

**Capture: lifetime.** `FreeIsSafe`, `QueryHasContext` and `TerminateCases` are
consequences of one invariant, `LifeInv`, over the places of the owner, the capture
thread and the connection's call. None of its parts is inductive alone:

- `ThreadAgrees`: `running` is true exactly while the thread is in its loop, which it
  leaves only on a request. A thread that ended by itself would let a start find
  `running` false with the thread joinable.
- `OwnerAgrees`: a joinable thread with a stop requested has an owner inside `stop()`,
  so an owner that is idle with `running` false has no thread but an abandoned one,
  and a start never assigns to a joinable `std::thread`. `StartSpawns` has no step for
  that assignment's `std::terminate`; `OneCaptureThread` shows that it needs none.
- `CallAgrees`: `control_t` is inside `init()` only in a start, and inside
  `shutdown()` only in a start that failed or in a stop that has joined its thread or
  had none; a capture thread never runs beside a `shutdown()`.
- `LinkAgrees`: a thread in its loop, abandoned or not, has its context and main loop;
  once `shutdown()` is over there is none; an idle owner has a main loop only for one
  of three reasons, of which a start rules out that it is running; the other two are
  the cases of `TerminateCases`. For an abandoned thread it rests on `shutdown()`
  being skipped, and on a start being refused as long as that thread keeps `running`
  true.

**Capture: the stream.** `StreamIsNamed` needs what each place of the loop has of a
stream (`StreamPlaces`): between the resolve and the open nothing is open, and what is
about to be opened has been published. `TypeOK` bounds the reopens by `MaxFaults +
MaxMoves`, which is a fact about the code and not a cap in a guard: no failure and no
move of the default sink causes two reopens. `ReopensCaused` counts the reopen that is
owed (a stream let go of) and the one that will be (a stream off the default sink)
beside those made; it needs `StreamIsNamed`, since the thread compares the default
sink with `currentMonitor` and not with the stream. A thread that reopened on its own
account, or a comparison with a stale name, would break it.

**Capture: reports.** `ReopenReported` rests on `EpochsCovered`: a reopen not yet
reported is flagged, and nothing queued or taken comes from a later stream than the
present one. Only the end of a read clears the flags, and it reports them with that
very frame (`OnlyDeliveryDelivers`). `DropsReported` rests on `Numbered`: the last
frame delivered, the frame taken, those held and the last one read are numbered
without a break but for the losses the queue has counted and the call has collected.
It needs that losses are pending only in a full queue, so that a `pop()` that finds
nothing, or a call that times out or meets the end, throws none away (`LossesHeld`);
that the thread holds at most one frame it has read and not pushed; and, for a queue
that was closed, only what was held before. Numbers stop at `MaxNumber`, a bound of
the model: two lemmas on `Capped` carry the arithmetic past it.

Model-checked only: the liveness properties `WaiterServed`, `InitAnswers`,
`ShutdownReturns`, `QueryReturns`, `ReadReturns`, `StopAlwaysReturns`,
`StopReleasesReader` and `DefaultFollowed`, since fairness and ENABLED are outside the
prover, and the four violations. Every safety invariant and action property that a
passing run checks is a theorem.

## 5. What is not modelled

- What libpulse does internally, in particular under calls from a caller's thread
  while its main loop runs in another (`pulse_control.cpp:235`).
- The error text: `weba_capture_last_error()` copies under a lock into a buffer of
  the thread, which a second handle's error replaces (`capture.cpp:556-565`).
- Logging: output only, but for the first use of the level, which can race
  `set_level()` (`log.cpp:36-53`) and decides nothing but what is logged.
- Argument checks that change nothing, `info == NULL` in a read, status and message
  wording. The scope guard and `ring()` and `reset()` of the alarm are used nowhere.
- Example, self test and build files: read for how the interface is used.

## 6. Plan

Done: the queue, the connection, its queries, pacing, configuration and the capture
with its three threads, each with the proofs of its invariants and action
properties.

1. `LastError`, a small module of the error text and the buffers it is copied to.
2. That a query of `Capture`, one step with a nondeterministic outcome, is what `Query`
   does between the call of `resolve_target()` and its return, as a refinement.
