---------------------------- MODULE CaptureHandle ----------------------------
(***************************************************************************)
(* The state behind a weba_capture handle (struct weba_capture in          *)
(* src/src/capture.cpp), the parts it is made of, and the world around it. *)
(* Modules CaptureThread, ReadFrame and Lifecycle hold the steps of the    *)
(* three threads that share it; module Capture puts them together.         *)
(***************************************************************************)
EXTENDS Integers, Sequences

CONSTANTS
  Sink,         \* the sinks of the audio server; a sink stands for its monitor too
  NoSink,       \* no sink: a null stream, an empty name
  PinnedSink,   \* requested_sink: a sink, or NoSink to follow the default
  FixedRates,   \* the values fixed_rate may have
  QueueFrames,  \* queue_frames
  Faults,       \* which of "context", "query", "open" and "read" can fail
  MaxFaults,    \* bound: failures of queries, opens and reads
  MaxMoves,     \* bound: changes of the default sink
  MaxStarts,    \* bound: calls of weba_capture_start()
  MaxStops,     \* bound: calls of weba_capture_stop() and weba_capture_destroy()
  MaxNumber     \* bound: frames are told apart, and losses counted, up to this number

ASSUME CaptureAssumption ==
  /\ NoSink \notin Sink
  /\ PinnedSink \in Sink \cup {NoSink}
  /\ FixedRates \subseteq BOOLEAN
  /\ QueueFrames \in Nat \ {0}
  /\ Faults \subseteq {"context", "query", "open", "read"}
  /\ MaxFaults \in Nat /\ MaxMoves \in Nat /\ MaxStarts \in Nat /\ MaxStops \in Nat
  /\ MaxNumber \in Nat \ {0}

VARIABLES
  \* shared by the threads
  running, stopRequested,
  pending,         \* pending_flags
  format,          \* the monitor named by format_info
  \* the queue, as DropOldestQueue has it
  frames, dropped, closed, popped,
  \* control, as Control has it
  mainloop, ctx, mainloopThread, quitting, callback, ready, failed, terminated,
  call, status, inits,
  \* the capture thread
  loop,            \* where it is in capture_loop()
  mic,             \* the monitor the stream records, NoSink if it is closed
  target,          \* the monitor to open
  hadStream, currentMonitor,
  checkDue,        \* the clock has passed next_sink_check
  \* the thread that starts, stops and destroys the handle
  owner,           \* where it is in one of those calls
  thread,          \* the std::thread: "none", "joinable" or "detached"
  abandoned,       \* thread_abandoned
  destroying, freed,
  \* the consumer
  fixedRate,       \* fixed_rate, which weba_capture_create() sets for good
  consumer,        \* where it is in weba_capture_read_frame()
  discarded,       \* total_discarded
  deadlineValid,
  due,             \* the clock has passed next_deadline
  expired,         \* the clock has passed call_deadline
  \* the world
  defaultSink,
  faults, moves, stops,  \* against MaxFaults, MaxMoves and MaxStops
  \* history
  number,          \* the number of the last frame read
  epoch,           \* how often the stream was reopened
  reported,        \* the epoch when a frame last carried WEBA_FRAME_REINIT
  lastFrame        \* the last frame delivered

sharedVars   == <<running, stopRequested, pending, format>>
queueVars    == <<frames, dropped, closed, popped>>
controlVars  == <<mainloop, ctx, mainloopThread, quitting, callback, ready, failed, terminated,
                  call, status, inits>>
loopVars     == <<loop, mic, target, hadStream, currentMonitor, checkDue>>
ownerVars    == <<owner, thread, abandoned, destroying, freed>>
consumerVars == <<fixedRate, consumer, discarded, deadlineValid, due, expired>>
worldVars    == <<defaultSink, faults, moves, stops>>
historyVars  == <<number, epoch, reported, lastFrame>>

vars == <<sharedVars, queueVars, controlVars, loopVars, ownerVars, consumerVars, worldVars,
          historyVars>>

-----------------------------------------------------------------------------
\* A frame carries its place in the order of capture and the stream it was read
\* from.  Numbers stop at MaxNumber: frames from there on are not told apart.
Frame   == [n : 1 .. MaxNumber, epoch : 0 .. (MaxFaults + MaxMoves)]
NoFrame == [n |-> 0, epoch |-> 0]

Queue == INSTANCE DropOldestQueue WITH Capacity <- QueueFrames, MaxDropped <- MaxNumber
Link  == INSTANCE Control WITH MaxInits <- MaxStarts

Unpinned == PinnedSink = NoSink

Reinit == {"reinit", "discontinuity"}

-----------------------------------------------------------------------------
(* stop_lock.  A thread that has found the predicate of its wait false holds *)
(* the lock until it blocks; every other critical section is one step.       *)

StopLockFree == loop # "backoffBlock" /\ owner # "joinBlock"

-----------------------------------------------------------------------------
(* The audio server, as resolve_target() and libpulse see it. *)

\* What resolve_target() can answer: the pinned sink, or the default one.
Resolves(s) ==
  /\ ctx = "ready"
  /\ s = IF Unpinned THEN defaultSink ELSE PinnedSink

\* One of the faults the run allows happens.
Fault(kind) ==
  /\ kind \in Faults
  /\ faults < MaxFaults
  /\ faults' = faults + 1

\* A query of resolve_target() fails: the server answers with an error, answers
\* nothing in time, or the context is gone and nothing will ever answer.
QueryFails ==
  \/ Fault("query")
  \/ ctx # "ready" /\ UNCHANGED faults
=============================================================================
