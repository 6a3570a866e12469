------------------------------- MODULE Capture -------------------------------
(***************************************************************************)
(* A weba_capture handle: the capture thread, the consumer and the owner   *)
(* on one queue and one connection, with an audio server that moves its    *)
(* default sink, fails, or falls silent.                                   *)
(***************************************************************************)
EXTENDS CaptureThread, ReadFrame, Lifecycle

TypeOK ==
  /\ running \in BOOLEAN /\ stopRequested \in BOOLEAN
  /\ pending \subseteq Reinit
  /\ format \in Sink \cup {NoSink}
  /\ frames \in Seq(Frame) /\ Len(frames) <= QueueFrames
  /\ dropped \in Nat
  /\ closed \in BOOLEAN
  /\ Link!TypeOK
  /\ loop \in LoopPlaces
  /\ mic \in Sink \cup {NoSink}
  /\ target \in Sink \cup {NoSink}
  /\ hadStream \in BOOLEAN
  /\ currentMonitor \in Sink \cup {NoSink}
  /\ checkDue \in BOOLEAN
  /\ owner \in OwnerPlaces
  /\ thread \in {"none", "joinable", "detached"}
  /\ abandoned \in BOOLEAN /\ destroying \in BOOLEAN /\ freed \in BOOLEAN
  /\ fixedRate \in FixedRates
  /\ consumer \in ConsumerPlaces
  /\ discarded \in Nat
  /\ deadlineValid \in BOOLEAN /\ due \in BOOLEAN /\ expired \in BOOLEAN
  /\ defaultSink \in Sink
  /\ faults \in 0 .. MaxFaults /\ moves \in 0 .. MaxMoves /\ stops \in 0 .. MaxStops
  /\ number \in 0 .. MaxNumber
  /\ epoch \in 0 .. (MaxFaults + MaxMoves)
  /\ reported \in 0 .. epoch
  /\ lastFrame \in Frame \cup {NoFrame}

\* A handle weba_capture_create() has just returned.
Init ==
  /\ running = FALSE /\ stopRequested = FALSE
  /\ pending = {}
  /\ format = NoSink
  /\ Queue!Init
  /\ Link!Init
  /\ loop = "none"
  /\ mic = NoSink /\ target = NoSink /\ currentMonitor = NoSink
  /\ hadStream = FALSE /\ checkDue = FALSE
  /\ owner = "idle" /\ thread = "none"
  /\ abandoned = FALSE /\ destroying = FALSE /\ freed = FALSE
  /\ fixedRate \in FixedRates
  /\ consumer = "idle"
  /\ discarded = 0
  /\ deadlineValid = FALSE /\ due = FALSE /\ expired = FALSE
  /\ defaultSink \in Sink
  /\ faults = 0 /\ moves = 0 /\ stops = 0
  /\ number = 0 /\ epoch = 0 /\ reported = 0
  /\ lastFrame = NoFrame

-----------------------------------------------------------------------------
\* The steps of control_t that are not a call of the owner's.
ControlStep ==
  /\ \/ Link!CallStep
     \/ Link!MainloopStep
     \/ Link!ContextReady
     \/ "context" \in Faults /\ Link!ContextFails
  /\ UNCHANGED <<sharedVars, queueVars, loopVars, ownerVars, consumerVars, worldVars, historyVars>>

\* The user chooses another default sink.
MoveDefault ==
  /\ Unpinned
  /\ moves < MaxMoves
  /\ moves' = moves + 1
  /\ defaultSink' \in Sink \ {defaultSink}
  /\ UNCHANGED <<sharedVars, queueVars, controlVars, loopVars, ownerVars, consumerVars, faults,
                 stops, historyVars>>

\* The handle is gone, or the process is, or the owner waits for good for a main loop
\* thread that nothing can end.
Over ==
  /\ owner = "gone" \/ call = "dead" \/ (call = "join" /\ mainloopThread \in Link!Lost)
  /\ UNCHANGED vars

Next ==
  \/ LoopStep \/ ReadStep \/ OwnerStep \/ ControlStep
  \/ MoveDefault
  \/ Over

Spec == Init /\ [][Next]_vars

\* The library's own threads run, queries are answered or time out, and the
\* library's own deadlines pass, next_deadline among them.  A read that wants stop_lock
\* gets it, however often a capture thread that cannot resolve its sink takes it: that
\* thread sleeps a second with the lock free between two turns.  The streams and the
\* callers get no fairness, nor does the timeout of a call.
Fairness ==
  /\ WF_vars(LoopRuns)
  /\ WF_vars(LoopQueried)
  /\ WF_vars(SinkCheckDue)
  /\ WF_vars(FrameDue)
  /\ SF_vars(ReadRuns)
  /\ WF_vars(OwnerRuns)
  /\ WF_vars(ControlStep)

FairSpec == Spec /\ Fairness

\* A server whose streams open and deliver, sooner or later.
LiveServer == WF_vars(LoopStreams)

LiveSpec == FairSpec /\ LiveServer

-----------------------------------------------------------------------------
(* Properties: lifetime. *)

\* "The handle is never freed in that case": no thread is left, abandoned or
\* not, when the handle is.
FreeIsSafe == freed => loop = "none" /\ mainloopThread = "none"

\* A capture thread inside a query of control_t has its context and main loop,
\* though a stop may have given up on it meanwhile.
QueryHasContext ==
  loop \in {"resolving", "checking"} => ctx # "none" /\ mainloopThread = "running"

\* A capture thread that sleeps through its backoff though a stop is requested
\* has a notification on its way: stop_requested is set under stop_lock.
NoLostStop == loop = "sleeping" /\ stopRequested => owner = "stopNotify"

\* Restarting a handle ends the process in no other cases than after a start
\* that failed to connect, and after an abandoned thread.
TerminateCases == call = "dead" => status = "error" \/ abandoned

\* weba_capture_stop() returns, even though the audio server no longer delivers.
\* (The exception is a main loop that a failed restart has lost track of.)
StopAlwaysReturns ==
  (owner = "stopNotify" /\ mainloopThread \notin Link!Lost) ~> (owner \in {"idle", "gone"})

\* "Unblock a consumer waiting in read_frame()": closing the queue ends a read whose
\* own timeout need never pass, at once without fixed rate, and with it when its frame
\* is due.
StopReleasesReader == (consumer # "idle" /\ closed) ~> (consumer = "idle")

-----------------------------------------------------------------------------
(* Properties: the stream of frames. *)

\* A read is about to return a frame.
Delivers == consumer = "flags" /\ consumer' = "idle"

\* dropped_frames is exactly the gap in the order of capture before a frame.
DropsReported ==
  [][Delivers /\ Delivered.frame # NoFrame /\ Delivered.frame.n < MaxNumber
       => Delivered.frame.n = lastFrame.n + 1 + Delivered.dropped]_vars

\* A frame of a reopened stream never reaches the consumer before a
\* WEBA_FRAME_REINIT that covers the reopen has.
ReopenReported ==
  [][Delivers => Delivered.frame.epoch <= reported']_vars

\* An open stream records the monitor that weba_capture_get_format() names and
\* the default sink is compared with.
StreamIsNamed == mic # NoSink => currentMonitor = mic /\ format = mic

\* "re-resolved if it changes": while the capture runs and its connection is
\* good, the stream ends up on the default sink, past moves and failures.
DefaultFollowed ==
  \A s \in Sink :
    <>[](defaultSink = s /\ running /\ ~stopRequested /\ Link!CanResolve /\ ctx = "ready")
      => <>[](mic = s)

-----------------------------------------------------------------------------
(* What the comments and the header say, and the code does not keep. *)

\* capture.cpp: "The wait predicate reads this atomic, so notifying after the
\* store cannot be lost".
NoLostExit == owner = "joinWait" /\ ~running => loop = "notify"

\* webacapture.h: weba_capture_stop() is "safe to call on a handle that never
\* started": a capture that was started and not stopped since can be read.
StartedIsReadable == running /\ ~stopRequested => ~closed

=============================================================================
