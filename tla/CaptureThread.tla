---------------------------- MODULE CaptureThread ----------------------------
(***************************************************************************)
(* weba_capture::capture_loop() (src/src/capture.cpp), with the stream it  *)
(* owns (mic_t, src/src/pulse_mic.cpp).  `loop` is "none" while there is   *)
(* no thread and "done" once its function has returned.                    *)
(***************************************************************************)
EXTENDS CaptureHandle

LoopPlaces == {"none", "top", "resolving", "opening", "reading", "push", "checking",
               "backoff", "backoffBlock", "sleeping", "leave", "notify", "returning", "done"}

LoopUnchanged == UNCHANGED <<controlVars, ownerVars, consumerVars>>

-----------------------------------------------------------------------------
\* The top of the loop, up to the first call that can block.  Without a usable
\* context resolve_target() fails at once.
LoopTop ==
  /\ loop = "top"
  /\ \/ stopRequested /\ loop' = "leave"
     \/ ~stopRequested /\ mic # NoSink /\ loop' = "reading"
     \/ ~stopRequested /\ mic = NoSink /\ Link!CanResolve /\ loop' = "resolving"
     \/ ~stopRequested /\ mic = NoSink /\ ~Link!CanResolve /\ loop' = "backoff"
  /\ UNCHANGED <<mic, target, hadStream, currentMonitor, checkDue>>
  /\ UNCHANGED <<sharedVars, queueVars, worldVars, historyVars>>
  /\ LoopUnchanged

FormatKept(s) == format
\* publish_format() names the monitor about to be opened.
Published(s) == s

\* resolve_target() answers and the format is published.
ResolveAnswers ==
  /\ loop = "resolving"
  /\ \E s \in Sink :
       /\ Resolves(s)
       /\ target' = s
       /\ format' = Published(s)
  /\ loop' = "opening"
  /\ UNCHANGED <<mic, hadStream, currentMonitor, checkDue>>
  /\ UNCHANGED <<running, stopRequested, pending, queueVars, worldVars, historyVars>>
  /\ LoopUnchanged

ResolveFails ==
  /\ loop = "resolving"
  /\ QueryFails
  /\ loop' = "backoff"
  /\ UNCHANGED <<mic, target, hadStream, currentMonitor, checkDue>>
  /\ UNCHANGED <<sharedVars, queueVars, defaultSink, moves, stops, historyVars>>
  /\ LoopUnchanged

ReopenSilent == pending
\* Only a reopen is flagged, not the first stream.
FlagReopen == IF hadStream THEN pending \cup Reinit ELSE pending

\* mic_t::open() succeeds; the check of the default sink starts anew.
OpenSucceeds ==
  /\ loop = "opening"
  /\ mic' = target
  /\ currentMonitor' = target
  /\ checkDue' = FALSE
  /\ pending' = FlagReopen
  /\ epoch' = IF hadStream THEN epoch + 1 ELSE epoch
  /\ hadStream' = TRUE
  /\ target' = NoSink
  /\ loop' = "reading"
  /\ UNCHANGED <<running, stopRequested, format, queueVars, worldVars, number, reported,
                 lastFrame>>
  /\ LoopUnchanged

OpenFails ==
  /\ loop = "opening"
  /\ Fault("open")
  /\ pending' = pending \cup Reinit
  /\ target' = NoSink
  /\ loop' = "backoff"
  /\ UNCHANGED <<mic, hadStream, currentMonitor, checkDue>>
  /\ UNCHANGED <<running, stopRequested, format, queueVars, defaultSink, moves, stops, historyVars>>
  /\ LoopUnchanged

\* mic_t::read() returns a frame, the next in the order of capture.
ReadReturns ==
  /\ loop = "reading"
  /\ number' = IF number < MaxNumber THEN number + 1 ELSE number
  /\ loop' = "push"
  /\ UNCHANGED <<mic, target, hadStream, currentMonitor, checkDue>>
  /\ UNCHANGED <<sharedVars, queueVars, worldVars, epoch, reported, lastFrame>>
  /\ LoopUnchanged

\* A failed read lets the stream go.
ReadFails ==
  /\ loop = "reading"
  /\ Fault("read")
  /\ mic' = NoSink
  /\ pending' = pending \cup Reinit
  /\ loop' = "backoff"
  /\ UNCHANGED <<target, hadStream, currentMonitor, checkDue>>
  /\ UNCHANGED <<running, stopRequested, format, queueVars, defaultSink, moves, stops, historyVars>>
  /\ LoopUnchanged

CheckNever == FALSE
\* Only an unpinned sink is followed, and only once the period has passed.
CheckTime == Unpinned /\ checkDue

\* The frame goes to the queue; then, if it is time, the default sink is looked
\* up, which without a usable context fails at once.
PushFrame ==
  /\ loop = "push"
  /\ Queue!Push([n |-> number, epoch |-> epoch]) \/ Queue!PushRefused
  /\ loop' = IF CheckTime /\ Link!CanResolve THEN "checking" ELSE "top"
  /\ checkDue' = IF CheckTime THEN FALSE ELSE checkDue
  /\ UNCHANGED <<mic, target, hadStream, currentMonitor>>
  /\ UNCHANGED <<sharedVars, worldVars, historyVars>>
  /\ LoopUnchanged

\* The default sink is known: a stream on another monitor is let go, to be
\* reopened by the next turn of the loop.
CheckAnswers ==
  /\ loop = "checking"
  /\ \E s \in Sink :
       /\ Resolves(s)
       /\ mic' = IF s # currentMonitor THEN NoSink ELSE mic
  /\ loop' = "top"
  /\ UNCHANGED <<target, hadStream, currentMonitor, checkDue>>
  /\ UNCHANGED <<sharedVars, queueVars, worldVars, historyVars>>
  /\ LoopUnchanged

CheckFails ==
  /\ loop = "checking"
  /\ QueryFails
  /\ loop' = "top"
  /\ UNCHANGED <<mic, target, hadStream, currentMonitor, checkDue>>
  /\ UNCHANGED <<sharedVars, queueVars, defaultSink, moves, stops, historyVars>>
  /\ LoopUnchanged

-----------------------------------------------------------------------------
(* wait_for_stop(kReinitDelay). *)

LoopGoesTo(place) ==
  /\ loop' = place
  /\ UNCHANGED <<mic, target, hadStream, currentMonitor, checkDue>>
  /\ UNCHANGED <<sharedVars, queueVars, worldVars, historyVars>>
  /\ LoopUnchanged

\* The predicate is tried with stop_lock held.
BackoffTest ==
  /\ loop = "backoff"
  /\ StopLockFree
  /\ LoopGoesTo(IF stopRequested THEN "leave" ELSE "backoffBlock")

BackoffBlock == loop = "backoffBlock" /\ LoopGoesTo("sleeping")

\* The delay is over; the predicate decides once more.
BackoffOver ==
  /\ loop = "sleeping"
  /\ StopLockFree
  /\ LoopGoesTo(IF stopRequested THEN "leave" ELSE "top")

-----------------------------------------------------------------------------
(* The end of capture_loop(). *)

\* running.store(false), without stop_lock.
StoreNotRunning ==
  /\ loop = "leave"
  /\ running' = FALSE
  /\ loop' = "notify"
  /\ UNCHANGED <<mic, target, hadStream, currentMonitor, checkDue>>
  /\ UNCHANGED <<stopRequested, pending, format, queueVars, worldVars, historyVars>>
  /\ LoopUnchanged

\* stop_cv.notify_all(): a weba_capture_stop() that waits tries its predicate again.
NotifyStopped ==
  /\ loop = "notify"
  /\ loop' = "returning"
  /\ owner' = IF owner = "joinWait" THEN "joinTest" ELSE owner
  /\ UNCHANGED <<mic, target, hadStream, currentMonitor, checkDue>>
  /\ UNCHANGED <<thread, abandoned, destroying, freed, sharedVars, queueVars, controlVars,
                 consumerVars, worldVars, historyVars>>

\* The function returns, and with it the stream is let go.
LoopReturns ==
  /\ loop = "returning"
  /\ loop' = "done"
  /\ mic' = NoSink
  /\ UNCHANGED <<target, hadStream, currentMonitor, checkDue>>
  /\ UNCHANGED <<sharedVars, queueVars, worldVars, historyVars>>
  /\ LoopUnchanged

-----------------------------------------------------------------------------
\* The clock passes next_sink_check.
SinkCheckDue ==
  /\ Unpinned /\ mic # NoSink
  /\ ~checkDue
  /\ checkDue' = TRUE
  /\ UNCHANGED <<loop, mic, target, hadStream, currentMonitor>>
  /\ UNCHANGED <<sharedVars, queueVars, worldVars, historyVars>>
  /\ LoopUnchanged

\* Steps the thread takes by itself.
LoopRuns ==
  \/ LoopTop \/ PushFrame
  \/ BackoffTest \/ BackoffBlock \/ BackoffOver
  \/ StoreNotRunning \/ NotifyStopped \/ LoopReturns

\* Steps that wait for the server.
LoopQueried == ResolveAnswers \/ ResolveFails \/ CheckAnswers \/ CheckFails
LoopStreams == OpenSucceeds \/ OpenFails \/ ReadReturns \/ ReadFails

LoopStep == LoopRuns \/ LoopQueried \/ LoopStreams \/ SinkCheckDue
=============================================================================
