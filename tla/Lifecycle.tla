------------------------------ MODULE Lifecycle ------------------------------
(***************************************************************************)
(* weba_capture_start(), weba_capture_stop() and weba_capture_destroy()    *)
(* (src/src/capture.cpp), called one at a time by one thread, the owner.   *)
(***************************************************************************)
EXTENDS CaptureHandle

OwnerPlaces == {"idle", "connecting", "resolving", "startFailed", "spawn",
                "stopNotify", "stopClose", "joinTest", "joinBlock", "joinWait", "join",
                "stopControl", "stopping", "free", "gone"}

OwnerUnchanged == UNCHANGED <<consumerVars, worldVars, historyVars>>

OwnerGoesTo(place) ==
  /\ owner' = place
  /\ UNCHANGED <<thread, abandoned, destroying, freed>>

-----------------------------------------------------------------------------
(* weba_capture_start() *)

StartUnguarded == TRUE
\* A running capture is not started again.
MayStart == ~running

StartRefused ==
  /\ owner = "idle"
  /\ ~MayStart
  /\ UNCHANGED vars

StartCall ==
  /\ owner = "idle"
  /\ MayStart
  /\ Link!InitCall
  /\ OwnerGoesTo("connecting")
  /\ UNCHANGED <<sharedVars, queueVars, loopVars>>
  /\ OwnerUnchanged

\* control.init() failed: start() returns its status and leaves the rest to a
\* later stop().
StartNotConnected ==
  /\ owner = "connecting"
  /\ call = "idle" /\ status = "error"
  /\ OwnerGoesTo("idle")
  /\ UNCHANGED <<sharedVars, queueVars, controlVars, loopVars>>
  /\ OwnerUnchanged

\* control.init() is done; without a usable context resolve_target() fails at once.
StartConnected ==
  /\ owner = "connecting"
  /\ call = "idle" /\ status = "ok"
  /\ IF Link!CanResolve
     THEN OwnerGoesTo("resolving") /\ UNCHANGED controlVars
     ELSE OwnerGoesTo("startFailed") /\ Link!ShutdownCall
  /\ UNCHANGED <<sharedVars, queueVars, loopVars>>
  /\ OwnerUnchanged

StartResolves ==
  /\ owner = "resolving"
  /\ \E s \in Sink : Resolves(s) /\ format' = s
  /\ OwnerGoesTo("spawn")
  /\ UNCHANGED <<running, stopRequested, pending, queueVars, controlVars, loopVars>>
  /\ OwnerUnchanged

StartResolveFails ==
  /\ owner = "resolving"
  /\ QueryFails
  /\ Link!ShutdownCall
  /\ OwnerGoesTo("startFailed")
  /\ UNCHANGED <<sharedVars, queueVars, loopVars, consumerVars, defaultSink, moves, stops,
                 historyVars>>

\* The shutdown() of a failed start is over.
StartFails ==
  /\ owner = "startFailed"
  /\ call = "idle"
  /\ OwnerGoesTo("idle")
  /\ UNCHANGED <<sharedVars, queueVars, controlVars, loopVars>>
  /\ OwnerUnchanged

\* The flags are set and the capture thread is started.
StartSpawns ==
  /\ owner = "spawn"
  /\ stopRequested' = FALSE
  /\ running' = TRUE
  /\ thread' = "joinable"
  /\ owner' = "idle"
  /\ loop' = "top"
  /\ hadStream' = FALSE
  /\ UNCHANGED <<mic, target, currentMonitor, checkDue, pending, format, abandoned, destroying, freed,
                 queueVars, controlVars>>
  /\ OwnerUnchanged

-----------------------------------------------------------------------------
(* weba_capture_stop(), by itself or as the first part of                     *)
(* weba_capture_destroy(), which the consumer must have left the handle for.  *)

RequestWithoutLock == TRUE
\* stop_requested is set under stop_lock.
MayRequestStop == StopLockFree

StopRequest(destroy) ==
  /\ owner = "idle"
  /\ MayRequestStop
  /\ destroy => consumer = "idle"
  /\ destroying' = destroy
  /\ stopRequested' = TRUE
  /\ owner' = "stopNotify"
  /\ stops < MaxStops
  /\ stops' = stops + 1
  /\ UNCHANGED <<thread, abandoned, freed, running, pending, format, queueVars, controlVars,
                 loopVars, consumerVars, defaultSink, faults, moves, historyVars>>

StopCall    == StopRequest(FALSE)
DestroyCall == StopRequest(TRUE)

\* stop_cv.notify_all(): who sleeps tries its predicate again.
Woken(place) == IF place = "sleeping" THEN "backoff" ELSE place

StopNotify ==
  /\ owner = "stopNotify"
  /\ OwnerGoesTo("stopClose")
  /\ loop' = Woken(loop)
  /\ consumer' = IF consumer = "sleeping" THEN "top" ELSE consumer
  /\ UNCHANGED <<mic, target, hadStream, currentMonitor, checkDue>>
  /\ UNCHANGED <<fixedRate, discarded, deadlineValid, due, expired>>
  /\ UNCHANGED <<sharedVars, queueVars, controlVars, worldVars, historyVars>>

\* queue.close(); only a joinable thread is waited for.
StopClose ==
  /\ owner = "stopClose"
  /\ Queue!Close
  /\ OwnerGoesTo(IF thread = "joinable" THEN "joinTest" ELSE "stopControl")
  /\ UNCHANGED <<sharedVars, controlVars, loopVars>>
  /\ OwnerUnchanged

\* The predicate of the wait is tried with stop_lock held.
JoinTest ==
  /\ owner = "joinTest"
  /\ StopLockFree
  /\ OwnerGoesTo(IF running THEN "joinBlock" ELSE "join")
  /\ UNCHANGED <<sharedVars, queueVars, controlVars, loopVars>>
  /\ OwnerUnchanged

JoinBlock ==
  /\ owner = "joinBlock"
  /\ OwnerGoesTo("joinWait")
  /\ UNCHANGED <<sharedVars, queueVars, controlVars, loopVars>>
  /\ OwnerUnchanged

NeverAbandoned == FALSE
\* A thread that is still running when kJoinTimeout runs out is detached.
AbandonedAfterWait == running

JoinTimeout ==
  /\ owner = "joinWait"
  /\ StopLockFree
  /\ IF AbandonedAfterWait
     THEN /\ thread' = "detached"
          /\ abandoned' = TRUE
          /\ owner' = "stopControl"
          /\ UNCHANGED <<destroying, freed>>
     ELSE OwnerGoesTo("join")
  /\ UNCHANGED <<sharedVars, queueVars, controlVars, loopVars>>
  /\ OwnerUnchanged

\* thread.join()
JoinThread ==
  /\ owner = "join"
  /\ loop = "done"
  /\ loop' = "none"
  /\ thread' = "none"
  /\ owner' = "stopControl"
  /\ UNCHANGED <<mic, target, hadStream, currentMonitor, checkDue>>
  /\ UNCHANGED <<abandoned, destroying, freed, sharedVars, queueVars, controlVars>>
  /\ OwnerUnchanged

FreedAfterStop == IF destroying THEN "free" ELSE "idle"
\* Where a stop() that is over leaves the owner.
AfterStop == IF ~destroying THEN "idle" ELSE IF abandoned THEN "gone" ELSE "free"

AbandonedIgnored == FALSE
\* The connection outlives an abandoned thread.
LinkOutlives == abandoned

\* An abandoned thread keeps the connection, and running keeps its value.
StopControl ==
  /\ owner = "stopControl"
  /\ IF LinkOutlives
     THEN OwnerGoesTo(AfterStop) /\ UNCHANGED controlVars
     ELSE OwnerGoesTo("stopping") /\ Link!ShutdownCall
  /\ UNCHANGED <<sharedVars, queueVars, loopVars>>
  /\ OwnerUnchanged

\* control.shutdown() has returned.
StopReturns ==
  /\ owner = "stopping"
  /\ call = "idle"
  /\ running' = FALSE
  /\ OwnerGoesTo(AfterStop)
  /\ UNCHANGED <<stopRequested, pending, format, queueVars, controlVars, loopVars>>
  /\ OwnerUnchanged

\* delete, whose second control.shutdown() finds nothing left to do.
DestroyFrees ==
  /\ owner = "free"
  /\ freed' = TRUE
  /\ owner' = "gone"
  /\ UNCHANGED <<thread, abandoned, destroying>>
  /\ UNCHANGED <<sharedVars, queueVars, controlVars, loopVars>>
  /\ OwnerUnchanged

\* Steps the owner takes once it has made a call.
OwnerRuns ==
  \/ StartNotConnected \/ StartConnected \/ StartResolves \/ StartResolveFails
  \/ StartFails \/ StartSpawns
  \/ StopNotify \/ StopClose \/ JoinTest \/ JoinBlock \/ JoinTimeout \/ JoinThread
  \/ StopControl \/ StopReturns \/ DestroyFrees

OwnerStep == StartRefused \/ StartCall \/ StopCall \/ DestroyCall \/ OwnerRuns
=============================================================================
