------------------------------ MODULE ReadFrame ------------------------------
(***************************************************************************)
(* weba_capture_read_frame() (src/src/capture.cpp), called by one consumer *)
(* thread with an info to fill in.  Time is kept as two facts: the next    *)
(* frame is due, and the caller's timeout has passed.                      *)
(***************************************************************************)
EXTENDS CaptureHandle

ConsumerPlaces == {"idle", "top", "sleeping", "flags"}

ReadUnchanged == UNCHANGED <<running, stopRequested, format, controlVars, loopVars, ownerVars,
                             fixedRate, worldVars, number, epoch>>

\* The call is over, and its locals with it.
CallReturns ==
  /\ consumer' = "idle"
  /\ discarded' = 0
  /\ expired' = FALSE

\* The frames that this pop() reports as lost join those of earlier ones.
ReadGoesOn ==
  /\ consumer' = "flags"
  /\ discarded' = discarded + popped'.discarded
  /\ UNCHANGED expired

-----------------------------------------------------------------------------
\* The call: refused with WEBA_ERR_STATE unless the capture is running.
ReadRefused ==
  /\ consumer = "idle"
  /\ ~destroying
  /\ ~running
  /\ UNCHANGED vars

ReadCall ==
  /\ consumer = "idle"
  /\ ~destroying
  /\ running
  /\ consumer' = "top"
  /\ UNCHANGED <<discarded, deadlineValid, due, expired, pending, queueVars, reported, lastFrame>>
  /\ ReadUnchanged

-----------------------------------------------------------------------------
(* Without fixed rate the consumer waits in pop() until the call's deadline. *)

WaitIgnoresClose == frames # << >> \/ expired
\* What ends the wait.
WaitOver == frames # << >> \/ closed \/ expired

\* pop() returns: nothing in time and the call times out, the end of the queue
\* and the call fails with WEBA_ERR_STATE, or a frame.
ReadPop ==
  /\ consumer = "top"
  /\ ~fixedRate
  /\ WaitOver
  /\ Queue!Pop
  /\ IF popped'.result = Queue!GotFrame THEN ReadGoesOn ELSE CallReturns
  /\ UNCHANGED <<deadlineValid, due, pending, reported, lastFrame>>
  /\ ReadUnchanged

-----------------------------------------------------------------------------
(* With fixed rate it waits for the frame to be due, then takes what there is. *)

\* The frame is not due and the caller's time is over.
OutOfTime == ~due /\ expired

\* The first call sets the deadline.  A frame that is not due and a call that
\* has no time left end in a timeout.
PacedTimeout ==
  /\ consumer = "top"
  /\ fixedRate
  /\ OutOfTime
  /\ deadlineValid' = TRUE
  /\ CallReturns
  /\ UNCHANGED <<due, pending, queueVars, reported, lastFrame>>
  /\ ReadUnchanged

\* sleep_interruptible(): returns at once when a stop has been requested.
PacedSleep ==
  /\ consumer = "top"
  /\ fixedRate
  /\ ~due /\ ~expired
  /\ StopLockFree
  /\ deadlineValid' = TRUE
  /\ consumer' = IF stopRequested THEN "top" ELSE "sleeping"
  /\ UNCHANGED <<discarded, due, expired, pending, queueVars, reported, lastFrame>>
  /\ ReadUnchanged

\* Its time is over.
PacedWake ==
  /\ consumer = "sleeping"
  /\ due \/ expired
  /\ StopLockFree
  /\ consumer' = "top"
  /\ UNCHANGED <<discarded, deadlineValid, due, expired, pending, queueVars, reported, lastFrame>>
  /\ ReadUnchanged

\* The frame is due: pop() without waiting.  The end of the queue is
\* WEBA_ERR_STATE; an empty queue is made up for with silence.
PacedPop ==
  /\ consumer = "top"
  /\ fixedRate
  /\ due
  /\ Queue!Pop
  /\ IF popped'.result = Queue!Closed THEN CallReturns ELSE ReadGoesOn
  /\ UNCHANGED <<deadlineValid, due, pending, reported, lastFrame>>
  /\ ReadUnchanged

-----------------------------------------------------------------------------
Silent == popped.result = Queue!TimedOut

DroppedNotReported == 0
\* dropped_frames of the info.
DroppedReported == discarded

\* The frame and the info the call fills in.  Frames of silence are NoFrame.
Delivered ==
  [frame   |-> popped.frame,
   flags   |-> pending
               \cup (IF discarded > 0 THEN {"discontinuity"} ELSE {})
               \cup (IF Silent THEN {"silence", "underrun"} ELSE {}),
   dropped |-> DroppedReported]

\* The flags are gathered after the frame was taken from the queue, and the call
\* returns; with fixed rate the deadline moves past now.
ReadDelivers ==
  /\ consumer = "flags"
  /\ pending' = {}
  /\ due' = FALSE
  /\ reported' = IF "reinit" \in Delivered.flags THEN epoch ELSE reported
  /\ lastFrame' = IF Silent THEN lastFrame ELSE Delivered.frame
  /\ CallReturns
  /\ UNCHANGED <<deadlineValid, queueVars>>
  /\ ReadUnchanged

-----------------------------------------------------------------------------
\* The clock passes the call's deadline.
CallExpires ==
  /\ consumer # "idle"
  /\ ~expired
  /\ expired' = TRUE
  /\ UNCHANGED <<consumer, discarded, deadlineValid, due, pending, queueVars, reported, lastFrame>>
  /\ ReadUnchanged

\* The clock passes next_deadline.
FrameDue ==
  /\ deadlineValid
  /\ ~due
  /\ due' = TRUE
  /\ UNCHANGED <<consumer, discarded, deadlineValid, expired, pending, queueVars, reported,
                 lastFrame>>
  /\ ReadUnchanged

\* Steps a call takes once it is made.
ReadRuns == ReadPop \/ PacedTimeout \/ PacedSleep \/ PacedWake \/ PacedPop \/ ReadDelivers

ReadStep == ReadRefused \/ ReadCall \/ ReadRuns \/ CallExpires \/ FrameDue
=============================================================================
