------------------------------- MODULE Pacing --------------------------------
(***************************************************************************)
(* The deadlines of weba_capture_read_frame() (src/src/capture.cpp), with  *)
(* and without fixed rate, on a clock that ticks between any two steps.    *)
(* An instant of the code is kept as the time left until it.  Module       *)
(* ReadFrame has the same calls with their flags and losses, and no clock. *)
(***************************************************************************)
EXTENDS Integers

CONSTANTS
  Micro,       \* ticks of the clock in a microsecond
  OneMs,       \* one_ms
  Period,      \* the duration of a frame
  Timeouts,    \* the timeouts that callers ask for
  MaxLate,     \* bound: lateness is told apart up to this
  QueueFrames  \* bound: the frames that can wait

ASSUME PacingAssumption ==
  /\ Micro \in Nat \ {0} /\ OneMs \in Nat \ {0} /\ Period \in Nat \ {0}
  /\ Timeouts \subseteq Nat
  /\ MaxLate \in Nat /\ MaxLate > Period
  /\ QueueFrames \in Nat

VARIABLES
  fixedRate,      \* fixed_rate
  reader,         \* where the consumer is in the call
  deadlineValid,
  dueIn,          \* next_deadline - now
  timeLeft,       \* call_deadline - now
  sleepLeft,      \* the wait that was computed, then what is left of it
  result,         \* what the last call returned
  queued, closed, stopRequested,
  \* history
  asked,          \* the timeout of the last call
  cold,           \* it was made before the deadline was set
  ahead,          \* output not played back yet: a frame adds Period, a tick takes one
  behind,         \* time since the deadline was first set, less a Period for every frame
  slipped         \* a frame was more than a period late

clockVars == <<dueIn, timeLeft, sleepLeft>>
worldVars == <<queued, closed, stopRequested>>
outputVars == <<ahead, behind, slipped>>
vars == <<fixedRate, reader, deadlineValid, clockVars, result, worldVars, asked, cold, outputVars>>

Places  == {"idle", "top", "toSleep", "sleeping", "toPop", "popping", "taken"}
Results == {"none", "frame", "silence", "timeout", "state"}

AtMost(a, b)  == IF a < b THEN a ELSE b
AtLeast(a, b) == IF a > b THEN a ELSE b

\* duration_cast<microseconds>, which drops what is less than one.
Cast(d) == IF d >= 0 THEN d - (d % Micro) ELSE -((-d) - ((-d) % Micro))

TypeOK ==
  /\ fixedRate \in BOOLEAN
  /\ reader \in Places
  /\ deadlineValid \in BOOLEAN
  /\ dueIn \in -MaxLate .. Period
  /\ timeLeft \in Int /\ timeLeft >= -MaxLate
  /\ sleepLeft \in Nat
  /\ result \in Results
  /\ queued \in 0 .. QueueFrames
  /\ closed \in BOOLEAN /\ stopRequested \in BOOLEAN
  /\ asked \in Timeouts \cup {0}
  /\ cold \in BOOLEAN
  /\ ahead \in Nat
  /\ behind \in Int
  /\ slipped \in BOOLEAN
  /\ reader \in {"toSleep", "sleeping", "taken"} => deadlineValid /\ fixedRate
  /\ reader \in {"toPop", "popping"} => ~fixedRate

Init ==
  /\ fixedRate \in BOOLEAN
  /\ reader = "idle"
  /\ deadlineValid = FALSE
  /\ dueIn = 0 /\ timeLeft = 0 /\ sleepLeft = 0
  /\ result = "none"
  /\ queued = 0 /\ closed = FALSE /\ stopRequested = FALSE
  /\ asked = 0 /\ cold = TRUE
  /\ ahead = 0 /\ behind = 0 /\ slipped = FALSE

-----------------------------------------------------------------------------
\* The call, up to the moment its own deadline is computed.
ReadCall ==
  /\ reader = "idle"
  /\ reader' = "top"
  /\ \E t \in Timeouts : asked' = t /\ timeLeft' = t
  /\ cold' = ~deadlineValid
  /\ result' = "none"
  /\ UNCHANGED <<fixedRate, deadlineValid, dueIn, sleepLeft, worldVars, outputVars>>

Returns(r) ==
  /\ reader' = "idle"
  /\ result' = r
  /\ sleepLeft' = 0

-----------------------------------------------------------------------------
(* With fixed rate. *)

\* The first turn of the loop sets the deadline one period ahead.
Due == IF deadlineValid THEN dueIn ELSE Period

OnlyOutOfTime == Cast(timeLeft) <= 0
\* A frame that is not due and no time to wait for it.
TimedOut == Due > 0 /\ AtMost(Cast(Due) + OneMs, Cast(timeLeft)) <= 0

PacedTimeout ==
  /\ reader = "top" /\ fixedRate
  /\ TimedOut
  /\ deadlineValid' = TRUE /\ dueIn' = Due
  /\ Returns("timeout")
  /\ UNCHANGED <<fixedRate, timeLeft, worldVars, asked, cold, outputVars>>

\* A sleep is to end a millisecond past the deadline, or with the call's own time.
WaitTime == AtMost(Cast(Due) + OneMs, Cast(timeLeft))

\* The wait is a duration counted from the clock read at the top of the loop.
PacedSleep ==
  /\ reader = "top" /\ fixedRate
  /\ Due > 0 /\ ~TimedOut
  /\ deadlineValid' = TRUE /\ dueIn' = Due
  /\ reader' = "toSleep" /\ sleepLeft' = WaitTime
  /\ UNCHANGED <<fixedRate, timeLeft, result, worldVars, asked, cold, outputVars>>

\* sleep_interruptible() has stop_lock at last, and begins to wait for that long then.
\* A stop that was requested ends the sleep before it begins.
PacedBlock ==
  /\ reader = "toSleep"
  /\ IF stopRequested
     THEN reader' = "top" /\ sleepLeft' = 0
     ELSE reader' = "sleeping" /\ UNCHANGED sleepLeft
  /\ UNCHANGED <<fixedRate, deadlineValid, dueIn, timeLeft, result, worldVars, asked, cold, outputVars>>

SleepUntimed == stopRequested
\* wait_for() ends by its time or by a stop.
SleepOver == sleepLeft = 0 \/ stopRequested

PacedWake ==
  /\ reader = "sleeping"
  /\ SleepOver
  /\ reader' = "top"
  /\ sleepLeft' = 0
  /\ UNCHANGED <<fixedRate, deadlineValid, dueIn, timeLeft, result, worldVars, asked, cold, outputVars>>

\* The frame is due: pop() with no wait takes what there is.  The end of the queue
\* ends the call.
PacedPop ==
  /\ reader = "top" /\ fixedRate
  /\ Due <= 0
  /\ IF queued = 0 /\ closed
     THEN Returns("state") /\ UNCHANGED queued
     ELSE /\ reader' = "taken"
          /\ result' = IF queued > 0 THEN "frame" ELSE "silence"
          /\ queued' = AtLeast(queued - 1, 0)
          /\ UNCHANGED sleepLeft
  /\ UNCHANGED <<fixedRate, deadlineValid, dueIn, timeLeft, closed, stopRequested, asked, cold,
                 outputVars>>

BurstOn == dueIn + Period
DriftOn == Period
\* The next deadline is a period on, or a period from now if that is past already.
NextDue == IF dueIn + Period < 0 THEN Period ELSE dueIn + Period

\* The clock may have moved since the frame was found due.
PacedDelivers ==
  /\ reader = "taken"
  /\ dueIn' = NextDue
  /\ ahead' = ahead + Period
  /\ behind' = IF slipped THEN 0 ELSE behind - Period
  /\ UNCHANGED slipped
  /\ Returns(result)
  /\ UNCHANGED <<fixedRate, deadlineValid, timeLeft, worldVars, asked, cold>>

-----------------------------------------------------------------------------
(* Without fixed rate. *)

\* The rest of the call's time, to wait for in pop().
PlainPop ==
  /\ reader = "top" /\ ~fixedRate
  /\ reader' = "toPop"
  /\ sleepLeft' = AtLeast(Cast(timeLeft), 0)
  /\ UNCHANGED <<fixedRate, deadlineValid, dueIn, timeLeft, result, worldVars, asked, cold, outputVars>>

\* pop() has the queue's lock, and begins to wait.
PlainBlock ==
  /\ reader = "toPop"
  /\ reader' = "popping"
  /\ UNCHANGED <<fixedRate, deadlineValid, clockVars, result, worldVars, asked, cold, outputVars>>

PlainGets ==
  /\ reader = "popping"
  /\ queued > 0
  /\ queued' = queued - 1
  /\ Returns("frame")
  /\ UNCHANGED <<fixedRate, deadlineValid, dueIn, timeLeft, closed, stopRequested, asked, cold,
                 outputVars>>

PlainEnd ==
  /\ reader = "popping"
  /\ queued = 0 /\ closed
  /\ Returns("state")
  /\ UNCHANGED <<fixedRate, deadlineValid, dueIn, timeLeft, worldVars, asked, cold, outputVars>>

TimeUpAtOnce == TRUE
\* The wait was cut short by the cast: only the call's deadline is a timeout.
TimeUp == timeLeft <= 0

PlainNothing ==
  /\ reader = "popping"
  /\ queued = 0 /\ ~closed /\ sleepLeft = 0
  /\ IF TimeUp THEN Returns("timeout")
     ELSE reader' = "top" /\ UNCHANGED <<result, sleepLeft>>
  /\ UNCHANGED <<fixedRate, deadlineValid, dueIn, timeLeft, worldVars, asked, cold, outputVars>>

-----------------------------------------------------------------------------
(* The rest of the program, and the clock. *)

Push ==
  /\ ~closed
  /\ queued < QueueFrames
  /\ queued' = queued + 1
  /\ UNCHANGED <<fixedRate, reader, deadlineValid, clockVars, result, closed, stopRequested, asked,
                 cold, outputVars>>

\* weba_capture_stop(): the request, then the close.
StopRequest ==
  /\ ~stopRequested
  /\ stopRequested' = TRUE
  /\ UNCHANGED <<fixedRate, reader, deadlineValid, clockVars, result, queued, closed, asked, cold,
                 outputVars>>

StopClose ==
  /\ stopRequested /\ ~closed
  /\ closed' = TRUE
  /\ UNCHANGED <<fixedRate, reader, deadlineValid, clockVars, result, queued, stopRequested, asked,
                 cold, outputVars>>

Less(d) == AtLeast(d - 1, -MaxLate)

\* A tick of the clock.  A deadline that is not set has no time left to lose, nor has
\* a wait that has not begun.
Tick ==
  /\ dueIn' = IF deadlineValid THEN Less(dueIn) ELSE dueIn
  /\ timeLeft' = Less(timeLeft)
  /\ sleepLeft' = IF reader \in {"toSleep", "toPop"} THEN sleepLeft ELSE AtLeast(sleepLeft - 1, 0)
  /\ ahead' = AtLeast(ahead - 1, 0)
  /\ slipped' = (slipped \/ dueIn' < -Period)
  /\ behind' = IF slipped' \/ ~deadlineValid THEN 0 ELSE behind + 1
  /\ UNCHANGED <<fixedRate, reader, deadlineValid, result, worldVars, asked, cold>>

ReadRuns ==
  \/ PacedTimeout \/ PacedSleep \/ PacedBlock \/ PacedWake \/ PacedPop \/ PacedDelivers
  \/ PlainPop \/ PlainBlock \/ PlainGets \/ PlainEnd \/ PlainNothing

Next == ReadCall \/ ReadRuns \/ Push \/ StopRequest \/ StopClose \/ Tick

Spec == Init /\ [][Next]_vars

\* Time passes, and the consumer's thread runs.
FairSpec == Spec /\ WF_vars(Tick) /\ WF_vars(ReadRuns)

-----------------------------------------------------------------------------
\* With fixed rate a backlog "stays queued and is drained one frame per period":
\* whatever the source and the scheduler do, the output is never more than two
\* periods ahead of real time.
NeverAhead == fixedRate => ahead <= 2 * Period

\* "so the cadence does not drift": as long as no frame has been more than a period
\* late, the frames delivered and the next deadline add up to the time that passed.
NoDrift == deadlineValid /\ ~slipped => dueIn + behind = Period

\* "with fixed_rate set, the caller normally does not see" a timeout: a caller more
\* patient than a frame is long never does, but for the call that sets the deadline.
PatientRead == fixedRate /\ result = "timeout" /\ ~cold => asked < Period + Micro

\* "a timeout is reported honestly": never before the call's time is over, but for
\* what the cast drops with fixed rate.
TimeoutIsHonest ==
  [][reader # "idle" /\ result' = "timeout" => timeLeft < IF fixedRate THEN Micro ELSE 1]_vars

\* Every read returns: with a frame, silence, a timeout or the end.
ReadReturns == (reader # "idle") ~> (reader = "idle")
=============================================================================
