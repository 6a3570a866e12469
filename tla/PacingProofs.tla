---------------------------- MODULE PacingProofs -----------------------------
(***************************************************************************)
(* What module Pacing keeps in every state, for every period, resolution   *)
(* of the clock and set of timeouts.                                       *)
(***************************************************************************)
EXTENDS Pacing, TLAPS

(***************************************************************************)
(* The inductive invariant.  Each property needs to know how it stands to  *)
(* the next deadline: output is ahead by at most a period more than the    *)
(* deadline is away, a patient caller's deadline lies behind the frame's,  *)
(* and a frame that was taken was due.                                     *)
(***************************************************************************)

\* A frame in the reader's hands was due; no call in progress has timed out.
CallPlaces ==
  /\ reader = "taken" => dueIn <= 0
  /\ reader # "idle" => result # "timeout"

\* Stronger than NeverAhead by what the deadline has left.
AheadOfDeadline ==
  fixedRate =>
    /\ ~deadlineValid => ahead = 0
    /\ ahead > 0 => ahead <= dueIn + Period

\* A frame not due yet is due before a patient caller's time is over.
PatientIsEnough ==
  fixedRate /\ reader \in {"top", "toSleep", "sleeping"} /\ ~cold /\ asked >= Period + Micro =>
    /\ deadlineValid
    /\ dueIn <= 0 \/ dueIn + Micro <= timeLeft

\* Stronger than NoDrift by what "slipped" says.
OnGrid ==
  /\ ~deadlineValid => behind = 0 /\ ~slipped /\ dueIn = 0
  /\ ~slipped => dueIn >= -Period
  /\ NoDrift

IInv ==
  /\ TypeOK
  /\ CallPlaces
  /\ AheadOfDeadline
  /\ PatientIsEnough
  /\ PatientRead
  /\ OnGrid

-----------------------------------------------------------------------------
\* The cast drops less than a microsecond, and never turns a wait into more.
LEMMA CastDrops ==
  ASSUME NEW d \in Int
  PROVE  /\ Cast(d) \in Int
         /\ d >= 0 => Cast(d) >= 0 /\ Cast(d) <= d /\ d < Cast(d) + Micro
         /\ d < 0 => Cast(d) <= 0
<1>1. Micro \in Nat /\ Micro > 0
  BY PacingAssumption
<1>2. \A n \in Nat : n % Micro \in 0 .. (Micro - 1) /\ n % Micro <= n
  BY <1>1
<1>3. CASE d >= 0
  <2>1. d \in Nat /\ d % Micro \in 0 .. (Micro - 1) /\ d % Micro <= d
    BY <1>2, <1>3
  <2> QED BY <1>1, <1>3, <2>1 DEF Cast
<1>4. CASE d < 0
  <2>1. -d \in Nat /\ (-d) % Micro \in 0 .. (Micro - 1) /\ (-d) % Micro <= -d
    BY <1>2, <1>4
  <2> QED BY <1>1, <1>4, <2>1 DEF Cast
<1> QED BY <1>3, <1>4

LEMMA PacingInit == Init => IInv
<1> SUFFICES ASSUME Init PROVE IInv
  OBVIOUS
<1>1. TypeOK
  <2>1. 0 \in -MaxLate .. Period /\ 0 >= -MaxLate /\ 0 \in 0 .. QueueFrames
    BY PacingAssumption
  <2>2. dueIn = 0 /\ timeLeft = 0 /\ sleepLeft = 0 /\ queued = 0 /\ asked = 0 /\ ahead = 0 /\ behind = 0
    BY DEF Init
  <2>3. /\ dueIn \in -MaxLate .. Period /\ timeLeft \in Int /\ timeLeft >= -MaxLate /\ sleepLeft \in Nat
        /\ queued \in 0 .. QueueFrames /\ asked \in Timeouts \cup {0} /\ ahead \in Nat /\ behind \in Int
    BY <2>1, <2>2
  <2> QED BY <2>3 DEF Init, TypeOK, Places, Results
<1> QED BY <1>1, PacingAssumption DEF Init, IInv, CallPlaces, AheadOfDeadline, PatientIsEnough,
                                      PatientRead, OnGrid, NoDrift

-----------------------------------------------------------------------------
LEMMA ReadCallIInv ==
  ASSUME IInv, ReadCall
  PROVE  IInv'
<1>1. TypeOK'
  BY PacingAssumption DEF IInv, TypeOK, ReadCall, Places, Results, worldVars, outputVars
<1> QED BY <1>1, PacingAssumption
     DEF IInv, TypeOK, ReadCall, CallPlaces, AheadOfDeadline, PatientIsEnough, PatientRead,
         OnGrid, NoDrift, worldVars, outputVars

LEMMA PacedTimeoutIInv ==
  ASSUME IInv, PacedTimeout
  PROVE  IInv'
<1>0. dueIn \in Int /\ timeLeft \in Int /\ Period \in Int /\ OneMs > 0 /\ OneMs \in Int /\ Period > 0
      /\ Micro \in Int /\ Micro > 0
  BY PacingAssumption DEF IInv, TypeOK
<1>1. Cast(Due) \in Int /\ Cast(Due) >= 0 /\ Due \in Int
  <2>1. Due \in Int /\ Due > 0
    BY <1>0 DEF PacedTimeout, TimedOut, Due
  <2> QED BY <2>1, CastDrops
<1>2. Cast(timeLeft) <= 0 /\ timeLeft < Micro
  BY <1>0, <1>1, CastDrops DEF PacedTimeout, TimedOut, AtMost
<1>3. TypeOK'
  BY PacingAssumption DEF IInv, TypeOK, PacedTimeout, Returns, Due, Places, Results, worldVars,
                          outputVars
<1>4. PatientRead'
  BY <1>0, <1>2, PacingAssumption DEF IInv, TypeOK, PatientRead, PatientIsEnough, PacedTimeout,
                                      TimedOut, Due, Returns, worldVars
<1> QED BY <1>3, <1>4, PacingAssumption
     DEF IInv, TypeOK, PacedTimeout, Returns, Due, CallPlaces, AheadOfDeadline, PatientIsEnough,
         OnGrid, NoDrift, worldVars, outputVars

LEMMA PacedSleepIInv ==
  ASSUME IInv, PacedSleep
  PROVE  IInv'
<1>0. Due \in Int /\ Due > 0 /\ Due <= Period /\ timeLeft \in Int /\ OneMs \in Int /\ OneMs > 0
  BY PacingAssumption DEF IInv, TypeOK, PacedSleep, Due
<1>1. WaitTime \in Nat
  <2>1. Cast(Due) \in Int /\ Cast(Due) >= 0 /\ Cast(Due) <= Due
    BY <1>0, CastDrops
  <2>2. Cast(timeLeft) \in Int /\ Cast(timeLeft) > 0
    BY <1>0, <2>1, CastDrops DEF PacedSleep, TimedOut, AtMost
  <2> QED BY <1>0, <2>1, <2>2 DEF WaitTime, AtMost
<1>2. TypeOK'
  BY <1>1, PacingAssumption DEF IInv, TypeOK, PacedSleep, Due, Places, Results, worldVars,
                                outputVars
<1>3. PatientIsEnough'
  BY PacingAssumption DEF IInv, TypeOK, PatientIsEnough, PacedSleep, Due
<1> QED BY <1>2, <1>3, PacingAssumption
     DEF IInv, TypeOK, PacedSleep, Due, CallPlaces, AheadOfDeadline, PatientRead,
         OnGrid, NoDrift, worldVars, outputVars

LEMMA PacedWakeIInv ==
  ASSUME IInv, PacedBlock \/ PacedWake
  PROVE  IInv'
<1>1. TypeOK'
  BY PacingAssumption DEF IInv, TypeOK, PacedBlock, PacedWake, Places, Results, worldVars,
                                outputVars
<1> QED BY <1>1, PacingAssumption
     DEF IInv, TypeOK, PacedBlock, PacedWake, CallPlaces, AheadOfDeadline, PatientIsEnough, PatientRead,
         OnGrid, NoDrift, worldVars, outputVars

LEMMA PacedPopIInv ==
  ASSUME IInv, PacedPop
  PROVE  IInv'
<1>0. deadlineValid /\ dueIn <= 0
  BY PacingAssumption DEF IInv, TypeOK, PacedPop, Due
<1>1. TypeOK'
  BY <1>0, PacingAssumption DEF IInv, TypeOK, PacedPop, Returns, AtLeast, Places, Results,
                                worldVars, outputVars
<1> QED BY <1>0, <1>1, PacingAssumption
     DEF IInv, TypeOK, PacedPop, Returns, CallPlaces, AheadOfDeadline, PatientIsEnough, PatientRead,
         OnGrid, NoDrift, worldVars, outputVars

LEMMA PacedDeliversIInv ==
  ASSUME IInv, PacedDelivers
  PROVE  IInv'
<1>0. dueIn <= 0 /\ deadlineValid /\ fixedRate /\ result # "timeout"
  BY DEF IInv, TypeOK, CallPlaces, PacedDelivers
<1>1. dueIn' \in 0 .. Period
  BY <1>0, PacingAssumption DEF IInv, TypeOK, PacedDelivers, NextDue
<1>2. TypeOK'
  <2>1. dueIn' \in -MaxLate .. Period
    BY <1>1, PacingAssumption
  <2> QED BY <2>1, PacingAssumption DEF IInv, TypeOK, PacedDelivers, Returns, Places, Results,
                                        worldVars, outputVars
<1>3. AheadOfDeadline'
  BY <1>0, <1>1, PacingAssumption DEF IInv, TypeOK, AheadOfDeadline, PacedDelivers, NextDue
<1>4. OnGrid'
  BY <1>0, <1>1, PacingAssumption DEF IInv, TypeOK, OnGrid, NoDrift, PacedDelivers, NextDue
<1>5. CallPlaces' /\ PatientIsEnough' /\ PatientRead'
  BY <1>0 DEF IInv, CallPlaces, PatientIsEnough, PatientRead, PacedDelivers, Returns
<1> QED BY <1>2, <1>3, <1>4, <1>5 DEF IInv

-----------------------------------------------------------------------------
\* Without fixed rate there is little to keep.
LEMMA PlainIInv ==
  ASSUME IInv, PlainPop \/ PlainBlock \/ PlainGets \/ PlainEnd \/ PlainNothing
  PROVE  IInv'
<1>1. ~fixedRate /\ UNCHANGED <<fixedRate, deadlineValid, dueIn, timeLeft, asked, cold, outputVars>>
  BY DEF IInv, TypeOK, PlainPop, PlainBlock, PlainGets, PlainEnd, PlainNothing, clockVars
<1>2. TypeOK'
  BY CastDrops, PacingAssumption DEF IInv, TypeOK, PlainPop, PlainBlock, PlainGets, PlainEnd,
                                     PlainNothing, clockVars, Returns, AtLeast, Places, Results, worldVars, outputVars
<1>3. CallPlaces'
  BY DEF IInv, TypeOK, PlainPop, PlainBlock, PlainGets, PlainEnd, PlainNothing, Returns, CallPlaces
<1>4. AheadOfDeadline' /\ PatientIsEnough' /\ PatientRead'
  BY <1>1 DEF AheadOfDeadline, PatientIsEnough, PatientRead
<1>5. OnGrid'
  BY <1>1 DEF IInv, OnGrid, NoDrift, outputVars
<1> QED BY <1>2, <1>3, <1>4, <1>5 DEF IInv

LEMMA WorldIInv ==
  ASSUME IInv, Push \/ StopRequest \/ StopClose
  PROVE  IInv'
<1>1. UNCHANGED <<fixedRate, reader, deadlineValid, clockVars, result, asked, cold, outputVars>>
  BY DEF Push, StopRequest, StopClose
<1>2. queued' \in 0 .. QueueFrames /\ closed' \in BOOLEAN /\ stopRequested' \in BOOLEAN
  <2>1. queued \in 0 .. QueueFrames /\ closed \in BOOLEAN /\ stopRequested \in BOOLEAN
    BY DEF IInv, TypeOK
  <2>2. CASE Push
    BY <2>1, <2>2, PacingAssumption DEF Push
  <2>3. CASE StopRequest
    BY <2>1, <2>3 DEF StopRequest
  <2>4. CASE StopClose
    BY <2>1, <2>4 DEF StopClose
  <2> QED BY <2>2, <2>3, <2>4
<1>3. TypeOK'
  BY <1>1, <1>2 DEF IInv, TypeOK, clockVars, outputVars
<1> QED BY <1>1, <1>3
     DEF IInv, CallPlaces, AheadOfDeadline, PatientIsEnough, PatientRead,
         OnGrid, NoDrift, clockVars, outputVars

LEMMA TickIInv ==
  ASSUME IInv, Tick
  PROVE  IInv'
<1>0. /\ MaxLate \in Nat /\ Period \in Nat /\ MaxLate > Period /\ Micro \in Nat /\ Micro > 0
      /\ dueIn \in Int /\ timeLeft \in Int /\ sleepLeft \in Nat /\ ahead \in Nat /\ behind \in Int
  BY PacingAssumption DEF IInv, TypeOK
<1>1. /\ dueIn' \in -MaxLate .. Period /\ dueIn' >= dueIn - 1 /\ dueIn' <= dueIn
      /\ dueIn' > -MaxLate /\ deadlineValid => dueIn' = dueIn - 1
      /\ timeLeft' \in Int /\ timeLeft' >= -MaxLate /\ timeLeft' >= timeLeft - 1
  BY <1>0 DEF IInv, TypeOK, Tick, Less, AtLeast
<1>2. TypeOK'
  BY <1>0, <1>1 DEF IInv, TypeOK, Tick, AtLeast, Places, Results, worldVars
<1>3. CallPlaces' /\ PatientRead'
  BY <1>0, <1>1 DEF IInv, CallPlaces, PatientRead, Tick
<1>4. AheadOfDeadline'
  BY <1>0, <1>1 DEF IInv, AheadOfDeadline, Tick, AtLeast
<1>5. PatientIsEnough'
  BY <1>0, <1>1 DEF IInv, PatientIsEnough, Tick
<1>6. OnGrid'
  <2>1. slipped \in BOOLEAN /\ deadlineValid' = deadlineValid
    BY DEF IInv, TypeOK, Tick
  <2>2. slipped' <=> slipped \/ dueIn' < -Period
    BY <2>1 DEF Tick
  <2>3. CASE ~deadlineValid
    <3>1. behind' = 0 /\ dueIn' = dueIn
      BY <2>3 DEF Tick
    <3>2. dueIn = 0 /\ ~slipped /\ ~slipped'
      BY <2>3, <2>2, <3>1, <1>0 DEF IInv, OnGrid
    <3> QED BY <2>1, <2>3, <3>1, <3>2, <1>0 DEF OnGrid, NoDrift
  <2>4. CASE deadlineValid
    <3>1. deadlineValid' /\ (~slipped' => ~slipped /\ dueIn' >= -Period /\ behind' = behind + 1)
      <4>1. ~slipped' => ~slipped /\ dueIn' >= -Period
        BY <2>2, <1>0, <1>1
      <4>2. ~slipped' => behind' = behind + 1
        BY <2>4 DEF Tick
      <4> QED BY <2>1, <2>4, <4>1, <4>2
    <3>2. ~slipped' => dueIn' = dueIn - 1
      BY <2>4, <3>1, <1>0, <1>1
    <3> QED BY <2>4, <3>1, <3>2, <1>0, <1>1 DEF IInv, OnGrid, NoDrift
  <2> QED BY <2>3, <2>4
<1> QED BY <1>2, <1>3, <1>4, <1>5, <1>6 DEF IInv

-----------------------------------------------------------------------------
LEMMA PacingStep == IInv /\ [Next]_vars => IInv'
<1> SUFFICES ASSUME IInv, [Next]_vars PROVE IInv'
  OBVIOUS
<1>1. CASE UNCHANGED vars
  BY <1>1 DEF IInv, TypeOK, CallPlaces, AheadOfDeadline, PatientIsEnough, PatientRead,
              OnGrid, NoDrift, vars, clockVars, worldVars, outputVars
<1>2. CASE Next
  BY <1>2, ReadCallIInv, PacedTimeoutIInv, PacedSleepIInv, PacedWakeIInv, PacedPopIInv,
     PacedDeliversIInv, PlainIInv, WorldIInv, TickIInv DEF Next, ReadRuns
<1> QED BY <1>1, <1>2

THEOREM PacingInvariant == Spec => []IInv
  BY PacingInit, PacingStep, PTL DEF Spec

\* The clocks stay in their ranges: the next deadline is never further than one
\* period away, and no wait is negative.
THEOREM PacingTypeCorrect == Spec => []TypeOK
<1>1. IInv => TypeOK
  BY DEF IInv
<1> QED BY <1>1, PacingInvariant, PTL

\* The output of capture.cpp:453-459 is at most two periods ahead of real time.
THEOREM OutputNeverAhead == Spec => []NeverAhead
<1>1. IInv => NeverAhead
  BY PacingAssumption DEF IInv, TypeOK, AheadOfDeadline, NeverAhead
<1> QED BY <1>1, PacingInvariant, PTL

\* Without a frame more than a period late the cadence keeps to its first deadline.
THEOREM CadenceHolds == Spec => []NoDrift
<1>1. IInv => NoDrift
  BY DEF IInv, OnGrid
<1> QED BY <1>1, PacingInvariant, PTL

\* A caller that gives a read a period and a microsecond gets a frame or silence.
THEOREM PatienceIsEnough == Spec => []PatientRead
<1>1. IInv => PatientRead
  BY DEF IInv
<1> QED BY <1>1, PacingInvariant, PTL

\* No read times out before its time, but for what the cast drops.
THEOREM TimeoutsAreHonest == Spec => TimeoutIsHonest
<1>1. ASSUME IInv, [Next]_vars, reader # "idle", result' = "timeout"
      PROVE  timeLeft < IF fixedRate THEN Micro ELSE 1
  <2>1. result # "timeout"
    BY <1>1 DEF IInv, CallPlaces
  <2>2. PacedTimeout \/ PlainNothing
    BY <1>1, <2>1 DEF Next, ReadCall, ReadRuns, PacedSleep, PacedBlock, PacedWake, PacedPop, PacedDelivers,
                      PlainPop, PlainBlock, PlainGets, PlainEnd, Push, StopRequest, StopClose, Tick, Returns,
                      vars
  <2>3. CASE PacedTimeout
    <3>1. dueIn \in Int /\ timeLeft \in Int /\ Period \in Int /\ OneMs \in Int /\ OneMs > 0
          /\ Micro \in Int /\ Micro > 0
      BY <1>1, PacingAssumption DEF IInv, TypeOK
    <3>2. Cast(Due) \in Int /\ Cast(Due) >= 0
      BY <2>3, <3>1, CastDrops DEF PacedTimeout, TimedOut, Due
    <3>3. Cast(timeLeft) <= 0
      BY <2>3, <3>1, <3>2, CastDrops DEF PacedTimeout, TimedOut, AtMost
    <3> QED BY <2>3, <3>1, <3>3, CastDrops DEF PacedTimeout
  <2>4. CASE PlainNothing
    <3>1. ~fixedRate /\ TimeUp
      BY <1>1, <2>1, <2>4 DEF PlainNothing, IInv, TypeOK
    <3> QED BY <1>1, <3>1 DEF IInv, TypeOK, TimeUp
  <2> QED BY <2>2, <2>3, <2>4
<1>2. IInv /\ [Next]_vars =>
        [reader # "idle" /\ result' = "timeout"
           => timeLeft < IF fixedRate THEN Micro ELSE 1]_vars
  BY <1>1
<1> QED BY <1>2, PacingInvariant, PTL DEF Spec, TimeoutIsHonest
=============================================================================
