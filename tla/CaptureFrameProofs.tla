-------------------------- MODULE CaptureFrameProofs --------------------------
(***************************************************************************)
(* What module Capture keeps of the streams it records and the frames it   *)
(* hands out, for every set of sinks, every queue and every bound: types,  *)
(* the stream that is open, the queue, the reopens and the gaps.           *)
(***************************************************************************)
EXTENDS CaptureProofs

(***************************************************************************)
(* The stream the capture thread records.  How often it is reopened is     *)
(* bounded only because every reopen has a cause: the next one is owed, or  *)
(* will be, to a failure or to a default sink that has moved on.            *)
(***************************************************************************)
streamVars == <<loop, mic, target, hadStream, currentMonitor, checkDue, format, defaultSink,
                faults, moves, stops, number, epoch>>

StreamTypes ==
  /\ mic \in Sink \cup {NoSink} /\ target \in Sink \cup {NoSink}
  /\ currentMonitor \in Sink \cup {NoSink} /\ format \in Sink \cup {NoSink}
  /\ defaultSink \in Sink
  /\ faults \in 0 .. MaxFaults /\ moves \in 0 .. MaxMoves /\ stops \in 0 .. MaxStops
  /\ number \in 0 .. MaxNumber
  /\ epoch \in Nat

\* What each place of capture_loop() has of a stream, open or about to be.
StreamPlaces ==
  /\ loop \in {"none", "resolving", "opening", "backoff", "backoffBlock", "sleeping", "done"}
       => mic = NoSink
  /\ loop \in {"reading", "push", "checking"} => mic # NoSink
  /\ target # NoSink <=> loop = "opening"
  /\ loop = "opening" => format = target
  /\ loop = "checking" => Unpinned
  /\ loop = "push" => number > 0

\* The thread has let go of a stream and has yet to reopen one.
Owed == IF hadStream /\ mic = NoSink /\ loop \notin {"none", "done"} THEN 1 ELSE 0

\* It records, or is about to open, what is not the default sink any more.
OffDefault(s) == s \notin {NoSink, defaultSink}
Astray == IF Unpinned /\ (OffDefault(mic) \/ OffDefault(target)) THEN 1 ELSE 0

\* No failure and no change of the default sink pays for two reopens.
ReopensCaused == epoch + Owed + Astray <= faults + moves

StreamInv ==
  /\ StreamTypes
  /\ StreamPlaces
  /\ StreamIsNamed
  /\ ReopensCaused

LEMMA StreamInit == Init => StreamInv
<1> SUFFICES ASSUME Init PROVE StreamInv
  OBVIOUS
<1>1. StreamTypes
  <2>1. 0 \in 0 .. MaxFaults /\ 0 \in 0 .. MaxMoves /\ 0 \in 0 .. MaxStops /\ 0 \in 0 .. MaxNumber
    BY CaptureAssumption
  <2> QED BY <2>1 DEF Init, StreamTypes
<1> QED BY <1>1 DEF Init, StreamInv, StreamPlaces, StreamIsNamed, ReopensCaused, Owed, Astray,
                    OffDefault

\* Each step of the thread: a stream is let go with a failure or because it is astray, and
\* opening the next one settles what is owed.
LEMMA LoopStream ==
  ASSUME StreamInv, LoopStep
  PROVE  StreamInv'
<1> USE CaptureAssumption
    DEF StreamInv, StreamTypes, StreamPlaces, StreamIsNamed, ReopensCaused, Owed, Astray,
        OffDefault, Unpinned, sharedVars, worldVars, historyVars
<1>1. CASE LoopTop
  BY <1>1 DEF LoopTop
<1>2. CASE ResolveAnswers
  BY <1>2 DEF ResolveAnswers, Resolves, Published
<1>3. CASE ResolveFails \/ CheckFails
  BY <1>3 DEF ResolveFails, CheckFails, QueryFails, Fault
<1>4. CASE CheckAnswers
  BY <1>4 DEF CheckAnswers, Resolves
<1>5. CASE OpenSucceeds
  <2>1. StreamTypes' /\ StreamPlaces' /\ StreamIsNamed'
    BY <1>5 DEF OpenSucceeds
  <2>2. hadStream => Owed = 1
    BY <1>5 DEF OpenSucceeds
  <2>3. Owed' = 0 /\ Astray' = Astray /\ Owed \in {0, 1} /\ Astray \in {0, 1}
    BY <1>5 DEF OpenSucceeds
  <2>4. epoch' <= epoch + Owed
    BY <1>5, <2>2 DEF OpenSucceeds
  <2>5. ReopensCaused'
    <3> HIDE DEF Owed, Astray
    <3> QED BY <1>5, <2>3, <2>4 DEF OpenSucceeds
  <2> QED BY <2>1, <2>5
<1>6. CASE OpenFails
  BY <1>6 DEF OpenFails, Fault
<1>7. CASE ReadReturns
  BY <1>7 DEF ReadReturns
<1>8. CASE ReadFails
  BY <1>8 DEF ReadFails, Fault
<1>9. CASE PushFrame
  BY <1>9 DEF PushFrame, CheckTime
<1>10. CASE BackoffTest \/ BackoffBlock \/ BackoffOver
  BY <1>10 DEF BackoffTest, BackoffBlock, BackoffOver, LoopGoesTo
<1>11. CASE StoreNotRunning \/ NotifyStopped
  BY <1>11 DEF StoreNotRunning, NotifyStopped
<1>12. CASE LoopReturns \/ SinkCheckDue
  <2>1. CASE LoopReturns
    BY <1>12, <2>1 DEF LoopReturns
  <2>2. CASE SinkCheckDue
    BY <1>12, <2>2 DEF SinkCheckDue
  <2> QED BY <1>12, <2>1, <2>2
<1> QED BY <1>1, <1>2, <1>3, <1>4, <1>5, <1>6, <1>7, <1>8, <1>9, <1>10, <1>11, <1>12
    DEF LoopStep, LoopRuns, LoopQueried, LoopStreams

LEMMA SameStream ==
  ASSUME StreamInv,
         UNCHANGED streamVars
  PROVE  StreamInv'
  BY DEF StreamInv, StreamTypes, StreamPlaces, StreamIsNamed, ReopensCaused, Owed, Astray,
         OffDefault, streamVars

\* start() names the format, and starts the thread, while there is no thread and no stream.
LEMMA OwnerStream ==
  ASSUME StreamInv, LifeInv, OwnerStep
  PROVE  StreamInv'
<1> USE CaptureAssumption
    DEF StreamInv, StreamTypes, StreamPlaces, StreamIsNamed, ReopensCaused, Owed, Astray,
        OffDefault, sharedVars, loopVars, historyVars, worldVars, OwnerUnchanged
<1>1. loop = "none" <=> thread = "none"
  BY DEF LifeInv, ThreadAgrees
<1>2. owner \in {"resolving", "spawn"} => mic = NoSink /\ target = NoSink /\ loop = "none"
  BY <1>1 DEF LifeInv, OwnerAgrees
<1>3. CASE StartResolves
  BY <1>2, <1>3 DEF StartResolves, Resolves
<1>4. CASE StartResolveFails
  BY <1>4 DEF StartResolveFails, QueryFails, Fault
<1>5. CASE StartSpawns
  BY <1>2, <1>5 DEF StartSpawns
<1>6. CASE StopCall \/ DestroyCall
  BY <1>6 DEF StopCall, DestroyCall, StopRequest
<1>7. CASE StopNotify
  BY <1>7 DEF StopNotify, Woken
<1>8. CASE JoinThread
  BY <1>8 DEF JoinThread
<1>9. CASE \/ StartRefused \/ StartCall \/ StartNotConnected \/ StartConnected \/ StartFails
           \/ StopClose \/ JoinTest \/ JoinBlock \/ JoinTimeout \/ StopControl \/ StopReturns
           \/ DestroyFrees
  <2>1. UNCHANGED streamVars
    BY <1>9
       DEF StartRefused, StartCall, StartNotConnected, StartConnected, StartFails, StopClose,
           JoinTest, JoinBlock, JoinTimeout, StopControl, StopReturns, DestroyFrees, streamVars,
           vars
  <2> QED BY <2>1, SameStream
<1> QED BY <1>3, <1>4, <1>5, <1>6, <1>7, <1>8, <1>9 DEF OwnerStep, OwnerRuns

LEMMA StreamStep == StreamInv /\ LifeInv /\ [Next]_vars => StreamInv'
<1> SUFFICES ASSUME StreamInv, LifeInv, [Next]_vars PROVE StreamInv'
  OBVIOUS
<1>1. CASE LoopStep
  BY <1>1, LoopStream
<1>2. CASE ReadStep
  <2>1. UNCHANGED <<loopVars, format, worldVars, number, epoch>>
    BY <1>2, ReadKeeps DEF ReadUnchanged
  <2> QED BY <2>1, SameStream DEF loopVars, worldVars, streamVars
<1>3. CASE OwnerStep
  BY <1>3, OwnerStream
<1>4. CASE MoveDefault
  <2>1. /\ moves' = moves + 1 /\ moves' <= MaxMoves /\ defaultSink' \in Sink
        /\ UNCHANGED <<loop, mic, target, hadStream, currentMonitor, checkDue, format, faults,
                       stops, number, epoch>>
    BY <1>4, CaptureAssumption
       DEF MoveDefault, StreamInv, StreamTypes, sharedVars, loopVars, historyVars
  <2>2. StreamTypes' /\ StreamPlaces' /\ StreamIsNamed'
    BY <2>1 DEF StreamInv, StreamTypes, StreamPlaces, StreamIsNamed
  <2>3. ReopensCaused'
    BY <2>1 DEF StreamInv, StreamTypes, ReopensCaused, Owed, Astray
  <2> QED BY <2>2, <2>3 DEF StreamInv
<1>5. CASE ControlStep \/ Over \/ UNCHANGED vars
  BY <1>5, SameStream
     DEF ControlStep, Over, vars, sharedVars, loopVars, worldVars, historyVars, streamVars
<1> QED BY <1>1, <1>2, <1>3, <1>4, <1>5 DEF Next

LEMMA StreamInvariant == Spec => []StreamInv
  BY StreamInit, StreamStep, LifeInvariant, PTL DEF Spec

\* An open stream records the monitor that the format names and that the default sink is
\* compared with.
THEOREM StreamsAreNamed == Spec => []StreamIsNamed
<1>1. StreamInv => StreamIsNamed
  BY DEF StreamInv
<1> QED BY <1>1, StreamInvariant, PTL

-----------------------------------------------------------------------------
(***************************************************************************)
(* Types.  What the queue holds are frames because the thread pushes only  *)
(* what it has read and numbered; what a call hands out was popped.        *)
(***************************************************************************)
HeldTypes ==
  /\ frames \in Seq(Frame)
  /\ Len(frames) <= QueueFrames
  /\ dropped \in Nat

PoppedTypes ==
  /\ popped.result \in {Queue!GotFrame, Queue!TimedOut, Queue!Closed}
  /\ popped.discarded \in Nat
  /\ popped.frame \in IF popped.result = Queue!GotFrame THEN Frame ELSE {NoFrame}

FlagTypes ==
  /\ hadStream \in BOOLEAN /\ checkDue \in BOOLEAN
  /\ closed \in BOOLEAN /\ destroying \in BOOLEAN
  /\ deadlineValid \in BOOLEAN /\ due \in BOOLEAN /\ expired \in BOOLEAN
  /\ pending \subseteq Reinit
  /\ fixedRate \in FixedRates

CallTypes ==
  /\ consumer \in ConsumerPlaces
  /\ consumer = "flags" => popped.result # Queue!Closed
  /\ discarded \in Nat
  /\ lastFrame \in Frame \cup {NoFrame}
  /\ reported \in 0 .. epoch

DataInv == HeldTypes /\ PoppedTypes /\ FlagTypes /\ CallTypes

LEMMA DataInit == Init => DataInv
<1> SUFFICES ASSUME Init PROVE DataInv
  OBVIOUS
<1>1. HeldTypes /\ PoppedTypes
  BY CaptureAssumption
     DEF Init, Queue!Init, HeldTypes, PoppedTypes, Queue!GotFrame, Queue!TimedOut, Queue!Closed
<1>2. FlagTypes
  BY DEF Init, Queue!Init, FlagTypes
<1>3. CallTypes
  BY DEF Init, CallTypes, ConsumerPlaces
<1> QED BY <1>1, <1>2, <1>3 DEF DataInv

\* A frame to be pushed is in range: it was read, and the reopens before it had their causes.
LEMMA NumberedFrame ==
  ASSUME StreamInv, loop = "push"
  PROVE  [n |-> number, epoch |-> epoch] \in Frame
<1>1. number \in 1 .. MaxNumber
  BY DEF StreamInv, StreamTypes, StreamPlaces
<1>2. epoch \in 0 .. (MaxFaults + MaxMoves)
  BY CaptureAssumption DEF StreamInv, StreamTypes, ReopensCaused, Owed, Astray
<1> QED BY <1>1, <1>2 DEF Frame

\* The queue's own operations.
LEMMA PushHolds ==
  ASSUME HeldTypes, NEW f \in Frame, Queue!Push(f)
  PROVE  /\ HeldTypes'
         /\ UNCHANGED <<closed, popped>>
<1>1. QueueFrames \in Nat \ {0}
  BY CaptureAssumption
<1>2. CASE Queue!Full
  <2>1. Tail(frames) \in Seq(Frame) /\ Len(Tail(frames)) = QueueFrames - 1
    BY <1>1, <1>2 DEF HeldTypes, Queue!Full
  <2>2. frames' = Append(Tail(frames), f) /\ UNCHANGED <<closed, popped>> /\ dropped' \in Nat
    BY <1>2 DEF Queue!Push, HeldTypes
  <2>3. frames' \in Seq(Frame) /\ Len(frames') = QueueFrames
    BY <1>1, <2>1, <2>2
  <2> QED BY <1>1, <2>2, <2>3 DEF HeldTypes
<1>3. CASE ~Queue!Full
  BY <1>1, <1>3 DEF Queue!Push, Queue!Full, HeldTypes
<1> QED BY <1>2, <1>3

LEMMA PopHolds ==
  ASSUME HeldTypes, Queue!Pop
  PROVE  HeldTypes' /\ PoppedTypes' /\ popped'.discarded = dropped /\ UNCHANGED closed
<1>1. CASE frames = << >>
  BY <1>1 DEF Queue!Pop, HeldTypes, PoppedTypes, Queue!GotFrame, Queue!TimedOut, Queue!Closed
<1>2. CASE frames # << >>
  <2>1. /\ Head(frames) \in Frame
        /\ Tail(frames) \in Seq(Frame) /\ Len(Tail(frames)) = Len(frames) - 1
    BY <1>2 DEF HeldTypes
  <2>2. /\ popped' = [result |-> Queue!GotFrame, frame |-> Head(frames), discarded |-> dropped]
        /\ frames' = Tail(frames) /\ dropped' = 0 /\ UNCHANGED closed
    BY <1>2 DEF Queue!Pop
  <2>3. PoppedTypes' /\ popped'.discarded = dropped
    BY <2>1, <2>2 DEF HeldTypes, PoppedTypes
  <2>4. HeldTypes'
    BY <2>1, <2>2, CaptureAssumption DEF HeldTypes
  <2> QED BY <2>2, <2>3, <2>4
<1> QED BY <1>1, <1>2

LEMMA LoopData ==
  ASSUME DataInv, StreamInv, LoopStep
  PROVE  DataInv'
<1> USE DEF LoopUnchanged, sharedVars, queueVars, ownerVars, consumerVars, historyVars
<1>1. CASE PushFrame
  <2>1. \/ HeldTypes' /\ UNCHANGED <<popped, closed>>
        \/ UNCHANGED queueVars
    BY <1>1, NumberedFrame, PushHolds DEF PushFrame, DataInv, Queue!PushRefused, Queue!vars
  <2>2. /\ UNCHANGED <<hadStream, destroying, deadlineValid, due, expired, pending, fixedRate>>
        /\ checkDue' \in {checkDue, FALSE}
    BY <1>1 DEF PushFrame
  <2>3. UNCHANGED <<consumer, discarded, lastFrame, reported, epoch>>
    BY <1>1 DEF PushFrame
  <2>4. FlagTypes'
    BY <2>1, <2>2 DEF DataInv, FlagTypes
  <2> QED BY <2>1, <2>3, <2>4 DEF DataInv, HeldTypes, PoppedTypes, CallTypes
<1>2. CASE ~PushFrame
  <2>1. /\ UNCHANGED <<queueVars, destroying, consumerVars, lastFrame, reported>>
        /\ pending' \in {pending, pending \cup Reinit}
        /\ epoch' \in {epoch, epoch + 1}
        /\ hadStream' \in {hadStream, TRUE} /\ checkDue' \in {checkDue, TRUE, FALSE}
    BY <1>2
       DEF LoopStep, LoopRuns, LoopQueried, LoopStreams, LoopTop, BackoffTest, BackoffBlock,
           BackoffOver, StoreNotRunning, NotifyStopped, LoopReturns, ResolveAnswers, ResolveFails,
           CheckAnswers, CheckFails, OpenSucceeds, OpenFails, ReadReturns, ReadFails, SinkCheckDue,
           LoopGoesTo, FlagReopen
  <2>2. CallTypes'
    BY <2>1 DEF DataInv, CallTypes, StreamInv, StreamTypes
  <2>3. HeldTypes' /\ PoppedTypes' /\ FlagTypes'
    BY <2>1 DEF DataInv, HeldTypes, PoppedTypes, FlagTypes
  <2> QED BY <2>2, <2>3 DEF DataInv
<1> QED BY <1>1, <1>2

LEMMA ReadData ==
  ASSUME DataInv, StreamInv, ReadStep
  PROVE  DataInv'
<1> USE DEF ReadUnchanged, queueVars, loopVars, ownerVars, historyVars
<1>1. CASE ReadPop \/ PacedPop
  <2>1. Queue!Pop
    BY <1>1 DEF ReadPop, PacedPop
  <2>2. HeldTypes' /\ PoppedTypes' /\ UNCHANGED closed /\ popped'.discarded = dropped
    BY <2>1, PopHolds DEF DataInv
  <2>3. UNCHANGED <<hadStream, checkDue, destroying, deadlineValid, due, pending, fixedRate,
                    lastFrame, reported, epoch>>
    BY <1>1 DEF ReadPop, PacedPop
  <2>4. \/ CallReturns
        \/ ReadGoesOn /\ popped'.result # Queue!Closed
    BY <1>1 DEF ReadPop, PacedPop, Queue!GotFrame, Queue!Closed
  <2>5. expired' \in BOOLEAN
    BY <2>4 DEF CallReturns, ReadGoesOn, DataInv, FlagTypes
  <2>6. FlagTypes'
    BY <2>2, <2>3, <2>5 DEF DataInv, FlagTypes
  <2>7. CallTypes'
    BY <2>2, <2>3, <2>4 DEF DataInv, HeldTypes, CallTypes, CallReturns, ReadGoesOn, ConsumerPlaces
  <2> QED BY <2>2, <2>6, <2>7 DEF DataInv
<1>2. CASE ReadDelivers
  <2>1. /\ UNCHANGED <<queueVars, hadStream, checkDue, destroying, deadlineValid, fixedRate, epoch>>
        /\ pending' = {} /\ due' = FALSE /\ expired' = FALSE
        /\ consumer' = "idle" /\ discarded' = 0
        /\ lastFrame' \in {lastFrame, popped.frame}
        /\ reported' \in {reported, epoch}
    BY <1>2 DEF ReadDelivers, CallReturns, Delivered
  <2>2. CallTypes'
    BY <2>1 DEF DataInv, PoppedTypes, CallTypes, ConsumerPlaces, StreamInv, StreamTypes
  <2> QED BY <2>1, <2>2 DEF DataInv, HeldTypes, PoppedTypes, FlagTypes
<1>3. CASE ReadRefused \/ ReadCall \/ PacedTimeout \/ PacedSleep \/ PacedWake \/ CallExpires
           \/ FrameDue
  <2>1. UNCHANGED <<queueVars, hadStream, checkDue, destroying, fixedRate, epoch, pending,
                    lastFrame, reported>>
    BY <1>3
       DEF ReadRefused, ReadCall, PacedTimeout, PacedSleep, PacedWake, CallExpires, FrameDue, vars,
           sharedVars, consumerVars
  <2>2. /\ deadlineValid' \in {deadlineValid, TRUE} /\ due' \in {due, TRUE}
        /\ expired' \in {expired, TRUE, FALSE}
    BY <1>3
       DEF ReadRefused, ReadCall, PacedTimeout, PacedSleep, PacedWake, CallExpires, FrameDue,
           CallReturns, vars, consumerVars
  <2>3. consumer' \in {consumer, "idle", "top", "sleeping"} /\ discarded' \in {discarded, 0}
    BY <1>3
       DEF ReadRefused, ReadCall, PacedTimeout, PacedSleep, PacedWake, CallExpires, FrameDue,
           CallReturns, vars, consumerVars
  <2>4. FlagTypes'
    BY <2>1, <2>2 DEF DataInv, FlagTypes
  <2>5. CallTypes'
    BY <2>1, <2>3 DEF DataInv, CallTypes, ConsumerPlaces
  <2> QED BY <2>1, <2>4, <2>5 DEF DataInv, HeldTypes, PoppedTypes
<1> QED BY <1>1, <1>2, <1>3 DEF ReadStep, ReadRuns

LEMMA OwnerData ==
  ASSUME DataInv, OwnerStep
  PROVE  DataInv'
<1>1. /\ UNCHANGED <<frames, dropped, popped, deadlineValid, due, expired, pending, fixedRate,
                     discarded, lastFrame, reported, epoch, checkDue>>
      /\ hadStream' \in {hadStream, FALSE}
      /\ closed' \in {closed, TRUE} /\ destroying' \in {destroying, TRUE, FALSE}
      /\ consumer' \in {consumer, "top"}
  <2>1. hadStream' \in {hadStream, FALSE} /\ destroying' \in {destroying, TRUE, FALSE}
    BY DEF OwnerStep, OwnerRuns, StartRefused, StartCall, StartNotConnected, StartConnected,
           StartResolves, StartResolveFails, StartFails, StartSpawns, StopCall, DestroyCall,
           StopRequest, StopNotify, StopClose, JoinTest, JoinBlock, JoinTimeout, JoinThread,
           StopControl, StopReturns, DestroyFrees, OwnerGoesTo, vars, loopVars, ownerVars
  <2>2. consumer' \in {consumer, "top"}
    BY OwnerKeeps DEF StopNotify
  <2> QED BY <2>1, <2>2, OwnerKeeps DEF Queue!Close, queueVars, historyVars
<1>2. FlagTypes'
  BY <1>1 DEF DataInv, FlagTypes
<1>3. CallTypes'
  BY <1>1 DEF DataInv, CallTypes, ConsumerPlaces
<1> QED BY <1>1, <1>2, <1>3 DEF DataInv, HeldTypes, PoppedTypes

LEMMA DataStep == DataInv /\ StreamInv /\ [Next]_vars => DataInv'
<1> SUFFICES ASSUME DataInv, StreamInv, [Next]_vars PROVE DataInv'
  OBVIOUS
<1>1. CASE LoopStep \/ ReadStep \/ OwnerStep
  BY <1>1, LoopData, ReadData, OwnerData
<1>2. CASE ControlStep \/ MoveDefault \/ Over \/ UNCHANGED vars
  <2>1. UNCHANGED <<queueVars, consumerVars, hadStream, checkDue, destroying, pending, lastFrame,
                    reported, epoch>>
    BY <1>2, WorldKeeps DEF sharedVars, loopVars, ownerVars, historyVars
  <2> QED BY <2>1
         DEF DataInv, HeldTypes, PoppedTypes, FlagTypes, CallTypes, queueVars, consumerVars
<1> QED BY <1>1, <1>2 DEF Next

LEMMA DataInvariant == Spec => []DataInv
  BY DataInit, DataStep, StreamInvariant, PTL DEF Spec

\* Every variable of module Capture keeps its type, with every bound.
THEOREM CaptureTypes == Spec => []TypeOK
<1>1. ControlFacts!IInv => Link!TypeOK
  BY DEF Link!Lost, ControlFacts!Lost, ControlFacts!IInv, ControlFacts!TypeOK, Link!TypeOK
<1>2. StreamInv => epoch \in 0 .. (MaxFaults + MaxMoves)
  BY CaptureAssumption DEF StreamInv, StreamTypes, ReopensCaused, Owed, Astray
<1>3. LifeInv /\ StreamInv /\ DataInv /\ Link!TypeOK => TypeOK
  <2> SUFFICES ASSUME LifeInv, StreamInv, DataInv, Link!TypeOK PROVE TypeOK
    OBVIOUS
  <2>1. /\ running \in BOOLEAN /\ stopRequested \in BOOLEAN
        /\ loop \in LoopPlaces /\ owner \in OwnerPlaces
        /\ thread \in {"none", "joinable", "detached"}
        /\ abandoned \in BOOLEAN /\ freed \in BOOLEAN
    BY DEF LifeInv, PlacesOK
  <2>2. StreamTypes /\ HeldTypes /\ FlagTypes /\ CallTypes
    BY DEF StreamInv, DataInv
  <2> QED BY <1>2, <2>1, <2>2 DEF StreamTypes, HeldTypes, FlagTypes, CallTypes, TypeOK
<1> QED BY <1>1, <1>3, LinkInvariant, LifeInvariant, StreamInvariant, DataInvariant, PTL

-----------------------------------------------------------------------------
(***************************************************************************)
(* The queue.                                                              *)
(***************************************************************************)
LEMMA QueueStep ==
  ASSUME DataInv, StreamInv, [Next]_vars
  PROVE  [Queue!Next]_(Queue!vars)
<1> USE DEF queueVars
<1>1. CASE PushFrame
  BY <1>1, NumberedFrame DEF PushFrame, Queue!Next
<1>2. CASE LoopStep /\ ~PushFrame
  BY <1>2, LoopKeeps DEF Queue!vars
<1>3. CASE ReadStep
  BY <1>3, ReadKeeps DEF Queue!Next, Queue!vars
<1>4. CASE OwnerStep
  BY <1>4, OwnerKeeps DEF Queue!Next, Queue!vars
<1>5. CASE ControlStep \/ MoveDefault \/ Over \/ UNCHANGED vars
  BY <1>5, WorldKeeps DEF Queue!vars
<1> QED BY <1>1, <1>2, <1>3, <1>4, <1>5 DEF Next

\* The three threads use the queue as frame_queue_t allows: every behaviour of module
\* Capture is one of module DropOldestQueue, which module FrameQueue implements.
THEOREM QueueIsDropOldest == Spec => Queue!Spec
<1>1. Init => Queue!Init
  BY DEF Init
<1> QED BY <1>1, QueueStep, DataInvariant, StreamInvariant, PTL DEF Spec, Queue!Spec

\* Only the end of a read hands out a frame.
LEMMA OnlyDeliveryDelivers ==
  ASSUME [Next]_vars, Delivers
  PROVE  ReadDelivers
<1>1. CASE LoopStep \/ OwnerStep \/ ControlStep \/ MoveDefault \/ Over \/ UNCHANGED vars
  <2>1. StopNotify \/ UNCHANGED consumer
    BY <1>1, LoopKeeps, OwnerKeeps, WorldKeeps DEF consumerVars
  <2> QED BY <2>1 DEF StopNotify, Delivers
<1>2. CASE ReadStep
  BY <1>2
     DEF ReadStep, ReadRuns, ReadRefused, ReadCall, ReadPop, PacedTimeout, PacedSleep, PacedWake,
         PacedPop, CallExpires, FrameDue, vars, consumerVars, Delivers
<1> QED BY <1>1, <1>2 DEF Next

-----------------------------------------------------------------------------
(***************************************************************************)
(* Reopens.  A reopen that is not reported yet is flagged, and no frame    *)
(* comes from a stream that is not open yet.                               *)
(***************************************************************************)
EpochsCovered ==
  /\ epoch > reported => "reinit" \in pending
  /\ \A i \in 1 .. Len(frames) : frames[i].epoch <= epoch
  /\ popped.frame.epoch <= epoch

LEMMA EpochInit == Init => EpochsCovered
  BY DEF Init, Queue!Init, EpochsCovered, NoFrame

LEMMA EpochStep == EpochsCovered /\ DataInv /\ StreamInv /\ [Next]_vars => EpochsCovered'
<1> SUFFICES ASSUME EpochsCovered, DataInv, StreamInv, [Next]_vars PROVE EpochsCovered'
  OBVIOUS
<1>1. /\ epoch \in Nat /\ reported \in Nat /\ reported <= epoch
      /\ \A i \in 1 .. Len(frames) : frames[i] \in Frame
      /\ frames \in Seq(Frame)
      /\ popped.frame \in Frame \cup {NoFrame}
  BY DEF DataInv, HeldTypes, PoppedTypes, CallTypes, StreamInv, StreamTypes
<1>2. CASE PushFrame
  <2>1. UNCHANGED <<epoch, reported, pending, popped>>
    BY <1>2 DEF PushFrame, Queue!Push, Queue!PushRefused, Queue!vars, sharedVars, historyVars
  <2>2. \A i \in 1 .. Len(frames') : frames'[i].epoch <= epoch
    <3>1. CASE UNCHANGED frames
      BY <3>1 DEF EpochsCovered
    <3>2. CASE ~UNCHANGED frames
      <4> DEFINE f == [n |-> number, epoch |-> epoch]
      <4>1. Queue!Push(f)
        BY <1>2, <3>2 DEF PushFrame, Queue!PushRefused, Queue!vars
      <4>2. CASE frames' = Append(frames, f)
        BY <1>1, <4>2 DEF EpochsCovered
      <4>3. CASE frames' = Append(Tail(frames), f) /\ frames # << >>
        <5>1. \A i \in 1 .. Len(Tail(frames)) : /\ Tail(frames)[i] = frames[i + 1]
                                                /\ i + 1 \in 1 .. Len(frames)
          BY <1>1, <4>3
        <5>2. Tail(frames) \in Seq(Frame)
          BY <1>1, <4>3
        <5> QED BY <1>1, <4>3, <5>1, <5>2 DEF EpochsCovered
      <4> QED BY <4>1, <4>2, <4>3, CaptureAssumption DEF Queue!Push, Queue!Full
    <3> QED BY <3>1, <3>2
  <2> QED BY <2>1, <2>2 DEF EpochsCovered
<1>3. CASE OpenSucceeds
  BY <1>1, <1>3
     DEF OpenSucceeds, FlagReopen, Reinit, EpochsCovered, queueVars, Frame, NoFrame
<1>4. CASE ReadDelivers
  BY <1>1, <1>4
     DEF ReadDelivers, ReadUnchanged, Delivered, EpochsCovered, queueVars
<1>5. CASE ReadPop \/ PacedPop
  <2>1. Queue!Pop /\ UNCHANGED <<epoch, reported, pending>>
    BY <1>5 DEF ReadPop, PacedPop, ReadUnchanged
  <2>2. CASE frames = << >>
    BY <1>1, <2>1, <2>2 DEF Queue!Pop, EpochsCovered, NoFrame
  <2>3. CASE frames # << >>
    <3>1. /\ popped'.frame = frames[1] /\ frames' = Tail(frames)
          /\ 1 \in 1 .. Len(frames)
          /\ \A i \in 1 .. Len(Tail(frames)) : /\ Tail(frames)[i] = frames[i + 1]
                                               /\ i + 1 \in 1 .. Len(frames)
      BY <1>1, <2>1, <2>3 DEF Queue!Pop
    <3> QED BY <2>1, <3>1 DEF EpochsCovered
  <2> QED BY <2>2, <2>3
<1>6. CASE LoopStep /\ ~PushFrame /\ ~OpenSucceeds
  <2>1. /\ UNCHANGED <<frames, popped, epoch, reported>>
        /\ pending \subseteq pending'
    BY <1>6
       DEF LoopStep, LoopRuns, LoopQueried, LoopStreams, LoopTop, BackoffTest, BackoffBlock,
           BackoffOver, StoreNotRunning, NotifyStopped, LoopReturns, ResolveAnswers, ResolveFails,
           CheckAnswers, CheckFails, OpenFails, ReadReturns, ReadFails, SinkCheckDue,
           LoopGoesTo, sharedVars, queueVars, historyVars
  <2> QED BY <2>1 DEF EpochsCovered
<1>7. CASE ReadStep /\ ~ReadDelivers /\ ~ReadPop /\ ~PacedPop
  <2>1. UNCHANGED <<frames, popped, epoch, reported, pending>>
    BY <1>7
       DEF ReadStep, ReadRuns, ReadRefused, ReadCall, PacedTimeout, PacedSleep, PacedWake,
           CallExpires, FrameDue, ReadUnchanged, vars, sharedVars, queueVars, historyVars
  <2> QED BY <2>1 DEF EpochsCovered
<1>8. CASE OwnerStep \/ ControlStep \/ MoveDefault \/ Over \/ UNCHANGED vars
  <2>1. UNCHANGED <<frames, popped, epoch, reported, pending>>
    BY <1>8, OwnerKeeps, WorldKeeps DEF Queue!Close, sharedVars, queueVars, historyVars
  <2> QED BY <2>1 DEF EpochsCovered
<1> QED BY <1>2, <1>3, <1>4, <1>5, <1>6, <1>7, <1>8 DEF Next

LEMMA EpochInvariant == Spec => []EpochsCovered
  BY EpochInit, EpochStep, DataInvariant, StreamInvariant, PTL DEF Spec

\* No frame of a reopened stream is handed out before a WEBA_FRAME_REINIT that covers the
\* reopen, with or before it.
THEOREM ReopensReported == Spec => ReopenReported
<1>1. ASSUME EpochsCovered, DataInv, StreamInv, [Next]_vars
      PROVE  [Delivers => Delivered.frame.epoch <= reported']_vars
  <2> SUFFICES ASSUME Delivers PROVE Delivered.frame.epoch <= reported'
    OBVIOUS
  <2>1. ReadDelivers
    BY <1>1, OnlyDeliveryDelivers
  <2>2. epoch \in Nat /\ reported \in Nat /\ reported <= epoch
    BY <1>1 DEF DataInv, CallTypes, StreamInv, StreamTypes
  <2>3. Delivered.frame.epoch <= epoch
    BY <1>1 DEF EpochsCovered, Delivered
  <2>4. reported' = epoch
    BY <1>1, <2>1, <2>2 DEF EpochsCovered, ReadDelivers, Delivered
  <2> QED BY <2>3, <2>4
<1> QED BY <1>1, EpochInvariant, DataInvariant, StreamInvariant, PTL DEF Spec, ReopenReported

-----------------------------------------------------------------------------
(***************************************************************************)
(* Gaps.  The frames that are read, held, taken and delivered are numbered *)
(* without a break but for those the queue has counted as lost, or the     *)
(* call has collected; numbers stop at MaxNumber.                          *)
(***************************************************************************)
Capped(k) == IF k < MaxNumber THEN k ELSE MaxNumber

\* A call has taken a frame and has not returned it yet.
Taken == consumer = "flags" /\ ~Silent

\* The number of the last frame taken, and of the first one the queue still holds.
LastTaken == IF Taken THEN popped.frame.n ELSE lastFrame.n

FirstHeld == LastTaken + 1 + dropped

\* The thread has read a frame and not pushed it yet.
NotPushed == IF loop = "push" THEN 1 ELSE 0

\* The frames held follow one another, the last one read is the last one held, unless the
\* queue is closed, and the call knows what was lost before the frame it took.
HeldNumbered == \A i \in 1 .. Len(frames) : frames[i].n = Capped(FirstHeld + i - 1)

ReadNumbered == ~closed => number = Capped(FirstHeld + Len(frames) + NotPushed - 1)

TakenNumbered == Taken => popped.frame.n = Capped(lastFrame.n + 1 + discarded)

\* Losses are counted while the queue is full, and handed over with a frame.
LossesHeld ==
  /\ dropped > 0 => Len(frames) = QueueFrames
  /\ discarded > 0 => Taken

Numbered == HeldNumbered /\ ReadNumbered /\ TakenNumbered /\ LossesHeld

\* Numbers that stop at MaxNumber: sums, and the frame after one that is given up.
LEMMA CappedSum ==
  ASSUME NEW a \in Nat, NEW b \in Nat
  PROVE  Capped(Capped(a) + b) = Capped(a + b)
  BY CaptureAssumption DEF Capped

LEMMA CappedNext ==
  ASSUME NEW a \in Nat, NEW b \in Nat, b = a + 1 \/ (b = a /\ a > MaxNumber),
         NEW k \in Nat, k >= 1
  PROVE  Capped(a + k) = Capped(b + k - 1)
  BY CaptureAssumption DEF Capped

LEMMA NumberInit == Init => Numbered
<1> SUFFICES ASSUME Init PROVE Numbered
  OBVIOUS
<1>1. /\ frames = << >> /\ dropped = 0 /\ discarded = 0 /\ number = 0 /\ lastFrame.n = 0
      /\ loop = "none" /\ consumer = "idle"
  BY DEF Init, Queue!Init, NoFrame
<1> QED BY <1>1, CaptureAssumption
    DEF Numbered, HeldNumbered, ReadNumbered, TakenNumbered, LossesHeld, Taken, FirstHeld,
        LastTaken, NotPushed, Capped

\* The numbers are numbers.
LEMMA NumberTypes ==
  ASSUME DataInv, StreamInv
  PROVE  /\ MaxNumber \in Nat /\ MaxNumber > 0 /\ QueueFrames \in Nat /\ QueueFrames > 0
         /\ Len(frames) \in Nat /\ Len(frames) <= QueueFrames
         /\ dropped \in Nat /\ discarded \in Nat /\ number \in Nat
         /\ popped.frame.n \in Nat /\ lastFrame.n \in Nat
         /\ LastTaken \in Nat
<1>1. \A f \in Frame \cup {NoFrame} : f.n \in Nat
  BY DEF Frame, NoFrame
<1>2. popped.frame \in Frame \cup {NoFrame} /\ lastFrame \in Frame \cup {NoFrame}
  BY DEF DataInv, PoppedTypes, CallTypes
<1>3. /\ frames \in Seq(Frame) /\ Len(frames) \in Nat /\ Len(frames) <= QueueFrames
      /\ dropped \in Nat /\ discarded \in Nat /\ number \in Nat
  BY CaptureAssumption DEF DataInv, HeldTypes, CallTypes, StreamInv, StreamTypes
<1> QED BY <1>1, <1>2, <1>3, CaptureAssumption DEF LastTaken

LEMMA HeldSeq ==
  ASSUME DataInv
  PROVE  frames \in Seq(Frame)
  BY DEF DataInv, HeldTypes

LEMMA SameNumbers ==
  ASSUME Numbered,
         UNCHANGED <<frames, dropped, popped, consumer, discarded, lastFrame, number, NotPushed>>,
         closed' \in {closed, TRUE}
  PROVE  Numbered'
  BY DEF Numbered, HeldNumbered, ReadNumbered, TakenNumbered, LossesHeld, Taken, FirstHeld,
         LastTaken, Silent

\* A full queue gives up its first frame and counts it: the numbers of the others stay.
LEMMA PushNumbers ==
  ASSUME Numbered, DataInv, StreamInv, PushFrame
  PROVE  Numbered'
<1>1. /\ UNCHANGED <<closed, popped, consumer, discarded, lastFrame, number>>
      /\ loop = "push" /\ NotPushed = 1 /\ NotPushed' = 0
  BY DEF PushFrame, Queue!Push, Queue!PushRefused, Queue!vars, LoopUnchanged, consumerVars,
         historyVars, NotPushed
<1>2. UNCHANGED <<Taken, LastTaken>> /\ TakenNumbered'
  BY <1>1 DEF Numbered, TakenNumbered, Taken, LastTaken, Silent
<1>3. CASE closed
  <2>1. UNCHANGED <<frames, dropped>>
    BY <1>3 DEF PushFrame, Queue!Push, Queue!PushRefused, Queue!vars
  <2> QED BY <1>1, <1>2, <1>3, <2>1 DEF Numbered, HeldNumbered, ReadNumbered, LossesHeld, FirstHeld
<1>4. CASE ~closed
  <2> DEFINE f == [n |-> number, epoch |-> epoch]
  <2>1. Queue!Push(f) /\ f.n = number
    BY <1>4 DEF PushFrame, Queue!PushRefused
  <2>2. number = Capped(FirstHeld + Len(frames))
    BY <1>1, <1>4, NumberTypes DEF Numbered, ReadNumbered, FirstHeld
  <2> HIDE DEF f
  <2>3. CASE ~Queue!Full
    <3>1. frames' = Append(frames, f) /\ dropped' = dropped /\ dropped = 0
      BY <2>1, <2>3, NumberTypes DEF Queue!Push, Queue!Full, Numbered, LossesHeld
    <3>2. /\ Len(frames') = Len(frames) + 1
          /\ \A i \in 1 .. Len(frames) : frames'[i] = frames[i]
          /\ frames'[Len(frames) + 1] = f
      BY <3>1, HeldSeq
    <3>3. UNCHANGED FirstHeld /\ FirstHeld \in Nat
      BY <1>2, <3>1, NumberTypes DEF FirstHeld
    <3>4. HeldNumbered'
      <4> SUFFICES ASSUME NEW i \in 1 .. Len(frames')
                   PROVE  frames'[i].n = Capped(FirstHeld' + i - 1)
        BY DEF HeldNumbered, Capped
      <4>1. CASE i \in 1 .. Len(frames)
        BY <3>2, <3>3, <4>1 DEF Numbered, HeldNumbered
      <4>2. CASE i = Len(frames) + 1
        <5>1. FirstHeld' + i - 1 = FirstHeld + Len(frames)
          BY <3>3, <4>2, NumberTypes
        <5> QED BY <2>1, <2>2, <3>2, <4>2, <5>1
      <4> QED BY <3>2, <4>1, <4>2, NumberTypes
    <3>5. ReadNumbered'
      BY <1>1, <2>2, <3>2, <3>3, NumberTypes DEF ReadNumbered, Capped
    <3>6. LossesHeld'
      BY <1>1, <1>2, <3>1 DEF Numbered, LossesHeld
    <3> QED BY <1>2, <3>4, <3>5, <3>6 DEF Numbered
  <2>4. CASE Queue!Full
    <3>1. /\ frames' = Append(Tail(frames), f)
          /\ dropped' = IF dropped < MaxNumber THEN dropped + 1 ELSE dropped
          /\ Len(frames) = QueueFrames
      BY <2>1, <2>4 DEF Queue!Push, Queue!Full
    <3>2. /\ Len(frames') = Len(frames)
          /\ \A i \in 1 .. Len(frames) - 1 : frames'[i] = frames[i + 1]
          /\ frames'[Len(frames)] = f
      <4>1. /\ Tail(frames) \in Seq(Frame) /\ Len(Tail(frames)) = Len(frames) - 1
            /\ \A i \in 1 .. Len(frames) - 1 : Tail(frames)[i] = frames[i + 1]
        BY <3>1, NumberTypes, HeldSeq
      <4> QED BY <3>1, <4>1, NumberTypes
    <3>3. /\ FirstHeld \in Nat /\ FirstHeld' \in Nat
          /\ \/ FirstHeld' = FirstHeld + 1
             \/ FirstHeld' = FirstHeld /\ FirstHeld > MaxNumber
      <4>1. LastTaken' = LastTaken /\ LastTaken \in Nat /\ dropped \in Nat /\ MaxNumber \in Nat
        BY <1>2, NumberTypes
      <4> QED BY <3>1, <4>1 DEF FirstHeld
    <3>4. Capped(FirstHeld + Len(frames)) = Capped(FirstHeld' + Len(frames) - 1)
      <4>1. Len(frames) \in Nat /\ Len(frames) >= 1
        BY <3>1, NumberTypes
      <4> QED BY <3>3, <4>1, CappedNext
    <3>5. HeldNumbered'
      <4> SUFFICES ASSUME NEW i \in 1 .. Len(frames')
                   PROVE  frames'[i].n = Capped(FirstHeld' + i - 1)
        BY DEF HeldNumbered, Capped
      <4>1. CASE i < Len(frames)
        <5>1. i + 1 \in 1 .. Len(frames) /\ frames'[i] = frames[i + 1]
          BY <3>2, <4>1, NumberTypes
        <5>2. frames'[i].n = Capped(FirstHeld + (i + 1) - 1)
          BY <5>1 DEF Numbered, HeldNumbered
        <5>3. i \in Nat /\ i >= 1 /\ FirstHeld + (i + 1) - 1 = FirstHeld + i
          BY <3>2, <3>3, NumberTypes
        <5>4. Capped(FirstHeld + i) = Capped(FirstHeld' + i - 1)
          BY <3>3, <5>3, CappedNext
        <5> QED BY <5>2, <5>3, <5>4
      <4>2. CASE i = Len(frames)
        BY <2>1, <2>2, <3>2, <3>4, <4>2
      <4> QED BY <3>2, <4>1, <4>2, NumberTypes
    <3>6. ReadNumbered'
      <4>1. FirstHeld' + Len(frames') + NotPushed' - 1 = FirstHeld' + Len(frames) - 1
        BY <1>1, <3>2, <3>3, NumberTypes
      <4>2. number' = Capped(FirstHeld' + Len(frames') + NotPushed' - 1)
        BY <1>1, <2>2, <3>4, <4>1
      <4> QED BY <4>2 DEF ReadNumbered, Capped
    <3>7. LossesHeld'
      BY <1>1, <1>2, <3>1, <3>2 DEF Numbered, LossesHeld
    <3> QED BY <1>2, <3>5, <3>6, <3>7 DEF Numbered
  <2> QED BY <2>3, <2>4
<1> QED BY <1>3, <1>4

LEMMA LoopNumbers ==
  ASSUME Numbered, DataInv, StreamInv, LoopStep, ~PushFrame
  PROVE  Numbered'
<1>1. CASE ReadReturns
  <2>1. /\ UNCHANGED <<frames, dropped, closed, popped, consumer, discarded, lastFrame>>
        /\ NotPushed = 0 /\ NotPushed' = 1
        /\ number' = IF number < MaxNumber THEN number + 1 ELSE number
    BY <1>1 DEF ReadReturns, LoopUnchanged, queueVars, consumerVars, NotPushed
  <2>2. /\ UNCHANGED <<Taken, LastTaken, FirstHeld>>
        /\ HeldNumbered' /\ TakenNumbered' /\ LossesHeld'
    BY <2>1 DEF Numbered, HeldNumbered, TakenNumbered, LossesHeld, Taken, LastTaken, FirstHeld,
                Silent
  <2>3. ReadNumbered'
    BY <2>1, <2>2, NumberTypes DEF Numbered, ReadNumbered, FirstHeld, Capped
  <2> QED BY <2>2, <2>3 DEF Numbered
<1>2. CASE ~ReadReturns
  <2>1. /\ UNCHANGED <<queueVars, consumer, discarded, lastFrame, number>>
        /\ loop = "push" <=> loop' = "push"
    <3>1. loop = "push" <=> loop' = "push"
      BY <1>2
         DEF LoopStep, LoopRuns, LoopQueried, LoopStreams, LoopTop, BackoffTest, BackoffBlock,
             BackoffOver, StoreNotRunning, NotifyStopped, LoopReturns, ResolveAnswers,
             ResolveFails, CheckAnswers, CheckFails, OpenSucceeds, OpenFails, ReadFails,
             SinkCheckDue, LoopGoesTo
    <3> QED BY <1>2, <3>1, LoopKeeps DEF consumerVars
  <2> QED BY <2>1, SameNumbers DEF queueVars, NotPushed
<1> QED BY <1>1, <1>2

\* The frame taken follows the last one delivered, but for the losses it takes along.
LEMMA PopNumbers ==
  ASSUME Numbered, DataInv, StreamInv, ReadPop \/ PacedPop
  PROVE  Numbered'
<1>1. /\ Queue!Pop /\ consumer = "top"
      /\ UNCHANGED <<closed, lastFrame, number, NotPushed>>
  BY DEF ReadPop, PacedPop, ReadUnchanged, Queue!Pop, loopVars, NotPushed
<1>2. ~Taken /\ LastTaken = lastFrame.n /\ discarded = 0
  BY <1>1, NumberTypes DEF Numbered, LossesHeld, Taken, LastTaken
<1>3. NotPushed \in {0, 1} /\ Len(frames) \in Nat /\ MaxNumber \in Nat
  BY NumberTypes DEF NotPushed
<1>4. CASE frames = << >>
  <2>1. /\ dropped = 0 /\ dropped' = 0 /\ frames' = << >>
        /\ popped'.result \in {Queue!TimedOut, Queue!Closed} /\ popped'.discarded = 0
    BY <1>1, <1>4, NumberTypes DEF Numbered, LossesHeld, Queue!Pop
  <2>2. \/ CallReturns
        \/ ReadGoesOn /\ popped'.result = Queue!TimedOut
    BY <2>1 DEF ReadPop, PacedPop, Queue!GotFrame, Queue!TimedOut, Queue!Closed
  <2>3. ~Taken' /\ discarded' = 0
    BY <1>2, <2>1, <2>2 DEF CallReturns, ReadGoesOn, Taken, Silent
  <2>4. LastTaken' = LastTaken /\ FirstHeld' = FirstHeld
    BY <1>1, <1>2, <2>1, <2>3 DEF LastTaken, FirstHeld
  <2> QED BY <1>1, <1>4, <2>1, <2>3, <2>4
          DEF Numbered, HeldNumbered, ReadNumbered, TakenNumbered, LossesHeld, Capped
<1>5. CASE frames # << >>
  <2>1. /\ popped' = [result |-> Queue!GotFrame, frame |-> Head(frames), discarded |-> dropped]
        /\ dropped' = 0 /\ frames' = Tail(frames)
        /\ Head(frames) = frames[1] /\ 1 \in 1 .. Len(frames)
        /\ Len(frames') = Len(frames) - 1
        /\ \A i \in 1 .. Len(frames) - 1 : frames'[i] = frames[i + 1]
    BY <1>1, <1>5, HeldSeq DEF Queue!Pop
  <2>2. ReadGoesOn
    BY <2>1 DEF ReadPop, PacedPop, Queue!GotFrame, Queue!Closed
  <2>3. Taken' /\ discarded' = dropped
    BY <1>2, <2>1, <2>2, NumberTypes
       DEF ReadGoesOn, Taken, Silent, Queue!GotFrame, Queue!TimedOut
  <2>4. FirstHeld \in Nat /\ FirstHeld = lastFrame.n + 1 + dropped
    BY <1>2, NumberTypes DEF FirstHeld
  <2>5. popped'.frame.n = Capped(FirstHeld)
    BY <2>1, <2>4 DEF Numbered, HeldNumbered
  <2>6. FirstHeld' = Capped(FirstHeld) + 1 /\ Capped(FirstHeld) \in Nat
    <3>1. Capped(FirstHeld) \in Nat
      BY <1>3, <2>4 DEF Capped
    <3>2. LastTaken' = Capped(FirstHeld)
      BY <2>3, <2>5 DEF LastTaken
    <3> QED BY <2>1, <3>1, <3>2 DEF FirstHeld
  <2>7. HeldNumbered'
    <3> SUFFICES ASSUME NEW i \in 1 .. Len(frames')
                 PROVE  frames'[i].n = Capped(FirstHeld' + i - 1)
      BY DEF HeldNumbered, Capped
    <3>1. i \in Nat /\ i >= 1 /\ i + 1 \in 1 .. Len(frames) /\ frames'[i] = frames[i + 1]
      BY <2>1, NumberTypes
    <3>2. frames'[i].n = Capped(FirstHeld + (i + 1) - 1)
      BY <3>1 DEF Numbered, HeldNumbered
    <3>3. FirstHeld + (i + 1) - 1 = FirstHeld + i /\ FirstHeld' + i - 1 = Capped(FirstHeld) + i
      BY <2>4, <2>6, <3>1
    <3> QED BY <2>4, <3>1, <3>2, <3>3, CappedSum
  <2>8. ReadNumbered'
    <3> DEFINE more == Len(frames) + NotPushed - 1
    <3>1. more \in Nat
      BY <1>3, <2>1
    <3>2. FirstHeld + Len(frames) + NotPushed - 1 = FirstHeld + more
      BY <1>3, <2>4
    <3>3. FirstHeld' + Len(frames') + NotPushed' - 1 = Capped(FirstHeld) + more
      <4>1. Len(frames') = Len(frames) - 1 /\ NotPushed' = NotPushed
        BY <1>1, <2>1
      <4> QED BY <1>3, <2>6, <4>1
    <3> HIDE DEF more
    <3>4. Capped(Capped(FirstHeld) + more) = Capped(FirstHeld + more)
      BY <2>4, <3>1, CappedSum
    <3>5. ~closed => number = Capped(FirstHeld + more)
      BY <3>2 DEF Numbered, ReadNumbered
    <3>6. ~closed' => number' = Capped(FirstHeld' + Len(frames') + NotPushed' - 1)
      BY <1>1, <3>3, <3>4, <3>5
    <3> QED BY <3>6 DEF ReadNumbered, Capped
  <2>9. TakenNumbered'
    <3>1. popped'.frame.n = Capped(lastFrame'.n + 1 + discarded')
      BY <1>1, <2>3, <2>4, <2>5
    <3> QED BY <3>1 DEF TakenNumbered, Capped
  <2>10. LossesHeld'
    BY <2>1, <2>3 DEF LossesHeld
  <2> QED BY <2>7, <2>8, <2>9, <2>10 DEF Numbered
<1> QED BY <1>4, <1>5

LEMMA DeliveryNumbers ==
  ASSUME Numbered, DataInv, StreamInv, ReadDelivers
  PROVE  Numbered'
<1>1. /\ UNCHANGED <<queueVars, number, NotPushed>>
      /\ consumer = "flags" /\ consumer' = "idle" /\ discarded' = 0
      /\ lastFrame' = IF Silent THEN lastFrame ELSE popped.frame
  BY DEF ReadDelivers, ReadUnchanged, CallReturns, Delivered, loopVars, NotPushed
<1>2. ~Taken' /\ LastTaken' = LastTaken /\ FirstHeld' = FirstHeld
  BY <1>1 DEF Taken, LastTaken, FirstHeld, Silent, queueVars
<1> QED BY <1>1, <1>2
    DEF Numbered, HeldNumbered, ReadNumbered, TakenNumbered, LossesHeld, queueVars

LEMMA NumberStep == Numbered /\ DataInv /\ StreamInv /\ LifeInv /\ [Next]_vars => Numbered'
<1> SUFFICES ASSUME Numbered, DataInv, StreamInv, LifeInv, [Next]_vars PROVE Numbered'
  OBVIOUS
<1>1. CASE LoopStep
  BY <1>1, PushNumbers, LoopNumbers
<1>2. CASE ReadPop \/ PacedPop \/ ReadDelivers
  BY <1>2, PopNumbers, DeliveryNumbers
<1>3. CASE ReadStep /\ ~ReadPop /\ ~PacedPop /\ ~ReadDelivers
  <2>1. /\ UNCHANGED <<queueVars, lastFrame, number, loop>>
        /\ \/ UNCHANGED <<consumer, discarded>>
           \/ consumer # "flags" /\ consumer' # "flags" /\ discarded' \in {discarded, 0}
    BY <1>3
       DEF ReadStep, ReadRuns, ReadRefused, ReadCall, PacedTimeout, PacedSleep, PacedWake,
           CallExpires, FrameDue, ReadUnchanged, CallReturns, vars, loopVars, consumerVars,
           historyVars
  <2>2. CASE UNCHANGED <<consumer, discarded>>
    BY <2>1, <2>2, SameNumbers DEF queueVars, NotPushed
  <2>3. CASE consumer # "flags" /\ consumer' # "flags" /\ discarded' \in {discarded, 0}
    BY <2>1, <2>3, NumberTypes
       DEF Numbered, HeldNumbered, ReadNumbered, TakenNumbered, LossesHeld, Taken, LastTaken,
           FirstHeld, NotPushed, queueVars
  <2> QED BY <2>1, <2>2, <2>3
<1>4. CASE OwnerStep
  <2>1. CASE StopNotify
    <3>1. UNCHANGED <<queueVars, discarded, lastFrame, number, NotPushed, Taken>>
      BY <2>1 DEF StopNotify, Woken, NotPushed, Taken, Silent, queueVars, historyVars
    <3> QED BY <3>1
        DEF Numbered, HeldNumbered, ReadNumbered, TakenNumbered, LossesHeld, LastTaken, FirstHeld,
            queueVars
  <2>2. CASE StartSpawns \/ JoinThread
    <3>1. UNCHANGED <<queueVars, consumer, discarded, lastFrame, number>>
      BY <2>2 DEF StartSpawns, JoinThread, OwnerUnchanged, consumerVars, historyVars
    <3>2. loop # "push" /\ loop' # "push"
      BY <2>2 DEF StartSpawns, JoinThread, LifeInv, OwnerAgrees, ThreadAgrees
    <3> QED BY <3>1, <3>2, SameNumbers DEF queueVars, NotPushed
  <2>3. CASE ~StopNotify /\ ~StartSpawns /\ ~JoinThread
    <3>1. UNCHANGED <<consumer, discarded, lastFrame, number>>
      BY <1>4, <2>3, OwnerKeeps DEF historyVars
    <3>2. UNCHANGED loop
      BY <1>4, <2>3
         DEF OwnerStep, OwnerRuns, StartRefused, StartCall, StartNotConnected, StartConnected,
             StartResolves, StartResolveFails, StartFails, StopCall, DestroyCall, StopRequest,
             StopClose, JoinTest, JoinBlock, JoinTimeout, StopControl, StopReturns, DestroyFrees,
             vars, loopVars
    <3>3. UNCHANGED <<frames, dropped, popped>> /\ closed' \in {closed, TRUE}
      BY <1>4, OwnerKeeps DEF Queue!Close, queueVars
    <3> QED BY <3>1, <3>2, <3>3, SameNumbers DEF NotPushed
  <2> QED BY <2>1, <2>2, <2>3
<1>5. CASE ControlStep \/ MoveDefault \/ Over \/ UNCHANGED vars
  BY <1>5, WorldKeeps, SameNumbers DEF queueVars, loopVars, consumerVars, historyVars, NotPushed
<1> QED BY <1>1, <1>2, <1>3, <1>4, <1>5 DEF Next

LEMMA NumberInvariant == Spec => []Numbered
  BY NumberInit, NumberStep, DataInvariant, StreamInvariant, LifeInvariant, PTL DEF Spec

\* dropped_frames is exactly the gap in the order of capture before a delivered frame.
THEOREM LossesReported == Spec => DropsReported
<1>1. ASSUME Numbered, DataInv, StreamInv, [Next]_vars
      PROVE  [Delivers /\ Delivered.frame # NoFrame /\ Delivered.frame.n < MaxNumber
                => Delivered.frame.n = lastFrame.n + 1 + Delivered.dropped]_vars
  <2> SUFFICES ASSUME Delivers, Delivered.frame # NoFrame, Delivered.frame.n < MaxNumber
               PROVE  Delivered.frame.n = lastFrame.n + 1 + Delivered.dropped
    OBVIOUS
  <2>1. popped.frame # NoFrame /\ popped.frame.n < MaxNumber
    BY DEF Delivered
  <2>2. Taken
    BY <1>1, <2>1
       DEF DataInv, PoppedTypes, Delivers, Taken, Silent, Queue!GotFrame, Queue!TimedOut
  <2>3. popped.frame.n = lastFrame.n + 1 + discarded
    BY <1>1, <2>1, <2>2, NumberTypes DEF Numbered, TakenNumbered, Capped
  <2> QED BY <2>3 DEF Delivered, DroppedReported
<1> QED BY <1>1, NumberInvariant, DataInvariant, StreamInvariant, PTL DEF Spec, DropsReported
=============================================================================
