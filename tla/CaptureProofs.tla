---------------------------- MODULE CaptureProofs ----------------------------
(***************************************************************************)
(* What module Capture keeps in every state of its three threads, for every *)
(* set of sinks, every queue and every bound: the steps of its connection   *)
(* are steps of module Control, and the lifetime of the handle, its thread  *)
(* and its connection.  Module CaptureFrameProofs goes on with the frames.  *)
(***************************************************************************)
EXTENDS Capture, TLAPS

\* The connection of a capture, with what is proved of it on its own.
ControlFacts == INSTANCE ControlProofs WITH MaxInits <- MaxStarts

-----------------------------------------------------------------------------
(* What the steps of each thread leave to the others. *)

LEMMA LoopKeeps ==
  ASSUME LoopStep
  PROVE  /\ UNCHANGED <<controlVars, consumerVars, stopRequested, thread, abandoned, destroying,
                        freed, closed, popped, defaultSink, moves, stops, reported, lastFrame>>
         /\ PushFrame \/ UNCHANGED queueVars
         /\ ReadReturns \/ UNCHANGED number
<1> USE DEF LoopUnchanged, sharedVars, queueVars, ownerVars, worldVars, historyVars
<1>1. CASE LoopRuns
  BY <1>1 DEF LoopRuns, LoopTop, PushFrame, BackoffTest, BackoffBlock, BackoffOver, StoreNotRunning,
              NotifyStopped, LoopReturns, LoopGoesTo, Queue!Push, Queue!PushRefused, Queue!vars
<1>2. CASE LoopQueried
  BY <1>2 DEF LoopQueried, ResolveAnswers, ResolveFails, CheckAnswers, CheckFails
<1>3. CASE LoopStreams
  BY <1>3 DEF LoopStreams, OpenSucceeds, OpenFails, ReadReturns, ReadFails
<1>4. CASE SinkCheckDue
  BY <1>4 DEF SinkCheckDue
<1> QED BY <1>1, <1>2, <1>3, <1>4 DEF LoopStep

LEMMA ReadKeeps ==
  ASSUME ReadStep
  PROVE  /\ ReadUnchanged
         /\ Queue!Pop \/ UNCHANGED queueVars
  BY DEF ReadStep, ReadRuns, ReadRefused, ReadCall, ReadPop, PacedTimeout, PacedSleep, PacedWake,
         PacedPop, ReadDelivers, CallExpires, FrameDue, ReadUnchanged, vars, sharedVars,
         consumerVars, historyVars

LEMMA OwnerKeeps ==
  ASSUME OwnerStep
  PROVE  /\ UNCHANGED <<pending, mic, target, currentMonitor, checkDue, fixedRate, discarded,
                        deadlineValid, due, expired, defaultSink, moves, historyVars>>
         /\ StopNotify \/ UNCHANGED consumer
         /\ Queue!Close \/ UNCHANGED queueVars
<1> USE DEF OwnerUnchanged, sharedVars, loopVars, consumerVars, worldVars
<1>1. CASE StartRefused \/ StartCall \/ StopCall \/ DestroyCall
  BY <1>1 DEF StartRefused, StartCall, StopCall, DestroyCall, StopRequest, vars
<1>2. CASE OwnerRuns
  BY <1>2 DEF OwnerRuns, StartNotConnected, StartConnected, StartResolves, StartResolveFails,
              StartFails, StartSpawns, StopNotify, StopClose, JoinTest, JoinBlock, JoinTimeout,
              JoinThread, StopControl, StopReturns, DestroyFrees
<1> QED BY <1>1, <1>2 DEF OwnerStep

LEMMA WorldKeeps ==
  ASSUME ControlStep \/ MoveDefault \/ Over \/ UNCHANGED vars
  PROVE  UNCHANGED <<sharedVars, queueVars, loopVars, ownerVars, consumerVars, faults, stops,
                     historyVars>>
  BY DEF ControlStep, MoveDefault, Over, vars, worldVars

-----------------------------------------------------------------------------
(***************************************************************************)
(* stop_lock.  A thread that has found no stop requested holds the lock     *)
(* until it sleeps, so a request comes before its test or finds it asleep.  *)
(***************************************************************************)
TestedUnderLock == loop = "backoffBlock" => ~stopRequested

StopInv == NoLostStop /\ TestedUnderLock

LEMMA StopInit == Init => StopInv
  BY DEF Init, StopInv, NoLostStop, TestedUnderLock

\* What leaves the places of capture thread and owner and the request alone, or
\* moves the thread to a place outside its backoff.
LEMMA StopElsewhere ==
  ASSUME StopInv, UNCHANGED <<stopRequested, owner>>,
         loop' = loop \/ loop' \notin {"backoffBlock", "sleeping"}
  PROVE  StopInv'
  BY DEF StopInv, NoLostStop, TestedUnderLock

LEMMA LoopStop ==
  ASSUME StopInv, LoopStep
  PROVE  StopInv'
<1>1. CASE BackoffTest
  BY <1>1 DEF BackoffTest, LoopGoesTo, LoopUnchanged, sharedVars, ownerVars, StopInv, NoLostStop,
              TestedUnderLock
<1>2. CASE BackoffBlock
  BY <1>2 DEF BackoffBlock, LoopGoesTo, LoopUnchanged, sharedVars, ownerVars, StopInv, NoLostStop,
              TestedUnderLock
<1>3. CASE NotifyStopped
  BY <1>3 DEF NotifyStopped, sharedVars, StopInv, NoLostStop, TestedUnderLock
<1>4. CASE LoopTop \/ PushFrame \/ BackoffOver \/ StoreNotRunning \/ LoopReturns
  BY <1>4, StopElsewhere
     DEF LoopTop, PushFrame, BackoffOver, StoreNotRunning, LoopReturns, LoopGoesTo, LoopUnchanged,
         sharedVars, ownerVars
<1>5. CASE LoopQueried
  BY <1>5, StopElsewhere
     DEF LoopQueried, ResolveAnswers, ResolveFails, CheckAnswers, CheckFails, LoopUnchanged,
         sharedVars, ownerVars
<1>6. CASE LoopStreams
  BY <1>6, StopElsewhere
     DEF LoopStreams, OpenSucceeds, OpenFails, ReadReturns, ReadFails, LoopUnchanged, sharedVars,
         ownerVars
<1>7. CASE SinkCheckDue
  BY <1>7, StopElsewhere DEF SinkCheckDue, LoopUnchanged, sharedVars, ownerVars
<1> QED BY <1>1, <1>2, <1>3, <1>4, <1>5, <1>6, <1>7 DEF LoopStep, LoopRuns

LEMMA ReadStop ==
  ASSUME StopInv, ReadStep
  PROVE  StopInv'
<1>1. UNCHANGED <<stopRequested, owner, loop>>
  BY ReadKeeps DEF ReadUnchanged, loopVars, ownerVars
<1> QED BY <1>1, StopElsewhere

LEMMA OwnerStop ==
  ASSUME StopInv, OwnerStep
  PROVE  StopInv'
\* The request is made with stop_lock free, and announced next.
<1>1. CASE StopCall \/ DestroyCall
  BY <1>1 DEF StopCall, DestroyCall, StopRequest, MayRequestStop, StopLockFree, loopVars, StopInv,
              NoLostStop, TestedUnderLock
<1>2. CASE StopNotify
  BY <1>2 DEF StopNotify, OwnerGoesTo, Woken, sharedVars, StopInv, NoLostStop, TestedUnderLock
<1>3. CASE StartRefused
  BY <1>3, StopElsewhere DEF StartRefused, vars, sharedVars, loopVars, ownerVars
<1>4. CASE StartSpawns
  BY <1>4 DEF StartSpawns, StopInv, NoLostStop, TestedUnderLock
<1>5. CASE JoinThread
  BY <1>5 DEF JoinThread, sharedVars, StopInv, NoLostStop, TestedUnderLock
<1>6. CASE \/ StartCall \/ StartNotConnected \/ StartConnected \/ StartResolves \/ StartResolveFails
           \/ StartFails \/ StopClose \/ JoinTest \/ JoinBlock \/ JoinTimeout \/ StopControl
           \/ StopReturns \/ DestroyFrees
  <2>1. owner # "stopNotify" /\ UNCHANGED <<stopRequested, loop>>
    BY <1>6
       DEF StartCall, StartNotConnected, StartConnected, StartResolves, StartResolveFails,
           StartFails, StopClose, JoinTest, JoinBlock, JoinTimeout, StopControl, StopReturns,
           DestroyFrees, OwnerGoesTo, sharedVars, loopVars
  <2> QED BY <2>1 DEF StopInv, NoLostStop, TestedUnderLock
<1> QED BY <1>1, <1>2, <1>3, <1>4, <1>5, <1>6 DEF OwnerStep, OwnerRuns

LEMMA StopStep == StopInv /\ [Next]_vars => StopInv'
<1> SUFFICES ASSUME StopInv, [Next]_vars PROVE StopInv'
  OBVIOUS
<1>1. CASE LoopStep
  BY <1>1, LoopStop
<1>2. CASE ReadStep
  BY <1>2, ReadStop
<1>3. CASE OwnerStep
  BY <1>3, OwnerStop
<1>4. CASE ControlStep \/ MoveDefault \/ Over \/ UNCHANGED vars
  BY <1>4, WorldKeeps, StopElsewhere DEF sharedVars, loopVars, ownerVars
<1> QED BY <1>1, <1>2, <1>3, <1>4 DEF Next

\* A capture thread never sleeps through its backoff with a stop requested, unless the
\* notification is still to come.
THEOREM StopsWake == Spec => []NoLostStop
<1>1. StopInv => NoLostStop
  BY DEF StopInv
<1> QED BY <1>1, StopInit, StopStep, PTL DEF Spec

-----------------------------------------------------------------------------
(***************************************************************************)
(* The connection.  Whatever the three threads do, control_t sees init()   *)
(* and shutdown() called one at a time by its owner, so all that is proved  *)
(* of module Control holds of the connection of a capture.  The steps of    *)
(* Link and ControlFacts are the same formulas under two names.             *)
(***************************************************************************)
LEMMA SameCalls ==
  /\ Link!Init <=> ControlFacts!Init
  /\ Link!InitCall <=> ControlFacts!InitCall
  /\ Link!ShutdownCall <=> ControlFacts!ShutdownCall
<1>1. Link!Init <=> ControlFacts!Init
  BY DEF Link!Init, ControlFacts!Init
<1>2. Link!InitCall <=> ControlFacts!InitCall
  BY DEF Link!InitCall, Link!InitNotStarted, Link!NoMainloop, Link!NoConnection,
         Link!InitStarted, Link!Unnamed, Link!Orphaned, Link!flagVars, ControlFacts!InitCall,
         ControlFacts!InitNotStarted, ControlFacts!NoMainloop, ControlFacts!NoConnection,
         ControlFacts!InitStarted, ControlFacts!Unnamed, ControlFacts!Orphaned,
         ControlFacts!flagVars
<1>3. Link!ShutdownCall <=> ControlFacts!ShutdownCall
  BY DEF Link!ShutdownCall, Link!contextVars, Link!threadVars, Link!flagVars,
         ControlFacts!ShutdownCall, ControlFacts!contextVars, ControlFacts!threadVars,
         ControlFacts!flagVars
<1> QED BY <1>1, <1>2, <1>3

LEMMA SameCallSteps == Link!CallStep <=> ControlFacts!CallStep
<1> USE DEF Link!contextVars, Link!threadVars, Link!flagVars, ControlFacts!contextVars,
            ControlFacts!threadVars, ControlFacts!flagVars
<1>1. Link!InitWait <=> ControlFacts!InitWait
  BY DEF Link!InitWait, Link!InitReturns, Link!Decided, ControlFacts!InitWait,
         ControlFacts!InitReturns, ControlFacts!Decided
<1>2. Link!InitTimeout <=> ControlFacts!InitTimeout
  BY DEF Link!InitTimeout, Link!InitReturns, ControlFacts!InitTimeout, ControlFacts!InitReturns
<1>3. Link!ShutdownQuit <=> ControlFacts!ShutdownQuit
  BY DEF Link!ShutdownQuit, Link!QuitReaches, ControlFacts!ShutdownQuit, ControlFacts!QuitReaches
<1>4. Link!ShutdownJoin <=> ControlFacts!ShutdownJoin
  BY DEF Link!ShutdownJoin, Link!Joinable, ControlFacts!ShutdownJoin, ControlFacts!Joinable
<1>5. Link!ShutdownDisconnect <=> ControlFacts!ShutdownDisconnect
  BY DEF Link!ShutdownDisconnect, ControlFacts!ShutdownDisconnect
<1>6. Link!ShutdownFree <=> ControlFacts!ShutdownFree
  BY DEF Link!ShutdownFree, ControlFacts!ShutdownFree
<1> QED BY <1>1, <1>2, <1>3, <1>4, <1>5, <1>6 DEF Link!CallStep, ControlFacts!CallStep

LEMMA SameLoopSteps ==
  /\ Link!MainloopStep <=> ControlFacts!MainloopStep
  /\ Link!ContextReady <=> ControlFacts!ContextReady
  /\ Link!ContextFails <=> ControlFacts!ContextFails
<1> USE DEF Link!contextVars, Link!threadVars, Link!flagVars, ControlFacts!contextVars,
            ControlFacts!threadVars, ControlFacts!flagVars
<1>1. Link!OrphanCallback <=> ControlFacts!OrphanCallback
  BY DEF Link!OrphanCallback, ControlFacts!OrphanCallback
<1>2. Link!CallbackRuns <=> ControlFacts!CallbackRuns
  BY DEF Link!CallbackRuns, Link!CallbackSets, ControlFacts!CallbackRuns,
         ControlFacts!CallbackSets
<1>3. Link!CallbackNotify <=> ControlFacts!CallbackNotify
  BY DEF Link!CallbackNotify, ControlFacts!CallbackNotify
<1>4. Link!MainloopReturns <=> ControlFacts!MainloopReturns
  BY DEF Link!MainloopReturns, ControlFacts!MainloopReturns
<1>5. /\ Link!ContextReady <=> ControlFacts!ContextReady
      /\ Link!ContextFails <=> ControlFacts!ContextFails
  BY DEF Link!ContextReady, Link!ContextFails, Link!ContextChanges, ControlFacts!ContextReady,
         ControlFacts!ContextFails, ControlFacts!ContextChanges
<1> QED BY <1>1, <1>2, <1>3, <1>4, <1>5 DEF Link!MainloopStep, ControlFacts!MainloopStep

LEMMA LinkStep ==
  ASSUME [Next]_vars
  PROVE  [ControlFacts!Next]_(ControlFacts!vars)
<1>1. CASE LoopStep
  <2>1. UNCHANGED controlVars
    BY <1>1, LoopKeeps
  <2> QED BY <2>1 DEF controlVars, ControlFacts!vars
<1>2. CASE ReadStep
  <2>1. UNCHANGED controlVars
    BY <1>2, ReadKeeps DEF ReadUnchanged
  <2> QED BY <2>1 DEF controlVars, ControlFacts!vars
<1>3. CASE OwnerStep
  <2>1. UNCHANGED controlVars \/ Link!InitCall \/ Link!ShutdownCall
    BY <1>3
       DEF OwnerStep, OwnerRuns, StartRefused, StartCall, StopCall, DestroyCall, StopRequest,
           StartNotConnected, StartConnected, StartResolves, StartResolveFails, StartFails,
           StartSpawns, StopNotify, StopClose, JoinTest, JoinBlock, JoinTimeout, JoinThread,
           StopControl, StopReturns, DestroyFrees, vars
  <2>2. CASE UNCHANGED controlVars
    BY <2>2 DEF controlVars, ControlFacts!vars
  <2>3. CASE Link!InitCall \/ Link!ShutdownCall
    BY <2>3, SameCalls DEF ControlFacts!Next
  <2> QED BY <2>1, <2>2, <2>3
<1>4. CASE ControlStep
  BY <1>4, SameCallSteps, SameLoopSteps DEF ControlStep, ControlFacts!Next
<1>5. CASE MoveDefault \/ Over \/ UNCHANGED vars
  BY <1>5 DEF MoveDefault, Over, vars, controlVars, ControlFacts!vars
<1> QED BY <1>1, <1>2, <1>3, <1>4, <1>5 DEF Next

LEMMA LinkSpec == Spec => ControlFacts!Spec
<1>1. Init => ControlFacts!Init
  BY SameCalls DEF Init
<1> QED BY <1>1, LinkStep, PTL DEF Spec, ControlFacts!Spec

LEMMA LinkInvariant == Spec => []ControlFacts!IInv
<1>1. MaxStarts \in Nat
  BY CaptureAssumption
<1> QED BY <1>1, LinkSpec, ControlFacts!ControlInvariant, PTL

LEMMA SameNext == [ControlFacts!Next]_(ControlFacts!vars) => [Link!Next]_(Link!vars)
  BY SameCalls, SameCallSteps, SameLoopSteps
     DEF ControlFacts!Next, Link!Next, ControlFacts!vars, Link!vars

\* A capture uses its connection as control_t allows: every behaviour of module Capture is
\* one of module Control.
THEOREM ConnectionIsControl == Spec => Link!Spec
<1>1. Init => Link!Init
  BY DEF Init
<1>2. [Next]_vars => [Link!Next]_(Link!vars)
  BY LinkStep, SameNext
<1> QED BY <1>1, <1>2, PTL DEF Spec, Link!Spec

-----------------------------------------------------------------------------
(***************************************************************************)
(* The lifetime of the handle, its thread and its connection.  The three    *)
(* properties are consequences of where the owner and the capture thread    *)
(* can be at the same time, and of what the connection is then.             *)
(***************************************************************************)

\* A thread that has not left capture_loop() yet; an owner whose stop() has not waited for
\* it yet.
LivePlaces == {"top", "resolving", "opening", "reading", "push", "checking", "backoff",
               "backoffBlock", "sleeping", "leave"}
JoinPlaces == {"stopNotify", "stopClose", "joinTest", "joinBlock", "joinWait", "join"}

\* The types of what the other parts are about.
PlacesOK ==
  /\ loop \in LoopPlaces /\ owner \in OwnerPlaces
  /\ thread \in {"none", "joinable", "detached"}
  /\ running \in BOOLEAN /\ stopRequested \in BOOLEAN
  /\ abandoned \in BOOLEAN /\ freed \in BOOLEAN

\* running is true exactly while the thread is in its loop, which it leaves only on request.
ThreadAgrees ==
  /\ loop = "none" <=> thread = "none"
  /\ abandoned <=> thread = "detached"
  /\ running <=> loop \in LivePlaces
  /\ loop \in {"leave", "notify", "returning", "done"} => stopRequested

\* Which thread the owner finds at each of its places: only stop() waits for one, and from
\* then on until the next start() there is none but the abandoned one.
OwnerAgrees ==
  /\ thread = "joinable" /\ stopRequested => owner \in JoinPlaces
  /\ owner \in {"joinTest", "joinBlock", "joinWait", "join"} => thread = "joinable"
  /\ owner \in {"connecting", "stopControl"} => thread # "joinable"
  /\ owner \in {"resolving", "startFailed", "spawn", "stopping", "free"} => thread = "none"
  /\ freed => owner = "gone" /\ thread = "none"

\* control_t is inside init() only in start(), and in shutdown() only in a start() that
\* failed or in stop().
CallAgrees ==
  /\ call \in {"wait", "blocked"} => owner = "connecting" /\ thread = "none"
  /\ call \in {"quit", "join", "disconnect", "free"} => owner \in {"startFailed", "stopping"}
  /\ call = "dead" => owner = "connecting"

\* A thread in its loop has its context and main loop.  An abandoned one keeps its main
\* loop, though a later init() may lose track of it; a shutdown() that is over leaves none;
\* and an owner with nothing to do has one for a reason.
LinkAgrees ==
  /\ loop \in LivePlaces \/ owner \in {"resolving", "spawn"}
       => ctx # "none" /\ mainloopThread = "running"
  /\ abandoned => mainloopThread \in {"running", "unnamed", "orphaned"}
  /\ owner = "connecting" /\ call = "idle" /\ status = "ok"
       => mainloopThread = "running" /\ thread = "none"
  /\ owner \in {"stopping", "startFailed"} /\ call = "idle" => mainloopThread = "none"
  /\ owner = "free" \/ freed => mainloopThread = "none"
  /\ owner = "connecting" /\ call = "idle" => status # "none"
  /\ owner = "idle" /\ mainloopThread # "none" => status = "error" \/ running \/ abandoned

LifeInv ==
  /\ PlacesOK
  /\ ThreadAgrees
  /\ OwnerAgrees
  /\ CallAgrees
  /\ LinkAgrees
  /\ TerminateCases

LEMMA LifeInit == Init => LifeInv
  BY DEF Init, LifeInv, PlacesOK, ThreadAgrees, OwnerAgrees, CallAgrees, LinkAgrees,
         TerminateCases, Link!Init, LoopPlaces, OwnerPlaces, LivePlaces, JoinPlaces

\* How the thread moves.
LoopMoves ==
  \/ loop' = loop /\ running' = running
  \/ /\ loop \in LivePlaces /\ loop' \in LivePlaces /\ running' = running
     /\ loop' = "leave" => stopRequested
  \/ loop = "leave" /\ loop' = "notify" /\ running' = FALSE
  \/ loop = "notify" /\ loop' = "returning" /\ running' = running
  \/ loop = "returning" /\ loop' = "done" /\ running' = running

LEMMA LoopMovesOn ==
  ASSUME LoopStep
  PROVE  /\ LoopMoves
         /\ \/ owner' = owner
            \/ owner = "joinWait" /\ owner' = "joinTest"
<1> USE DEF LoopMoves, LoopUnchanged, LivePlaces, sharedVars, ownerVars
<1>1. CASE LoopTop
  BY <1>1 DEF LoopTop
<1>2. CASE PushFrame
  BY <1>2 DEF PushFrame
<1>3. CASE BackoffTest \/ BackoffBlock \/ BackoffOver
  BY <1>3 DEF BackoffTest, BackoffBlock, BackoffOver, LoopGoesTo
<1>4. CASE StoreNotRunning \/ LoopReturns
  BY <1>4 DEF StoreNotRunning, LoopReturns
<1>5. CASE NotifyStopped
  BY <1>5 DEF NotifyStopped
<1>6. CASE LoopQueried
  BY <1>6 DEF LoopQueried, ResolveAnswers, ResolveFails, CheckAnswers, CheckFails
<1>7. CASE LoopStreams
  BY <1>7 DEF LoopStreams, OpenSucceeds, OpenFails, ReadReturns, ReadFails
<1>8. CASE SinkCheckDue
  BY <1>8 DEF SinkCheckDue
<1> QED BY <1>1, <1>2, <1>3, <1>4, <1>5, <1>6, <1>7, <1>8 DEF LoopStep, LoopRuns

\* With the thread gone from its loop, an owner that is idle has a request to answer for.
LEMMA LoopLife ==
  ASSUME LifeInv, LoopStep
  PROVE  LifeInv'
<1>1. /\ LoopMoves
      /\ UNCHANGED <<controlVars, stopRequested, thread, abandoned, freed>>
      /\ \/ owner' = owner
         \/ owner = "joinWait" /\ owner' = "joinTest"
  BY LoopMovesOn, LoopKeeps
<1> USE <1>1 DEF LifeInv, LoopMoves, controlVars
<1>2. PlacesOK'
  BY DEF PlacesOK, LivePlaces, LoopPlaces, OwnerPlaces
<1>3. ThreadAgrees'
  BY DEF ThreadAgrees, LivePlaces, PlacesOK
<1>4. OwnerAgrees'
  BY DEF OwnerAgrees, JoinPlaces
<1>5. CallAgrees'
  BY DEF CallAgrees
<1>6. LinkAgrees'
  BY DEF LinkAgrees, LivePlaces, ThreadAgrees, OwnerAgrees, JoinPlaces, PlacesOK
<1>7. TerminateCases'
  BY DEF TerminateCases
<1> QED BY <1>2, <1>3, <1>4, <1>5, <1>6, <1>7

\* The connection's own steps: init() and shutdown() end where LinkAgrees says they do.
LEMMA ControlLife ==
  ASSUME LifeInv, ControlStep, ControlFacts!IInv
  PROVE  LifeInv'
<1>1. UNCHANGED <<running, stopRequested, loop, owner, thread, abandoned, freed>>
  BY DEF ControlStep, sharedVars, loopVars, ownerVars
<1>2. PlacesOK' /\ ThreadAgrees' /\ OwnerAgrees'
  BY <1>1 DEF LifeInv, PlacesOK, ThreadAgrees, OwnerAgrees
<1>3. CallAgrees' /\ LinkAgrees' /\ TerminateCases'
  <2> USE <1>1 DEF LifeInv, CallAgrees, LinkAgrees, TerminateCases, Link!contextVars,
                   Link!threadVars, Link!flagVars
  <2>1. CASE Link!InitWait \/ Link!InitTimeout
    BY <2>1 DEF Link!InitWait, Link!InitTimeout, Link!InitReturns, ControlFacts!IInv,
                ControlFacts!CallPlaces, OwnerAgrees, ThreadAgrees
  <2>2. CASE Link!ShutdownQuit
    BY <2>2 DEF Link!ShutdownQuit
  <2>3. CASE Link!ShutdownJoin
    BY <2>3 DEF Link!ShutdownJoin, Link!Joinable, OwnerAgrees, ThreadAgrees, LivePlaces
  <2>4. CASE Link!ShutdownDisconnect
    BY <2>4 DEF Link!ShutdownDisconnect, OwnerAgrees, ThreadAgrees, LivePlaces
  <2>5. CASE Link!ShutdownFree
    BY <2>5 DEF Link!ShutdownFree, OwnerAgrees, ThreadAgrees, LivePlaces, ControlFacts!IInv,
                ControlFacts!CallPlaces
  <2>6. CASE Link!MainloopStep
    BY <2>6 DEF Link!MainloopStep, Link!OrphanCallback, Link!CallbackRuns, Link!CallbackNotify,
                Link!MainloopReturns, OwnerAgrees, ThreadAgrees, LivePlaces, ControlFacts!IInv,
                ControlFacts!CallPlaces
  <2>7. CASE Link!ContextReady \/ Link!ContextFails
    BY <2>7 DEF Link!ContextReady, Link!ContextFails, Link!ContextChanges
  <2> QED BY <2>1, <2>2, <2>3, <2>4, <2>5, <2>6, <2>7 DEF ControlStep, Link!CallStep
<1> QED BY <1>2, <1>3 DEF LifeInv

LEMMA SameLife ==
  ASSUME LifeInv,
         UNCHANGED <<running, stopRequested, loop, owner, thread, abandoned, freed, controlVars>>
  PROVE  LifeInv'
  BY DEF LifeInv, PlacesOK, ThreadAgrees, OwnerAgrees, CallAgrees, LinkAgrees, TerminateCases,
         controlVars

\* weba_capture_start().  Its init() ends the process if it finds a main loop thread, which
\* an idle owner has only after a failed start, with its capture running or abandoned.
LEMMA StartLife ==
  ASSUME LifeInv,
         \/ StartCall \/ StartNotConnected \/ StartConnected \/ StartResolves
         \/ StartResolveFails \/ StartFails \/ StartSpawns
  PROVE  LifeInv'
<1> USE DEF LifeInv, OwnerGoesTo, sharedVars, loopVars, controlVars
<1>1. CASE StartCall
  <2>1. ~running /\ owner = "idle" /\ owner' = "connecting"
    BY <1>1 DEF StartCall, MayStart
  <2>2. UNCHANGED <<running, stopRequested, loop, thread, abandoned, freed>>
    BY <1>1 DEF StartCall
  <2>3. thread \in {"none", "detached"} /\ loop \notin LivePlaces
    BY <2>1 DEF PlacesOK, ThreadAgrees, OwnerAgrees, JoinPlaces, LoopPlaces, LivePlaces
  <2>4. PlacesOK' /\ ThreadAgrees' /\ OwnerAgrees'
    BY <2>1, <2>2, <2>3
       DEF PlacesOK, ThreadAgrees, OwnerAgrees, OwnerPlaces, JoinPlaces
  <2>5. /\ mainloopThread' # mainloopThread => mainloopThread' \in {"running", "unnamed", "orphaned"}
        /\ \/ call' = "idle" /\ status' = "error"
           \/ call' = "wait" /\ mainloopThread = "none" /\ mainloopThread' = "running"
           \/ call' = "dead" /\ mainloopThread # "none" /\ status' = status
    BY <1>1
       DEF StartCall, Link!InitCall, Link!InitNotStarted, Link!NoMainloop, Link!NoConnection,
           Link!InitStarted, Link!Unnamed, Link!Orphaned
  <2>6. CallAgrees' /\ LinkAgrees' /\ TerminateCases'
    BY <2>1, <2>2, <2>3, <2>5
       DEF PlacesOK, ThreadAgrees, OwnerAgrees, CallAgrees, LinkAgrees, TerminateCases
  <2> QED BY <2>4, <2>6
<1>2. CASE StartNotConnected \/ StartFails
  BY <1>2
     DEF StartNotConnected, StartFails, PlacesOK, ThreadAgrees, OwnerAgrees, CallAgrees,
         LinkAgrees, TerminateCases, OwnerPlaces, JoinPlaces
<1>3. CASE StartConnected
  <2>1. CASE Link!CanResolve
    BY <1>3, <2>1
       DEF StartConnected, PlacesOK, ThreadAgrees, OwnerAgrees, CallAgrees, LinkAgrees,
           TerminateCases, OwnerPlaces, JoinPlaces, Link!CanResolve
  <2>2. CASE ~Link!CanResolve
    BY <1>3, <2>2
       DEF StartConnected, PlacesOK, ThreadAgrees, OwnerAgrees, CallAgrees, LinkAgrees,
           TerminateCases, OwnerPlaces, JoinPlaces, Link!ShutdownCall, Link!contextVars,
           Link!threadVars, Link!flagVars
  <2> QED BY <2>1, <2>2
<1>4. CASE StartResolves
  BY <1>4
     DEF StartResolves, PlacesOK, ThreadAgrees, OwnerAgrees, CallAgrees, LinkAgrees,
         TerminateCases, OwnerPlaces, JoinPlaces
<1>5. CASE StartResolveFails
  BY <1>5
     DEF StartResolveFails, PlacesOK, ThreadAgrees, OwnerAgrees, CallAgrees, LinkAgrees,
         TerminateCases, OwnerPlaces, JoinPlaces, Link!ShutdownCall, Link!contextVars,
         Link!threadVars, Link!flagVars
<1>6. CASE StartSpawns
  BY <1>6
     DEF StartSpawns, PlacesOK, ThreadAgrees, OwnerAgrees, CallAgrees, LinkAgrees,
         TerminateCases, OwnerPlaces, LoopPlaces, LivePlaces, JoinPlaces
<1> QED BY <1>1, <1>2, <1>3, <1>4, <1>5, <1>6

\* weba_capture_stop() and weba_capture_destroy().
LEMMA StopLife ==
  ASSUME LifeInv,
         \/ StopCall \/ DestroyCall \/ StopNotify \/ StopClose \/ JoinTest \/ JoinBlock
         \/ JoinTimeout \/ JoinThread \/ StopControl \/ StopReturns \/ DestroyFrees
  PROVE  LifeInv'
<1> USE DEF LifeInv, OwnerGoesTo, sharedVars, loopVars, controlVars, PlacesOK, ThreadAgrees,
            OwnerAgrees, CallAgrees, LinkAgrees, TerminateCases
<1>1. CASE StopCall \/ DestroyCall
  <2>1. /\ owner = "idle" /\ owner' = "stopNotify" /\ stopRequested' = TRUE
        /\ UNCHANGED <<running, loop, thread, abandoned, freed>>
        /\ UNCHANGED <<mainloopThread, ctx, call, status>>
    BY <1>1 DEF StopCall, DestroyCall, StopRequest
  <2> QED BY <2>1 DEF OwnerPlaces, JoinPlaces
<1>2. CASE StopNotify
  BY <1>2 DEF StopNotify, Woken, OwnerPlaces, LoopPlaces, LivePlaces, JoinPlaces
<1>3. CASE StopClose \/ JoinTest \/ JoinBlock
  BY <1>3 DEF StopClose, JoinTest, JoinBlock, OwnerPlaces, JoinPlaces
<1>4. CASE JoinTimeout
  BY <1>4 DEF JoinTimeout, AbandonedAfterWait, OwnerPlaces, LivePlaces, JoinPlaces
<1>5. CASE JoinThread
  BY <1>5 DEF JoinThread, OwnerPlaces, LoopPlaces, LivePlaces, JoinPlaces
<1>6. CASE StopControl
  <2>1. CASE abandoned
    BY <1>6, <2>1 DEF StopControl, LinkOutlives, AfterStop, OwnerPlaces, JoinPlaces
  <2>2. CASE ~abandoned
    BY <1>6, <2>2
       DEF StopControl, LinkOutlives, OwnerPlaces, JoinPlaces, Link!ShutdownCall,
           Link!contextVars, Link!threadVars, Link!flagVars
  <2> QED BY <2>1, <2>2
<1>7. CASE StopReturns
  BY <1>7 DEF StopReturns, AfterStop, OwnerPlaces, LivePlaces, JoinPlaces
<1>8. CASE DestroyFrees
  BY <1>8 DEF DestroyFrees, OwnerPlaces, JoinPlaces
<1> QED BY <1>1, <1>2, <1>3, <1>4, <1>5, <1>6, <1>7, <1>8

LEMMA LifeStep == LifeInv /\ ControlFacts!IInv /\ [Next]_vars => LifeInv'
<1> SUFFICES ASSUME LifeInv, ControlFacts!IInv, [Next]_vars PROVE LifeInv'
  OBVIOUS
<1>1. CASE LoopStep
  BY <1>1, LoopLife
<1>2. CASE ReadStep
  BY <1>2, ReadKeeps, SameLife DEF ReadUnchanged, loopVars, ownerVars
<1>3. CASE OwnerStep
  <2>1. CASE StartRefused
    BY <2>1, SameLife DEF StartRefused, vars, sharedVars, loopVars, ownerVars
  <2> QED BY <1>3, <2>1, StartLife, StopLife DEF OwnerStep, OwnerRuns
<1>4. CASE ControlStep
  BY <1>4, ControlLife
<1>5. CASE MoveDefault \/ Over \/ UNCHANGED vars
  BY <1>5, SameLife DEF MoveDefault, Over, vars, sharedVars, loopVars, ownerVars
<1> QED BY <1>1, <1>2, <1>3, <1>4, <1>5 DEF Next

LEMMA LifeInvariant == Spec => []LifeInv
  BY LifeInit, LifeStep, LinkInvariant, PTL DEF Spec

\* The handle is freed only when neither its capture thread nor its main loop thread is left.
THEOREM NothingFreedEarly == Spec => []FreeIsSafe
<1>1. LifeInv => FreeIsSafe
  BY DEF LifeInv, ThreadAgrees, OwnerAgrees, LinkAgrees, FreeIsSafe
<1> QED BY <1>1, LifeInvariant, PTL

\* A capture thread inside a query has its context and its running main loop.
THEOREM QueriesHaveContext == Spec => []QueryHasContext
<1>1. LifeInv => QueryHasContext
  BY DEF LifeInv, LinkAgrees, LivePlaces, QueryHasContext
<1> QED BY <1>1, LifeInvariant, PTL

\* A start ends the process only after a start that failed, or after an abandoned thread.
THEOREM OnlyTheseTerminate == Spec => []TerminateCases
<1>1. LifeInv => TerminateCases
  BY DEF LifeInv
<1> QED BY <1>1, LifeInvariant, PTL

\* weba_capture_start() assigns its std::thread when no earlier thread is left, joinable or
\* abandoned: std::terminate at that assignment, which StartSpawns leaves out, never happens,
\* and no two threads are ever in capture_loop() on one handle.
SpawnsAlone == owner = "spawn" => thread = "none" /\ loop = "none" /\ ~abandoned /\ ~running

THEOREM OneCaptureThread == Spec => []SpawnsAlone
<1>1. LifeInv => SpawnsAlone
  BY DEF LifeInv, ThreadAgrees, OwnerAgrees, LivePlaces, SpawnsAlone
<1> QED BY <1>1, LifeInvariant, PTL
=============================================================================
