---------------------------- MODULE ControlProofs ----------------------------
(***************************************************************************)
(* What module Control keeps in every state, for every number of calls of  *)
(* init().                                                                 *)
(***************************************************************************)
EXTENDS Control, TLAPS

(***************************************************************************)
(* The inductive invariant.  What a flag is worth depends on where the     *)
(* caller and the main loop thread are, so the properties need two parts   *)
(* more: CallPlaces, what each place in init() and shutdown() means for    *)
(* the thread, and FlagsAgree, what the flags say of the context.          *)
(***************************************************************************)

\* init() waits only while its thread runs; shutdown() is past its join only
\* when there is no thread, and only shutdown() makes a thread return.
CallPlaces ==
  /\ call \in {"wait", "blocked"} => mainloopThread = "running"
  /\ call \in {"disconnect", "free"} => mainloopThread = "none"
  /\ quitting => call \in {"join", "disconnect", "free"}
  /\ mainloopThread = "returned" => quitting

\* A callback that is due has something to say, a failure that needs none is
\* known, and without a thread nothing is ready but what shutdown() still holds.
FlagsAgree ==
  /\ callback = "pending" => ctx \in {"ready", "failed"}
  /\ ctx = "failed" /\ callback # "pending" /\ mainloopThread # "orphaned" => failed
  /\ mainloopThread = "none" => ~ready \/ call \in {"disconnect", "free"}

IInv ==
  /\ TypeOK
  /\ CallPlaces
  /\ FlagsAgree
  /\ ReadyIsLive
  /\ NoLostVerdict

LEMMA ControlInit == Init => IInv
<1> SUFFICES ASSUME Init PROVE IInv
  OBVIOUS
<1>1. TypeOK
  <2>1. inits \in 0 .. MaxInits
    BY ControlAssumption DEF Init
  <2> QED BY <2>1 DEF Init, TypeOK
<1>2. CallPlaces
  BY DEF Init, CallPlaces
<1>3. FlagsAgree
  BY DEF Init, FlagsAgree
<1>4. ReadyIsLive /\ NoLostVerdict
  BY DEF Init, ReadyIsLive, NoLostVerdict, Ready
<1> QED BY <1>1, <1>2, <1>3, <1>4 DEF IInv

-----------------------------------------------------------------------------
(* Each step of the caller's thread. *)

LEMMA InitCallIInv ==
  ASSUME IInv, InitCall
  PROVE  IInv'
<1>1. inits' \in 0 .. MaxInits
  BY ControlAssumption DEF IInv, TypeOK, InitCall
<1>2. mainloopThread \in {"none", "running", "unnamed", "orphaned"} /\ ~quitting
  BY DEF IInv, TypeOK, Lost, CallPlaces, InitCall
<1>3. mainloopThread = "none" => ~ready
  BY DEF IInv, FlagsAgree, InitCall
<1>4. CASE InitNotStarted
  <2>1. CASE NoMainloop
    BY <1>1, <1>2, <1>3, <1>4, <2>1
       DEF IInv, TypeOK, Lost, CallPlaces, FlagsAgree, ReadyIsLive, NoLostVerdict, Ready,
           InitNotStarted, NoMainloop, Unnamed, InitCall
  <2>2. CASE NoConnection
    BY <1>1, <1>2, <1>3, <1>4, <2>2
       DEF IInv, TypeOK, Lost, CallPlaces, FlagsAgree, ReadyIsLive, NoLostVerdict, Ready,
           InitNotStarted, NoConnection, Orphaned, InitCall
  <2> QED BY <1>4, <2>1, <2>2 DEF InitNotStarted
<1>5. CASE InitStarted
  <2>1. TypeOK'
    BY <1>1, <1>2, <1>5 DEF IInv, TypeOK, Lost, InitStarted, Orphaned, flagVars
  <2>2. CallPlaces'
    BY <1>2, <1>5 DEF CallPlaces, InitStarted, Orphaned
  <2>3. FlagsAgree'
    BY <1>2, <1>5 DEF FlagsAgree, InitStarted, Orphaned
  <2>4. ReadyIsLive' /\ NoLostVerdict'
    BY <1>2, <1>3, <1>5
       DEF ReadyIsLive, NoLostVerdict, Ready, InitStarted, Orphaned, flagVars
  <2> QED BY <2>1, <2>2, <2>3, <2>4 DEF IInv
<1> QED BY <1>4, <1>5 DEF InitCall

LEMMA CallStepIInv ==
  ASSUME IInv, CallStep \/ ShutdownCall
  PROVE  IInv'
<1> USE DEF IInv, TypeOK, Lost, CallPlaces, FlagsAgree, ReadyIsLive, NoLostVerdict, Ready, Decided,
            contextVars, threadVars, flagVars
<1>1. CASE InitWait
  BY <1>1 DEF InitWait, InitReturns
<1>2. CASE InitTimeout
  BY <1>2 DEF InitTimeout, InitReturns
<1>3. CASE ShutdownCall
  BY <1>3 DEF ShutdownCall
<1>4. CASE ShutdownQuit
  BY <1>4 DEF ShutdownQuit, QuitReaches
<1>5. CASE ShutdownJoin
  BY <1>5 DEF ShutdownJoin, Joinable
<1>6. CASE ShutdownDisconnect
  BY <1>6 DEF ShutdownDisconnect
<1>7. CASE ShutdownFree
  BY <1>7 DEF ShutdownFree
<1> QED BY <1>1, <1>2, <1>3, <1>4, <1>5, <1>6, <1>7 DEF CallStep

-----------------------------------------------------------------------------
(* Each step of the main loop thread. *)

LEMMA MainloopIInv ==
  ASSUME IInv, ContextReady \/ ContextFails \/ MainloopStep
  PROVE  IInv'
<1> USE DEF IInv, TypeOK, Lost, CallPlaces, FlagsAgree, ReadyIsLive, NoLostVerdict, Ready, Decided,
            contextVars, threadVars, flagVars
<1>1. CASE ContextReady
  BY <1>1 DEF ContextReady, ContextChanges
<1>2. CASE ContextFails
  BY <1>2 DEF ContextFails, ContextChanges
<1>3. CASE OrphanCallback
  <2>1. TypeOK'
    BY <1>3 DEF OrphanCallback
  <2>2. CallPlaces'
    BY <1>3 DEF OrphanCallback
  <2>3. FlagsAgree'
    BY <1>3 DEF OrphanCallback
  <2>4. ReadyIsLive' /\ NoLostVerdict'
    BY <1>3 DEF OrphanCallback
  <2> QED BY <2>1, <2>2, <2>3, <2>4
<1>4. CASE CallbackRuns
  <2>1. TypeOK'
    BY <1>4 DEF CallbackRuns, CallbackSets
  <2>2. CallPlaces'
    BY <1>4 DEF CallbackRuns, CallbackSets
  <2>3. FlagsAgree' /\ ReadyIsLive'
    BY <1>4 DEF CallbackRuns, CallbackSets
  <2>4. NoLostVerdict'
    BY <1>4 DEF CallbackRuns, CallbackSets
  <2> QED BY <2>1, <2>2, <2>3, <2>4
<1>5. CASE CallbackNotify
  BY <1>5 DEF CallbackNotify
<1>6. CASE MainloopReturns
  BY <1>6 DEF MainloopReturns
<1> QED BY <1>1, <1>2, <1>3, <1>4, <1>5, <1>6 DEF MainloopStep

LEMMA StutterIInv ==
  ASSUME IInv, UNCHANGED vars
  PROVE  IInv'
BY DEF IInv, TypeOK, CallPlaces, FlagsAgree, ReadyIsLive, NoLostVerdict, Ready, Decided, vars

LEMMA ControlNext == IInv /\ [Next]_vars => IInv'
BY InitCallIInv, CallStepIInv, MainloopIInv, StutterIInv DEF Next

LEMMA ControlInvariant == Spec => []IInv
BY ControlInit, ControlNext, PTL DEF Spec

-----------------------------------------------------------------------------
\* The type invariant of control_t; its last part says that state_callback() is
\* only under way on the thread of a context that is still there.
THEOREM ControlTypeCorrect == Spec => []TypeOK
<1>1. IInv => TypeOK
  BY DEF IInv
<1> QED BY <1>1, ControlInvariant, PTL

\* control_t::ready() never vouches for a context that is gone.
THEOREM ReadyNeverStale == Spec => []ReadyIsLive
<1>1. IInv => ReadyIsLive
  BY DEF IInv
<1> QED BY <1>1, ControlInvariant, PTL

\* control_t::init() never sleeps on a verdict that state_callback() has given.
THEOREM VerdictsArrive == Spec => []NoLostVerdict
<1>1. IInv => NoLostVerdict
  BY DEF IInv
<1> QED BY <1>1, ControlInvariant, PTL

\* control_t::shutdown() lets the context go only when no main loop thread is left.
THEOREM ContextOnlyAlone == Spec => ContextReleasedAlone
<1>1. IInv /\ [Next]_vars
        => [call = "disconnect" /\ call' = "free" => mainloopThread = "none"]_vars
  BY DEF IInv, CallPlaces
<1> QED BY <1>1, ControlInvariant, PTL DEF Spec, ContextReleasedAlone
=============================================================================
