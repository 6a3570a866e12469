------------------------------- MODULE Control -------------------------------
(***************************************************************************)
(* control_t (src/src/pulse_control.{h,cpp}): the connection to the audio  *)
(* server.  The caller's thread runs init() and shutdown(); a main loop    *)
(* thread, which init() starts and shutdown() joins, runs state_callback() *)
(* whenever the context changes state.  Module Capture composes this one   *)
(* with the capture handle that owns it.                                   *)
(***************************************************************************)
EXTENDS Integers

CONSTANT MaxInits  \* bound: calls of init()

ASSUME ControlAssumption == MaxInits \in Nat

VARIABLES
  mainloop,        \* _mainloop is not null
  ctx,             \* the state of the context in _ctx, "none" when _ctx is null
  mainloopThread,  \* _thread and where it is
  quitting,        \* pa_mainloop_quit() was called on the loop _thread runs
  callback,        \* where the main loop thread is in state_callback()
  ready,           \* _ready
  failed,          \* _failed
  terminated,      \* _terminated
  call,            \* where the caller is in init() or shutdown()
  status,          \* what the last init() returned
  inits            \* calls of init(), against MaxInits

contextVars == <<mainloop, ctx>>
threadVars  == <<mainloopThread, quitting, callback>>
flagVars    == <<ready, failed, terminated>>
vars == <<mainloop, ctx, mainloopThread, quitting, callback, ready, failed, terminated,
          call, status, inits>>

\* A failed init() can leave a thread on a main loop that _mainloop no longer names,
\* so that no call of shutdown() can end it: "unnamed" while _ctx is still that loop's
\* context, "orphaned" once it is not.  "returned": the thread's function has returned
\* and it is still joinable.
Lost == {"unnamed", "orphaned"}

TypeOK ==
  /\ mainloop \in BOOLEAN
  /\ ctx \in {"none", "unconnected", "connecting", "ready", "failed"}
  /\ mainloopThread \in {"none", "running", "returned"} \cup Lost
  /\ quitting \in BOOLEAN
  /\ callback \in {"none", "pending", "notify"}
  /\ ready \in BOOLEAN /\ failed \in BOOLEAN /\ terminated \in BOOLEAN
  /\ call \in {"idle", "wait", "blocked", "quit", "join", "disconnect", "free",
              "dead"}
  /\ status \in {"none", "ok", "error"}
  /\ inits \in 0 .. MaxInits
  /\ callback # "none" => mainloopThread \in {"running", "unnamed"} /\ ctx # "none"

\* ready(): no flag says the context is gone.
Ready == ready /\ ~failed /\ ~terminated

\* What resolve_target() asks before it queries the server.
CanResolve == ctx # "none" /\ Ready

Init ==
  /\ mainloop = FALSE
  /\ ctx = "none"
  /\ mainloopThread = "none"
  /\ quitting = FALSE
  /\ callback = "none"
  /\ ready = FALSE /\ failed = FALSE /\ terminated = FALSE
  /\ call = "idle"
  /\ status = "none"
  /\ inits = 0

-----------------------------------------------------------------------------
(* init(), on the caller's thread. *)

\* What a thread becomes when _mainloop is overwritten, and when _ctx is too.
Unnamed  == IF mainloopThread = "running" THEN "unnamed" ELSE mainloopThread
Orphaned == IF mainloopThread \in {"running", "unnamed"} THEN "orphaned" ELSE mainloopThread

\* pa_mainloop_new() fails: the context stays, and what its main loop thread does.
NoMainloop ==
  /\ mainloop' = FALSE
  /\ mainloopThread' = Unnamed
  /\ UNCHANGED <<ctx, callback, failed>>

\* pa_context_new() or pa_context_connect() fails.  A callback that is under way for
\* the context of before goes on as an OrphanCallback.
NoConnection ==
  /\ mainloop' = TRUE
  /\ \/ ctx' \in {"none", "unconnected"} /\ UNCHANGED failed
     \/ ctx' = "failed" /\ failed' = TRUE
  /\ mainloopThread' = Orphaned
  /\ callback' = "none"

\* The calls before the thread is started fail, and init() returns with what it
\* has made so far left in place.
InitNotStarted ==
  /\ NoMainloop \/ NoConnection
  /\ status' = "error"
  /\ UNCHANGED <<quitting, ready, terminated, call>>

\* The connection is under way and the thread is started.  Assigning to a
\* std::thread that is still joinable ends the process, and no call follows.
InitStarted ==
  /\ mainloop' = TRUE
  /\ ctx' = "connecting"
  /\ IF mainloopThread = "none"
     THEN /\ mainloopThread' = "running"
          /\ quitting' = FALSE
          /\ call' = "wait"
     ELSE /\ call' = "dead"
          /\ mainloopThread' = Orphaned
          /\ UNCHANGED quitting
  /\ callback' = "none"
  /\ UNCHANGED <<flagVars, status>>

\* init() up to its wait.
InitCall ==
  /\ call = "idle"
  /\ inits < MaxInits
  /\ inits' = inits + 1
  /\ InitNotStarted \/ InitStarted

\* What init()'s wait is for.  _terminated is not part of it.
Decided == ready \/ failed

\* init() after its wait: the flags decide, and on failure the context, the main
\* loop and its thread stay.
InitReturns ==
  /\ call' = "idle"
  /\ status' = IF ready THEN "ok" ELSE "error"
  /\ UNCHANGED <<contextVars, threadVars, flagVars, inits>>

\* The wait's predicate is tried with _state_lock held.
InitWait ==
  /\ call = "wait"
  /\ IF Decided
     THEN InitReturns
     ELSE call' = "blocked" /\ UNCHANGED <<contextVars, threadVars, flagVars, status, inits>>

InitUntimed ==
  /\ call = "blocked"
  /\ Decided
  /\ InitReturns
\* kQueryTimeout runs out.
InitTimeout ==
  /\ call = "blocked"
  /\ InitReturns

-----------------------------------------------------------------------------
(* The main loop thread. *)

\* The connection is made, or is lost; libpulse calls the state callback.
ContextChanges(state) ==
  /\ mainloopThread \in {"running", "unnamed"}
  /\ callback = "none"
  /\ ctx' = state
  /\ callback' = "pending"
  /\ UNCHANGED <<mainloop, mainloopThread, quitting, flagVars, call, status, inits>>

ContextReady == ctx = "connecting" /\ ContextChanges("ready")
ContextFails == ctx \in {"connecting", "ready"} /\ ContextChanges("failed")

\* A context that init() has dropped still has this object as its callback's
\* data.
OrphanCallback ==
  /\ mainloopThread = "orphaned" /\ call # "dead"
  /\ \/ ready' = TRUE /\ UNCHANGED failed
     \/ failed' = TRUE /\ UNCHANGED ready
  /\ UNCHANGED <<contextVars, threadVars, terminated, call, status, inits>>

CallbackSetsNoFailure == ready' = (ready \/ ctx = "ready") /\ UNCHANGED <<failed, terminated>>
\* The flag that state_callback() raises; none is ever lowered here.
CallbackSets ==
  /\ ready' = (ready \/ ctx = "ready")
  /\ failed' = (failed \/ ctx = "failed")
  /\ UNCHANGED terminated

\* state_callback(), up to the unlock.
CallbackRuns ==
  /\ callback = "pending"
  /\ CallbackSets
  /\ callback' = "notify"
  /\ UNCHANGED <<contextVars, mainloopThread, quitting, call, status, inits>>

CallbackNotifyLost ==
  /\ callback = "notify"
  /\ callback' = "none"
  /\ UNCHANGED <<contextVars, mainloopThread, quitting, flagVars, call, status, inits>>
\* state_callback() after the unlock: notify_all() sends init() back to its
\* predicate.
CallbackNotify ==
  /\ callback = "notify"
  /\ callback' = "none"
  /\ call' = IF call = "blocked" THEN "wait" ELSE call
  /\ UNCHANGED <<contextVars, mainloopThread, quitting, flagVars, status, inits>>

\* pa_mainloop_run() returns after a quit, between two callbacks.
MainloopReturns ==
  /\ mainloopThread = "running"
  /\ quitting
  /\ callback = "none"
  /\ mainloopThread' = "returned"
  /\ UNCHANGED <<contextVars, quitting, callback, flagVars, call, status, inits>>

-----------------------------------------------------------------------------
(* shutdown(), on the caller's thread, in the order of the code: stop the     *)
(* loop, join its thread, and only then touch the context.                    *)

ShutdownCall ==
  /\ call = "idle"
  /\ call' = "quit"
  /\ UNCHANGED <<contextVars, threadVars, flagVars, status, inits>>

QuitOmitted == FALSE
\* pa_mainloop_quit() reaches the thread only if it runs the loop _mainloop names.
QuitReaches == mainloop /\ mainloopThread = "running"

ShutdownQuit ==
  /\ call = "quit"
  /\ quitting' = (quitting \/ QuitReaches)
  /\ call' = "join"
  /\ UNCHANGED <<contextVars, mainloopThread, callback, flagVars, status, inits>>

JoinSkipped == TRUE
\* join() waits for the thread, if there is one, to return.
Joinable == mainloopThread \in {"none", "returned"}

ShutdownJoin ==
  /\ call = "join"
  /\ Joinable
  /\ mainloopThread' = IF mainloopThread = "returned" THEN "none" ELSE mainloopThread
  /\ call' = "disconnect"
  /\ UNCHANGED <<contextVars, quitting, callback, flagVars, status, inits>>

\* pa_context_disconnect() on a context that is still good calls the state
\* callback with PA_CONTEXT_TERMINATED, on this thread.
ShutdownDisconnect ==
  /\ call = "disconnect"
  /\ terminated' = (terminated \/ ctx \in {"connecting", "ready"})
  /\ ctx' = "none"
  /\ call' = "free"
  /\ UNCHANGED <<mainloop, threadVars, ready, failed, status, inits>>

\* Of the three flags shutdown() lowers one.
ShutdownFree ==
  /\ call = "free"
  /\ mainloop' = FALSE
  /\ quitting' = FALSE
  /\ ready' = FALSE
  /\ call' = "idle"
  /\ UNCHANGED <<ctx, mainloopThread, callback, failed, terminated, status, inits>>

-----------------------------------------------------------------------------
\* The steps of a call once made, and of the main loop thread.
CallStep ==
  \/ InitWait \/ InitTimeout
  \/ ShutdownQuit \/ ShutdownJoin \/ ShutdownDisconnect \/ ShutdownFree

MainloopStep ==
  \/ OrphanCallback \/ CallbackRuns \/ CallbackNotify \/ MainloopReturns

\* The caller makes one call at a time, in any order.
Next ==
  \/ InitCall \/ ShutdownCall
  \/ CallStep
  \/ ContextReady \/ ContextFails
  \/ MainloopStep

Spec == Init /\ [][Next]_vars

\* The threads run and the clock of init()'s wait does.  Nothing makes the
\* server answer.
Fairness ==
  /\ WF_vars(CallStep)
  /\ WF_vars(CallbackRuns \/ CallbackNotify \/ MainloopReturns)

FairSpec == Spec /\ Fairness

-----------------------------------------------------------------------------
(* Properties. *)

\* ready() never vouches for a context that is gone, but for the moment its
\* callback takes to say so, and but for an orphaned main loop: the callbacks of a
\* context that init() has dropped still raise the flags of this object.
ReadyIsLive ==
  Ready /\ mainloopThread # "orphaned" => ctx = "ready" \/ callback = "pending"

\* "Everything below runs with the main loop stopped and joined, so no libpulse
\* call here ever races the loop thread": the context is let go only when no
\* main loop thread is left.
ContextReleasedAlone ==
  [][call = "disconnect" /\ call' = "free" => mainloopThread = "none"]_vars

\* init() never sleeps on a verdict that is already in.
NoLostVerdict == call = "blocked" /\ Decided => callback = "notify"

\* A lost callback "surfaces as an error instead of a hang": init() returns.
InitAnswers == (call \in {"wait", "blocked"}) ~> (call = "idle")

\* shutdown() returns: stopping the loop lets its thread be joined, if it is the
\* loop the thread runs.
ShutdownReturns == (call = "quit" /\ mainloopThread \notin Lost) ~> (call = "idle")

\* "Whether the context reached PA_CONTEXT_READY and is still alive": the context of
\* the one main loop there is is ready, nothing is under way, and ready() says so.
\* _failed and _terminated keep what they said of an earlier context.
ReadyWhenAlive ==
  call = "idle" /\ mainloopThread = "running" /\ ctx = "ready" /\ callback = "none" => Ready
=============================================================================
