-------------------------------- MODULE Query --------------------------------
(***************************************************************************)
(* control_t::resolve_target() (src/src/pulse_control.cpp) with the        *)
(* queries it makes and the alarm_t (src/src/primitives.h) each waits on.  *)
(* One caller's thread asks and waits; the main loop thread runs the       *)
(* callbacks that ring.  An alarm lives as long as the query that made it, *)
(* and libpulse knows it by its address alone.                             *)
(***************************************************************************)
EXTENDS Integers

CONSTANTS
  Sink,        \* the sinks the server has
  NoSink,      \* the empty name
  Address,     \* where an alarm can be allocated
  NoAddress,
  MaxQueries,  \* bound: queries
  MaxMoves     \* bound: changes of the default sink

ASSUME QueryAssumption ==
  /\ NoSink \notin Sink
  /\ NoAddress \notin Address
  /\ MaxQueries \in Nat /\ MaxMoves \in Nat

VARIABLES
  \* the caller
  place,        \* the query it is in
  waiting,      \* where it is in alarm_t::wait()
  requested,    \* requested_sink, the same in every call
  sink,         \* the name resolved so far
  outcome,      \* what the last resolve_target() returned
  out,          \* and filled in
  \* the alarm of the query in progress
  alarm,        \* its address
  raised, value,
  \* libpulse
  operations,   \* the operations outstanding
  notifying,    \* the alarm that a callback has raised and is about to notify
  up,           \* the context is ready
  \* the world
  defaultSink,
  queries, moves,  \* against MaxQueries and MaxMoves
  \* history
  seen,         \* the sinks that were the default since resolve_target() was called
  outlived,     \* a query has timed out with its operation outstanding
  stray         \* a callback has touched an alarm that is gone

callerVars  == <<place, waiting, requested, sink, outcome, out>>
alarmVars   == <<alarm, raised, value>>
libVars     == <<operations, notifying, up>>
worldVars   == <<defaultSink, queries, moves>>
historyVars == <<seen, outlived, stray>>
vars == <<callerVars, alarmVars, libVars, worldVars, historyVars>>

-----------------------------------------------------------------------------
\* Names of sinks and of their monitors; to the code both are strings.
Name      == [kind : {"sink", "monitor"}, of : Sink \cup {NoSink}]
SinkName(s) == [kind |-> "sink", of |-> s]
Monitor(s)  == [kind |-> "monitor", of |-> s]
NoName    == SinkName(NoSink)

\* What a callback delivers (query_result_t), and the query it was asked for.
Answer    == [ok : BOOLEAN, name : Name, id : 0 .. MaxQueries]
Failure(id) == [ok |-> FALSE, name |-> NoName, id |-> id]
Success(name, id) == [ok |-> TRUE, name |-> name, id |-> id]

\* A pa_operation: "sent" to the server, "replied" once its callback is due, and
\* "eol" when the end-of-list call of a sink lookup is.
Operation == [id : 1 .. MaxQueries, asked : Name, alarm : Address,
              phase : {"sent", "replied", "eol"}, answer : Answer]

\* The default sink is asked for without a name.
AsksDefault(op) == op.asked = NoName

TypeOK ==
  /\ place \in {"idle", "default", "monitor"}
  /\ waiting \in {"none", "test", "hold", "blocked"}
  /\ requested \in Sink \cup {NoSink}
  /\ sink \in Name
  /\ outcome \in {"none", "ok", "failed"}
  /\ out \in [sink : Name, monitor : Name]
  /\ alarm \in Address \cup {NoAddress}
  /\ raised \in BOOLEAN
  /\ value \in Answer
  /\ operations \subseteq Operation
  /\ notifying \in Address \cup {NoAddress}
  /\ up \in BOOLEAN
  /\ defaultSink \in Sink \cup {NoSink}
  /\ queries \in 0 .. MaxQueries /\ moves \in 0 .. MaxMoves
  /\ seen \subseteq Sink \cup {NoSink}
  /\ outlived \in BOOLEAN /\ stray \in BOOLEAN
  /\ place # "idle" <=> waiting # "none"
  /\ waiting # "none" <=> alarm # NoAddress

Init ==
  /\ place = "idle" /\ waiting = "none"
  /\ requested \in Sink \cup {NoSink}
  /\ sink = NoName
  /\ outcome = "none"
  /\ out = [sink |-> NoName, monitor |-> NoName]
  /\ alarm = NoAddress
  /\ raised = FALSE
  /\ value = Failure(0)
  /\ operations = {}
  /\ notifying = NoAddress
  /\ up = TRUE
  /\ defaultSink \in Sink \cup {NoSink}
  /\ queries = 0 /\ moves = 0
  /\ seen = {}
  /\ outlived = FALSE /\ stray = FALSE

-----------------------------------------------------------------------------
(* The caller: resolve_target(), query_default_sink() and query_monitor(). *)

\* A query begins: make_alarm(), and an operation that is given its address.  The
\* address may be one that an earlier alarm had.
Ask(query, name) ==
  \E a \in Address :
    /\ place' = query
    /\ waiting' = "test"
    /\ alarm' = a
    /\ raised' = FALSE
    /\ value' = Failure(queries + 1)
    /\ queries' = queries + 1
    /\ operations' = operations \cup
         {[id |-> queries + 1, asked |-> name, alarm |-> a, phase |-> "sent",
           answer |-> Failure(queries + 1)]}

AlarmKept == waiting' = "none" /\ UNCHANGED alarmVars
\* The query is over and with it its alarm.
AlarmGone ==
  /\ waiting' = "none"
  /\ alarm' = NoAddress
  /\ raised' = FALSE
  /\ value' = Failure(0)

Fails ==
  /\ place' = "idle"
  /\ outcome' = "failed"
  /\ sink' = NoName
  /\ AlarmGone
  /\ UNCHANGED <<out, operations, queries>>

\* The queries a call may make.
Needed == IF requested = NoSink THEN 2 ELSE 1

\* Without a requested sink the default one is asked for first.  A context that is
\* not ready fails the call at once.
ResolveCall ==
  /\ place = "idle"
  /\ queries + Needed <= MaxQueries
  /\ seen' = {defaultSink}
  /\ IF ~up
     THEN /\ outcome' = "failed"
          /\ UNCHANGED <<place, waiting, sink, alarmVars, operations, queries>>
     ELSE /\ outcome' = "none"
          /\ sink' = SinkName(requested)
          /\ Ask(IF requested = NoSink THEN "default" ELSE "monitor", SinkName(requested))
  /\ out' = [sink |-> NoName, monitor |-> NoName]
  /\ UNCHANGED <<requested, notifying, up, defaultSink, moves, outlived, stray>>

LookUpRequested == SinkName(requested)
\* The sink whose monitor is looked up once the default sink is known.
LookUp == value.name

\* wait() has a value, and the query returns.  An empty default sink fails; a
\* context that was lost meanwhile gives no operation for the second query.
Take ==
  /\ raised
  /\ \/ /\ ~value.ok \/ (place = "default" /\ (value.name = NoName \/ ~up))
        /\ Fails
     \/ /\ value.ok /\ place = "default" /\ value.name # NoName /\ up
        /\ sink' = value.name
        /\ Ask("monitor", LookUp)
        /\ UNCHANGED <<outcome, out>>
     \/ /\ value.ok /\ place = "monitor"
        /\ place' = "idle"
        /\ outcome' = "ok"
        /\ out' = [sink |-> sink, monitor |-> value.name]
        /\ sink' = NoName
        /\ AlarmGone
        /\ UNCHANGED <<operations, queries>>
  /\ UNCHANGED <<requested, notifying, up, defaultSink, moves, historyVars>>

\* wait_for() tries its predicate with _lock held, and lets go of it in its sleep.
WaitTakes == waiting = "test" /\ Take

WaitHolds ==
  /\ waiting = "test" /\ ~raised
  /\ waiting' = "hold"
  /\ UNCHANGED <<place, requested, sink, outcome, out, alarmVars, libVars, worldVars, historyVars>>

WaitBlocks ==
  /\ waiting = "hold"
  /\ waiting' = "blocked"
  /\ UNCHANGED <<place, requested, sink, outcome, out, alarmVars, libVars, worldVars, historyVars>>

\* Operations that have yet to bring the alarm at address a its answer.
Unanswered(a) == {op \in operations : op.alarm = a /\ op.phase # "eol"}

WaitForever == FALSE
\* kQueryTimeout passes, whatever has been heard.
MayTimeOut == waiting = "blocked"

\* An answer that is there after all counts; otherwise the query gives up, and
\* leaves its operation behind.
WaitTimeout ==
  /\ MayTimeOut
  /\ \/ Take
     \/ /\ ~raised
        /\ Fails
        /\ outlived' = (outlived \/ Unanswered(alarm) # {})
        /\ UNCHANGED <<requested, notifying, up, defaultSink, moves, seen, stray>>

-----------------------------------------------------------------------------
(* libpulse and the callbacks it makes on the main loop thread. *)

\* The server answers as things are then; it may fail any lookup.
ServerReplies(op) ==
  /\ op.phase = "sent"
  /\ \E answer \in {Failure(op.id)}
          \cup (IF AsksDefault(op) THEN {Success(SinkName(defaultSink), op.id)} ELSE {})
          \cup {Success(Monitor(s), op.id) : s \in {t \in Sink : op.asked = SinkName(t)}} :
       operations' = (operations \ {op}) \cup
                       {[op EXCEPT !.phase = "replied", !.answer = answer]}
  /\ UNCHANGED <<callerVars, alarmVars, notifying, up, worldVars, historyVars>>

RingsAlways(op) == TRUE
\* The end-of-list call says nothing.
Rings(op) == op.phase = "replied"

\* After the sink, or a failure that is not the server's, comes the end of the list.
Afterwards(op) ==
  IF op.phase = "eol" \/ AsksDefault(op) THEN {operations \ {op}}
  ELSE {(operations \ {op}) \cup {[op EXCEPT !.phase = "eol", !.answer = Failure(op.id)]}}
       \cup (IF op.answer.ok THEN {} ELSE {operations \ {op}})

\* What this does to memory that is no longer an alarm goes unnoticed here.  It may
\* as well end the process, after which nothing is left to say.
Strays == stray' = TRUE /\ UNCHANGED <<callerVars, alarmVars>>

RingWithoutLock == TRUE
\* try_ring() takes _lock, which the waiter holds between its predicate and its wait.
LockFree == waiting # "hold"

\* A callback runs; the main loop runs one at a time.  A try_ring() that finds the
\* alarm raised does nothing.
CallbackRuns(op) ==
  /\ notifying = NoAddress
  /\ op.phase # "sent"
  /\ operations' \in Afterwards(op)
  /\ \/ /\ Rings(op) /\ op.alarm = alarm /\ ~raised
        /\ LockFree
        /\ raised' = TRUE
        /\ value' = op.answer
        /\ notifying' = alarm
        /\ UNCHANGED <<callerVars, alarm, stray>>
     \/ /\ Rings(op) /\ op.alarm = alarm /\ raised
        /\ UNCHANGED <<callerVars, alarmVars, notifying, stray>>
     \/ /\ Rings(op) /\ op.alarm # alarm
        /\ Strays
        /\ UNCHANGED notifying
     \/ /\ ~Rings(op)
        /\ UNCHANGED <<callerVars, alarmVars, notifying, stray>>
  /\ UNCHANGED <<up, worldVars, seen, outlived>>

\* The notify_all() of try_ring(), after the unlock.  The waiter that has taken the
\* value meanwhile has freed the alarm.
CallbackNotifies ==
  /\ notifying # NoAddress
  /\ notifying' = NoAddress
  /\ IF notifying = alarm
     THEN /\ waiting' = IF waiting = "blocked" THEN "test" ELSE waiting
          /\ UNCHANGED <<place, requested, sink, outcome, out, alarmVars, stray>>
     ELSE Strays
  /\ UNCHANGED <<operations, up, worldVars, seen, outlived>>

\* The connection is lost, or shut down: libpulse drops what is outstanding and
\* makes no callback for it.
ContextGone ==
  /\ up
  /\ up' = FALSE
  /\ operations' = {}
  /\ UNCHANGED <<callerVars, alarmVars, notifying, worldVars, historyVars>>

\* The user chooses another default sink, or takes the last one away.
MoveDefault ==
  /\ moves < MaxMoves
  /\ moves' = moves + 1
  /\ defaultSink' \in (Sink \cup {NoSink}) \ {defaultSink}
  /\ seen' = seen \cup {defaultSink'}
  /\ UNCHANGED <<callerVars, alarmVars, libVars, queries, outlived, stray>>

-----------------------------------------------------------------------------
WaitStep == WaitTakes \/ WaitHolds \/ WaitBlocks \/ WaitTimeout

CallbackStep ==
  \/ \E op \in operations : ServerReplies(op) \/ CallbackRuns(op)
  \/ CallbackNotifies

\* Nobody asks any more.
Over == place = "idle" /\ queries + Needed > MaxQueries /\ UNCHANGED vars

Next ==
  \/ ResolveCall
  \/ WaitStep
  \/ CallbackStep
  \/ ContextGone \/ MoveDefault
  \/ Over

Spec == Init /\ [][Next]_vars

\* The caller's thread runs and its timeout passes; nothing need ever answer.
FairSpec == Spec /\ WF_vars(WaitStep)

-----------------------------------------------------------------------------
\* A waiter that sleeps though its answer is there has a notification on its way:
\* alarm_t raises under the lock the waiter tests under.
NoLostAnswer == waiting = "blocked" /\ raised => notifying = alarm

\* "only the first result is kept": a query sees the answer to its own operation,
\* never the end of an earlier list, unless an earlier query was outlived.
OwnAnswer == raised /\ ~outlived => value.id = queries

\* The sinks a call may name.
Candidates == IF requested = NoSink THEN seen \ {NoSink} ELSE {requested}

\* resolve_target() names the requested sink, or one that was the default while it
\* ran, and that sink's monitor, unless a query was outlived by its operation.
TargetWasRight ==
  outcome = "ok" /\ ~outlived =>
    \E s \in Candidates :
      out = [sink |-> SinkName(s), monitor |-> Monitor(s)]

\* "a missing callback surfaces as a timeout instead of hanging the caller".
QueryReturns == (waiting # "none") ~> (waiting = "none")

\* primitives.h: an alarm is shared "so raw pointers handed to PulseAudio callbacks
\* stay valid for the lifetime of the request".
AlarmOutlivesCallbacks == ~stray
=============================================================================
