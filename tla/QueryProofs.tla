----------------------------- MODULE QueryProofs -----------------------------
(***************************************************************************)
(* What module Query keeps in every state, for every number of sinks,      *)
(* addresses and queries.                                                  *)
(***************************************************************************)
EXTENDS Query, TLAPS

(***************************************************************************)
(* The inductive invariant.  What is rung is right because every operation *)
(* that can still ring belongs to the query in progress, for as long as no *)
(* query was outlived by its operation.                                    *)
(***************************************************************************)

\* A name that answers the query in progress.
Right(name) ==
  IF place = "default"
  THEN \E s \in seen : name = SinkName(s)
  ELSE \E s \in Sink : sink = SinkName(s) /\ name = Monitor(s)

\* Operations are those of queries that were made, one for each.
OneOperationEach ==
  /\ \A op \in operations : op.id <= queries /\ op.answer.id = op.id
  /\ \A a, b \in operations : a.id = b.id => a = b

\* An operation that has yet to ring is that of the query in progress, and what
\* it will ring with is right.
RingersAreCurrent ==
  ~outlived => \A op \in operations :
    op.phase # "eol" =>
      /\ place # "idle" /\ ~raised
      /\ op.id = queries
      /\ op.alarm = alarm
      /\ op.asked = sink
      /\ op.phase = "replied" /\ op.answer.ok => Right(op.answer.name)

\* So what was rung is right.
ValueIsRight ==
  ~outlived /\ raised => value.id = queries /\ (value.ok => Right(value.name))

\* The name looked up is a sink that the call may name.
SinkIsCandidate ==
  /\ place = "default" => requested = NoSink /\ sink = NoName
  /\ place = "monitor" /\ ~outlived => \E s \in Candidates : sink = SinkName(s)
  /\ place # "idle" => defaultSink \in seen /\ outcome = "none"

\* Nothing is raised between queries.
RaisedOnlyInQuery == place = "idle" => ~raised

\* A call that asks for the default sink has been left a query for its monitor.
DefaultLeavesOne == place = "default" => queries < MaxQueries

\* The lock is held only over an alarm that has not been raised.
HeldUnraised == waiting = "hold" => ~raised

IInv ==
  /\ TypeOK
  /\ OneOperationEach
  /\ RingersAreCurrent
  /\ ValueIsRight
  /\ SinkIsCandidate
  /\ TargetWasRight
  /\ RaisedOnlyInQuery
  /\ DefaultLeavesOne
  /\ HeldUnraised
  /\ NoLostAnswer

-----------------------------------------------------------------------------
(* Names, answers and operations. *)

LEMMA Names ==
  /\ NoName \in Name
  /\ \A s \in Sink \cup {NoSink} : SinkName(s) \in Name /\ Monitor(s) \in Name
  /\ \A s, t : SinkName(s) = SinkName(t) => s = t
  /\ \A s, t : SinkName(s) # Monitor(t)
  BY DEF Name, NoName, SinkName, Monitor

LEMMA Answers ==
  ASSUME NEW id \in 0 .. MaxQueries, NEW name \in Name
  PROVE  /\ Failure(id) \in Answer /\ Success(name, id) \in Answer
         /\ Failure(id).id = id /\ ~Failure(id).ok
         /\ Success(name, id).id = id /\ Success(name, id).ok /\ Success(name, id).name = name
  BY Names DEF Failure, Success, Answer

\* What a callback leaves of its operation no longer rings.
LEMMA AfterwardsSilent ==
  ASSUME TypeOK, NEW op \in operations, NEW S \in Afterwards(op)
  PROVE  \E e \in Operation :
           /\ e.phase = "eol" /\ e.id = op.id /\ e.answer.id = e.id
           /\ S \subseteq (operations \ {op}) \cup {e}
<1> DEFINE e == [op EXCEPT !.phase = "eol", !.answer = Failure(op.id)]
<1>1. op \in Operation /\ op.id \in 0 .. MaxQueries
  BY QueryAssumption DEF TypeOK, Operation
<1>2. Failure(op.id) \in Answer /\ Failure(op.id).id = op.id
  BY <1>1, Answers, Names
<1>3. e \in Operation /\ e.phase = "eol" /\ e.id = op.id /\ e.answer.id = e.id
  BY <1>1, <1>2 DEF Operation
<1>4. S = operations \ {op} \/ S = (operations \ {op}) \cup {e}
  BY DEF Afterwards
<1> QED BY <1>3, <1>4

LEMMA QueryInit == Init => IInv
<1> SUFFICES ASSUME Init PROVE IInv
  OBVIOUS
<1>1. Failure(0) \in Answer /\ 0 \in 0 .. MaxQueries /\ 0 \in 0 .. MaxMoves
  BY Answers, Names, QueryAssumption
<1>2. TypeOK
  BY <1>1, Names, QueryAssumption DEF Init, TypeOK
<1> QED BY <1>2 DEF Init, IInv, OneOperationEach, RingersAreCurrent, ValueIsRight, SinkIsCandidate,
      TargetWasRight, HeldUnraised, NoLostAnswer, RaisedOnlyInQuery, DefaultLeavesOne

-----------------------------------------------------------------------------
(* The caller's steps. *)

\* The operation of a query that begins is the only one that can ring.
LEMMA AskIInv ==
  ASSUME IInv, NEW query \in {"default", "monitor"}, NEW name \in Name,
         Ask(query, name), queries < MaxQueries,
         query = "default" => queries + 2 <= MaxQueries,
         ~outlived => \A op \in operations : op.phase = "eol",
         sink' = name, UNCHANGED <<requested, notifying, outlived, defaultSink>>,
         outcome' = "none",
         query = "default" => requested = NoSink /\ name = NoName,
         query = "monitor" /\ ~outlived => \E s \in Candidates' : name = SinkName(s),
         defaultSink \in seen', seen' \subseteq Sink \cup {NoSink},
         out' \in [sink : Name, monitor : Name],
         UNCHANGED <<up, moves, stray>>
  PROVE  IInv'
<1> DEFINE id == queries + 1
<1>0. /\ queries \in 0 .. MaxQueries /\ MaxQueries \in Nat
      /\ id \in 0 .. MaxQueries /\ id \in 1 .. MaxQueries
      /\ queries' = id
  BY QueryAssumption DEF IInv, TypeOK, Ask
<1>1. Failure(id) \in Answer /\ Failure(id).id = id /\ ~Failure(id).ok
  BY <1>0, Answers, Names
<1>2. PICK a \in Address :
        /\ place' = query /\ waiting' = "test" /\ alarm' = a /\ raised' = FALSE
        /\ value' = Failure(id)
        /\ operations' = operations \cup
             {[id |-> id, asked |-> name, alarm |-> a, phase |-> "sent", answer |-> Failure(id)]}
  BY DEF Ask
<1> DEFINE new == [id |-> id, asked |-> name, alarm |-> a, phase |-> "sent", answer |-> Failure(id)]
<1>3. /\ new \in Operation /\ new.id = id /\ new.asked = name /\ new.phase = "sent"
      /\ new.answer.id = new.id
  BY <1>0, <1>1, <1>2 DEF Operation
<1>4. operations' = operations \cup {new}
  BY <1>2
<1> HIDE DEF new
<1>5. TypeOK'
  <2>1. operations' \subseteq Operation
    BY <1>3, <1>4 DEF IInv, TypeOK
  <2> QED BY <2>1, <1>0, <1>1, <1>2, QueryAssumption DEF IInv, TypeOK
<1>6. OneOperationEach'
  <2>1. \A op \in operations : op.id <= queries /\ op.id \in Int
    BY DEF IInv, OneOperationEach, TypeOK, Operation
  <2>2. \A op \in operations : op.id # id /\ op.id <= id
    BY <2>1, <1>0
  <2> QED BY <2>2, <1>0, <1>3, <1>4 DEF IInv, OneOperationEach
<1>7. RingersAreCurrent'
  BY <1>0, <1>2, <1>3, <1>4 DEF RingersAreCurrent
<1>8. ValueIsRight' /\ HeldUnraised' /\ NoLostAnswer' /\ RaisedOnlyInQuery'
  BY <1>2 DEF ValueIsRight, HeldUnraised, NoLostAnswer, RaisedOnlyInQuery, DefaultLeavesOne
<1>9. SinkIsCandidate'
  BY <1>2 DEF SinkIsCandidate
<1>10. TargetWasRight'
  BY DEF TargetWasRight
<1>11. DefaultLeavesOne'
  BY <1>0, <1>2 DEF DefaultLeavesOne
<1> QED BY <1>5, <1>6, <1>7, <1>8, <1>9, <1>10, <1>11 DEF IInv

LEMMA ResolveCallIInv ==
  ASSUME IInv, ResolveCall
  PROVE  IInv'
<1>0. queries \in 0 .. MaxQueries /\ MaxQueries \in Nat /\ queries < MaxQueries /\ place = "idle"
      /\ (requested = NoSink => queries + 2 <= MaxQueries)
  BY QueryAssumption DEF IInv, TypeOK, ResolveCall, Needed
<1>1. out' \in [sink : Name, monitor : Name] /\ seen' = {defaultSink}
      /\ seen' \subseteq Sink \cup {NoSink}
  BY Names DEF IInv, TypeOK, ResolveCall
<1>2. ~outlived => \A op \in operations : op.phase = "eol"
  BY <1>0 DEF IInv, RingersAreCurrent
<1>3. CASE ~up
  <2>1. outcome' = "failed" /\ UNCHANGED <<place, waiting, sink, alarmVars, operations, queries>>
        /\ UNCHANGED <<requested, notifying, up, defaultSink, moves, outlived, stray>>
    BY <1>3 DEF ResolveCall
  <2>2. TypeOK'
    BY <1>1, <2>1 DEF IInv, TypeOK, alarmVars
  <2>3. RingersAreCurrent'
    BY <1>2, <2>1 DEF RingersAreCurrent
  <2>4. ValueIsRight'
    <3>1. ~raised
      BY <1>0 DEF IInv, TypeOK, RaisedOnlyInQuery
    <3> QED BY <3>1, <2>1 DEF ValueIsRight, alarmVars
  <2> QED BY <1>0, <2>1, <2>2, <2>3, <2>4
         DEF IInv, OneOperationEach, SinkIsCandidate, TargetWasRight, HeldUnraised, NoLostAnswer,
             RaisedOnlyInQuery, DefaultLeavesOne, alarmVars
<1>4. CASE up
  <2>1. /\ outcome' = "none" /\ sink' = SinkName(requested)
        /\ Ask(IF requested = NoSink THEN "default" ELSE "monitor", SinkName(requested))
        /\ UNCHANGED <<requested, notifying, up, defaultSink, moves, outlived, stray>>
    BY <1>4 DEF ResolveCall
  <2>2. requested \in Sink \cup {NoSink} /\ SinkName(requested) \in Name
    BY Names DEF IInv, TypeOK
  <2>3. CASE requested = NoSink
    <3>1. Ask("default", SinkName(requested)) /\ SinkName(requested) = NoName
      BY <2>1, <2>3 DEF NoName
    <3> QED BY <1>0, <1>1, <1>2, <2>1, <2>2, <2>3, <3>1, AskIInv
  <2>4. CASE requested # NoSink
    <3>1. Ask("monitor", SinkName(requested))
      BY <2>1, <2>4
    <3>2. \E s \in Candidates' : SinkName(requested) = SinkName(s)
      BY <2>1, <2>4 DEF Candidates
    <3> QED BY <1>0, <1>1, <1>2, <2>1, <2>2, <2>4, <3>1, <3>2, AskIInv
  <2> QED BY <2>3, <2>4
<1> QED BY <1>3, <1>4

\* A query that ends without a target, and leaves nothing that can ring unless it
\* is outlived.
LEMMA FailsIInv ==
  ASSUME IInv, Fails, ~outlived' => ~outlived /\ \A op \in operations : op.phase = "eol",
         outlived' \in BOOLEAN,
         UNCHANGED <<requested, notifying, up, defaultSink, moves, seen, stray>>
  PROVE  IInv'
<1>1. /\ place' = "idle" /\ outcome' = "failed" /\ sink' = NoName
      /\ waiting' = "none" /\ alarm' = NoAddress /\ raised' = FALSE /\ value' = Failure(0)
      /\ UNCHANGED <<out, operations, queries>>
  BY DEF Fails, AlarmGone
<1>2. TypeOK'
  <2>1. Failure(0) \in Answer
    BY Answers, Names, QueryAssumption
  <2> QED BY <1>1, <2>1, Names DEF IInv, TypeOK
<1>3. RingersAreCurrent'
  BY <1>1 DEF RingersAreCurrent
<1> QED BY <1>1, <1>2, <1>3
       DEF IInv, OneOperationEach, ValueIsRight, SinkIsCandidate, TargetWasRight, HeldUnraised,
           NoLostAnswer, RaisedOnlyInQuery, DefaultLeavesOne

LEMMA TakeIInv ==
  ASSUME IInv, Take, place # "idle"
  PROVE  IInv'
<1>0. raised /\ UNCHANGED <<requested, notifying, up, defaultSink, moves, seen, outlived, stray>>
  BY DEF Take, historyVars
<1>1. ~outlived => \A op \in operations : op.phase = "eol"
  BY <1>0 DEF IInv, RingersAreCurrent
<1>2. value \in Answer /\ value.name \in Name
  BY DEF IInv, TypeOK, Answer
<1>3. CASE Fails
  BY <1>0, <1>1, <1>3, FailsIInv DEF IInv, TypeOK
<1>4. CASE /\ value.ok /\ place = "default" /\ value.name # NoName /\ up
           /\ sink' = value.name
           /\ Ask("monitor", LookUp)
           /\ UNCHANGED <<outcome, out>>
  <2>1. ~outlived => \E s \in Candidates' : value.name = SinkName(s)
    BY <1>0, <1>4 DEF IInv, ValueIsRight, Right, SinkIsCandidate, Candidates, NoName
  <2>2. queries < MaxQueries
    BY <1>4 DEF IInv, TypeOK, DefaultLeavesOne
  <2>3. outcome' = "none" /\ defaultSink \in seen' /\ seen' \subseteq Sink \cup {NoSink}
        /\ out' \in [sink : Name, monitor : Name]
    BY <1>0, <1>4 DEF IInv, SinkIsCandidate, TypeOK
  <2> QED BY <1>0, <1>1, <1>2, <1>4, <2>1, <2>2, <2>3, AskIInv DEF LookUp
<1>5. CASE /\ value.ok /\ place = "monitor"
           /\ place' = "idle"
           /\ outcome' = "ok"
           /\ out' = [sink |-> sink, monitor |-> value.name]
           /\ sink' = NoName
           /\ AlarmGone
           /\ UNCHANGED <<operations, queries>>
  <2>1. /\ waiting' = "none" /\ alarm' = NoAddress /\ raised' = FALSE /\ value' = Failure(0)
    BY <1>5 DEF AlarmGone
  <2>2. TypeOK'
    <3>1. Failure(0) \in Answer
      BY Answers, Names, QueryAssumption
    <3> QED BY <1>0, <1>2, <1>5, <2>1, <3>1, Names DEF IInv, TypeOK
  <2>3. TargetWasRight'
    <3>1. SUFFICES ASSUME ~outlived
                   PROVE  \E s \in Candidates : out' = [sink |-> SinkName(s), monitor |-> Monitor(s)]
      BY <1>0 DEF TargetWasRight, Candidates
    <3>2. PICK s \in Candidates : sink = SinkName(s)
      BY <3>1, <1>5 DEF IInv, SinkIsCandidate
    <3>3. PICK t \in Sink : sink = SinkName(t) /\ value.name = Monitor(t)
      BY <3>1, <1>0, <1>5 DEF IInv, ValueIsRight, Right
    <3> QED BY <1>5, <3>2, <3>3, Names
  <2>4. RingersAreCurrent'
    BY <1>0, <1>1, <1>5 DEF RingersAreCurrent
  <2> QED BY <1>0, <1>5, <2>1, <2>2, <2>3, <2>4
         DEF IInv, OneOperationEach, ValueIsRight, SinkIsCandidate, HeldUnraised, NoLostAnswer,
             RaisedOnlyInQuery, DefaultLeavesOne
<1> QED BY <1>3, <1>4, <1>5 DEF Take

LEMMA WaitIInv ==
  ASSUME IInv, WaitStep
  PROVE  IInv'
<1>1. CASE WaitTakes
  BY <1>1, TakeIInv DEF WaitTakes, IInv, TypeOK
<1>2. CASE WaitHolds \/ WaitBlocks
  <2>1. UNCHANGED <<place, requested, sink, outcome, out, alarmVars, libVars, worldVars, historyVars>>
    BY <1>2 DEF WaitHolds, WaitBlocks
  <2>2. waiting # "none" /\ waiting' \in {"hold", "blocked"} /\ ~raised
    BY <1>2 DEF WaitHolds, WaitBlocks, IInv, HeldUnraised
  <2>3. TypeOK'
    BY <2>1, <2>2 DEF IInv, TypeOK, alarmVars, libVars, worldVars, historyVars
  <2> QED BY <2>1, <2>2, <2>3
         DEF IInv, OneOperationEach, RingersAreCurrent, Right, ValueIsRight, SinkIsCandidate,
             TargetWasRight, Candidates, HeldUnraised, NoLostAnswer, RaisedOnlyInQuery,
             DefaultLeavesOne, alarmVars, libVars, worldVars, historyVars
<1>3. CASE WaitTimeout
  <2>0. place # "idle"
    BY <1>3 DEF WaitTimeout, MayTimeOut, IInv, TypeOK
  <2>1. CASE Take
    BY <2>0, <2>1, TakeIInv
  <2>2. CASE /\ ~raised
             /\ Fails
             /\ outlived' = (outlived \/ Unanswered(alarm) # {})
             /\ UNCHANGED <<requested, notifying, up, defaultSink, moves, seen, stray>>
    <3>1. outlived' \in BOOLEAN /\ (~outlived' => ~outlived /\ Unanswered(alarm) = {})
      BY <2>2 DEF IInv, TypeOK
    <3>2. ~outlived => \A op \in operations : op.phase # "eol" => op.alarm = alarm
      BY DEF IInv, RingersAreCurrent
    <3>3. ~outlived' => \A op \in operations : op.phase = "eol"
      BY <3>1, <3>2 DEF Unanswered
    <3> QED BY <2>2, <3>1, <3>3, FailsIInv
  <2> QED BY <1>3, <2>1, <2>2 DEF WaitTimeout
<1> QED BY <1>1, <1>2, <1>3 DEF WaitStep
-----------------------------------------------------------------------------
(* The server's and the callbacks' steps. *)

\* What the server answers is right: the default sink as it is then, which the
\* call has seen, or the monitor of the sink that was looked up.
LEMMA ServerIInv ==
  ASSUME IInv, NEW op \in operations, ServerReplies(op)
  PROVE  IInv'
<1>0. UNCHANGED <<callerVars, alarmVars, notifying, up, worldVars, historyVars>>
  BY DEF ServerReplies
<1>1. op \in Operation /\ op.id \in 0 .. MaxQueries /\ op.phase = "sent"
  BY QueryAssumption DEF IInv, TypeOK, Operation, ServerReplies
<1>2. PICK answer \in {Failure(op.id)}
          \cup (IF AsksDefault(op) THEN {Success(SinkName(defaultSink), op.id)} ELSE {})
          \cup {Success(Monitor(s), op.id) : s \in {t \in Sink : op.asked = SinkName(t)}} :
        operations' = (operations \ {op}) \cup
                        {[op EXCEPT !.phase = "replied", !.answer = answer]}
  BY DEF ServerReplies
<1> DEFINE new == [op EXCEPT !.phase = "replied", !.answer = answer]
<1>3. /\ answer \in Answer /\ answer.id = op.id
      /\ answer.ok => \/ op.asked = NoName /\ answer.name = SinkName(defaultSink)
                      \/ \E s \in Sink : op.asked = SinkName(s) /\ answer.name = Monitor(s)
  <2>1. CASE answer = Failure(op.id)
    BY <2>1, <1>1, Answers, Names
  <2>2. CASE AsksDefault(op) /\ answer = Success(SinkName(defaultSink), op.id)
    <3>1. SinkName(defaultSink) \in Name
      BY Names DEF IInv, TypeOK
    <3> QED BY <2>2, <3>1, <1>1, Answers DEF AsksDefault
  <2>3. CASE answer \in {Success(Monitor(s), op.id) : s \in {t \in Sink : op.asked = SinkName(t)}}
    <3>1. PICK s \in Sink : op.asked = SinkName(s) /\ answer = Success(Monitor(s), op.id)
      BY <2>3
    <3>2. Monitor(s) \in Name
      BY Names
    <3> QED BY <3>1, <3>2, <1>1, Answers
  <2> QED BY <2>1, <2>2, <2>3, <1>2
<1>4. /\ new \in Operation /\ new.id = op.id /\ new.alarm = op.alarm /\ new.asked = op.asked
      /\ new.phase = "replied" /\ new.answer = answer
  BY <1>1, <1>3 DEF Operation
<1>5. operations' = (operations \ {op}) \cup {new}
  BY <1>2
<1> HIDE DEF new
<1>6. TypeOK'
  <2>1. operations' \subseteq Operation
    BY <1>4, <1>5 DEF IInv, TypeOK
  <2> QED BY <2>1, <1>0 DEF IInv, TypeOK, callerVars, alarmVars, worldVars, historyVars
<1>7. OneOperationEach'
  <2>1. queries' = queries
    BY <1>0 DEF worldVars
  <2> QED BY <2>1, <1>3, <1>4, <1>5 DEF IInv, OneOperationEach
<1>8. RingersAreCurrent'
  <2>1. UNCHANGED <<place, sink, seen, queries, alarm, raised, outlived>>
    BY <1>0 DEF callerVars, alarmVars, worldVars, historyVars
  <2>2. SUFFICES ASSUME ~outlived
                 PROVE  \A o \in operations' : o.phase # "eol" =>
                          /\ place # "idle" /\ ~raised
                          /\ o.id = queries /\ o.alarm = alarm /\ o.asked = sink
                          /\ o.phase = "replied" /\ o.answer.ok => Right(o.answer.name)
    BY <2>1 DEF RingersAreCurrent, Right
  <2>3. place # "idle" /\ ~raised /\ op.id = queries /\ op.alarm = alarm /\ op.asked = sink
    BY <2>2, <1>1 DEF IInv, RingersAreCurrent
  <2>4. answer.ok => Right(answer.name)
    <3>1. CASE place = "default"
      <4>1. sink = NoName /\ defaultSink \in seen
        BY <3>1 DEF IInv, SinkIsCandidate
      <4>2. \A s \in Sink : SinkName(s) # NoName
        BY Names, QueryAssumption DEF NoName
      <4> QED BY <3>1, <4>1, <4>2, <2>3, <1>3 DEF Right
    <3>2. CASE place = "monitor"
      <4>1. sink # NoName
        BY <3>2, <2>2, Names, QueryAssumption DEF IInv, SinkIsCandidate, Candidates, NoName, TypeOK
      <4> QED BY <3>2, <4>1, <2>3, <1>3 DEF Right
    <3> QED BY <3>1, <3>2, <2>3 DEF IInv, TypeOK
  <2> QED BY <2>2, <2>3, <2>4, <1>4, <1>5 DEF IInv, RingersAreCurrent
<1> QED BY <1>0, <1>6, <1>7, <1>8
       DEF IInv, ValueIsRight, Right, SinkIsCandidate, Candidates, TargetWasRight,
           RaisedOnlyInQuery, DefaultLeavesOne, HeldUnraised, NoLostAnswer,
           callerVars, alarmVars, worldVars, historyVars

\* A callback's operation is done with, and at most one alarm is rung: that of the
\* query it was made for, while nothing was outlived.
LEMMA CallbackIInv ==
  ASSUME IInv, NEW op \in operations, CallbackRuns(op)
  PROVE  IInv'
<1>0. /\ UNCHANGED <<up, worldVars, seen, outlived>>
      /\ UNCHANGED callerVars /\ alarm' = alarm
  BY DEF CallbackRuns, Strays, alarmVars
<1>1. op \in Operation /\ op.answer \in Answer /\ op.phase # "sent"
  BY DEF IInv, TypeOK, Operation, CallbackRuns
<1>2. PICK e \in Operation :
        /\ e.phase = "eol" /\ e.id = op.id /\ e.answer.id = e.id
        /\ operations' \subseteq (operations \ {op}) \cup {e}
  BY AfterwardsSilent DEF IInv, CallbackRuns
<1>3. OneOperationEach'
  <2>1. queries' = queries
    BY <1>0 DEF worldVars
  <2> QED BY <2>1, <1>2 DEF IInv, OneOperationEach
<1>4. UNCHANGED <<place, waiting, requested, sink, outcome, out, defaultSink, queries, moves, seen,
                  outlived>>
  BY <1>0 DEF callerVars, worldVars
\* Another operation that could still ring would be this one.
<1>5. ~outlived /\ op.phase # "eol" => \A o \in operations' : o.phase = "eol"
  <2>1. SUFFICES ASSUME ~outlived, op.phase # "eol", NEW o \in operations', o.phase # "eol"
                 PROVE  FALSE
    OBVIOUS
  <2>2. o \in operations /\ o # op
    BY <2>1, <1>2
  <2>3. o.id = queries /\ op.id = queries
    BY <2>1, <2>2 DEF IInv, RingersAreCurrent
  <2> QED BY <2>2, <2>3 DEF IInv, OneOperationEach
<1>6. CASE Rings(op) /\ op.alarm = alarm /\ ~raised
           /\ raised' = TRUE /\ value' = op.answer /\ notifying' = alarm /\ LockFree
           /\ UNCHANGED <<callerVars, alarm, stray>>
  <2>1. op.phase = "replied"
    BY <1>6 DEF Rings
  <2>2. alarm \in Address /\ waiting # "none" /\ place # "idle"
    BY <1>1, <1>6, QueryAssumption DEF IInv, TypeOK, Operation
  <2>3. TypeOK'
    BY <1>1, <1>2, <1>4, <1>0, <1>6, <2>2 DEF IInv, TypeOK
  <2>4. RingersAreCurrent'
    BY <1>4, <1>5, <2>1 DEF RingersAreCurrent
  <2>5. ValueIsRight'
    BY <1>4, <1>6, <2>1 DEF ValueIsRight, Right, IInv, RingersAreCurrent, OneOperationEach
  <2> QED BY <1>3, <1>4, <1>6, <2>2, <2>3, <2>4, <2>5
         DEF IInv, SinkIsCandidate, Candidates, TargetWasRight, RaisedOnlyInQuery, DefaultLeavesOne,
             HeldUnraised, NoLostAnswer, LockFree
<1>7. CASE UNCHANGED <<alarmVars, notifying>>
  <2>1. TypeOK'
    <3>1. stray' \in BOOLEAN
      BY DEF CallbackRuns, Strays, IInv, TypeOK
    <3> QED BY <3>1, <1>2, <1>4, <1>0, <1>7 DEF IInv, TypeOK, alarmVars
  <2>2. RingersAreCurrent'
    BY <1>2, <1>4, <1>7 DEF IInv, RingersAreCurrent, Right, alarmVars
  <2> QED BY <1>3, <1>4, <1>7, <2>1, <2>2
         DEF IInv, ValueIsRight, Right, SinkIsCandidate, Candidates, TargetWasRight,
             RaisedOnlyInQuery, DefaultLeavesOne, HeldUnraised, NoLostAnswer, alarmVars
<1> QED BY <1>6, <1>7 DEF CallbackRuns, Strays

LEMMA NotifiesIInv ==
  ASSUME IInv, CallbackNotifies
  PROVE  IInv'
<1>1. /\ notifying # NoAddress /\ notifying' = NoAddress
      /\ UNCHANGED <<operations, up, worldVars, seen, outlived>>
      /\ UNCHANGED <<place, requested, sink, outcome, out, alarmVars>>
  BY DEF CallbackNotifies, Strays, callerVars
<1>2. \/ notifying = alarm /\ waiting' = IF waiting = "blocked" THEN "test" ELSE waiting
      \/ notifying # alarm /\ waiting' = waiting
  BY DEF CallbackNotifies, Strays, callerVars
<1>3. stray' \in BOOLEAN
  BY DEF CallbackNotifies, Strays, IInv, TypeOK
<1>4. TypeOK'
  BY <1>1, <1>2, <1>3 DEF IInv, TypeOK, alarmVars, worldVars
<1>5. NoLostAnswer' /\ HeldUnraised'
  BY <1>1, <1>2 DEF IInv, NoLostAnswer, HeldUnraised, alarmVars
<1> QED BY <1>1, <1>4, <1>5
       DEF IInv, OneOperationEach, RingersAreCurrent, ValueIsRight, Right, SinkIsCandidate,
           Candidates, TargetWasRight, RaisedOnlyInQuery, DefaultLeavesOne, alarmVars, worldVars

LEMMA WorldIInv ==
  ASSUME IInv, ContextGone \/ MoveDefault
  PROVE  IInv'
<1>1. CASE ContextGone
  BY <1>1 DEF ContextGone, IInv, TypeOK, OneOperationEach, RingersAreCurrent, ValueIsRight, Right,
              SinkIsCandidate, Candidates, TargetWasRight, RaisedOnlyInQuery, DefaultLeavesOne,
              HeldUnraised, NoLostAnswer, callerVars, alarmVars, worldVars, historyVars
<1>2. CASE MoveDefault
  <2>1. /\ UNCHANGED <<callerVars, alarmVars, libVars, queries, outlived, stray>>
        /\ defaultSink' \in Sink \cup {NoSink} /\ seen' = seen \cup {defaultSink'}
        /\ moves < MaxMoves /\ moves' = moves + 1
    BY <1>2 DEF MoveDefault
  <2>2. TypeOK'
    BY <2>1, QueryAssumption DEF IInv, TypeOK, callerVars, alarmVars, libVars
  \* What was right stays right: seen only grows.
  <2>3. \A name : Right(name) => Right(name)'
    BY <2>1 DEF Right, callerVars
  <2>4. Candidates \subseteq Candidates' /\ defaultSink' \in seen'
    BY <2>1 DEF Candidates, callerVars
  <2>5. RingersAreCurrent' /\ ValueIsRight'
    BY <2>1, <2>3 DEF IInv, RingersAreCurrent, ValueIsRight, callerVars, alarmVars, libVars
  <2>6. SinkIsCandidate' /\ TargetWasRight'
    BY <2>1, <2>4 DEF IInv, SinkIsCandidate, TargetWasRight, callerVars
  <2> QED BY <2>1, <2>2, <2>5, <2>6
         DEF IInv, OneOperationEach, RaisedOnlyInQuery, DefaultLeavesOne, HeldUnraised,
             NoLostAnswer, callerVars, alarmVars, libVars
<1> QED BY <1>1, <1>2

LEMMA QueryStep == IInv /\ [Next]_vars => IInv'
<1> SUFFICES ASSUME IInv, [Next]_vars PROVE IInv'
  OBVIOUS
<1>1. CASE ResolveCall
  BY <1>1, ResolveCallIInv
<1>2. CASE WaitStep
  BY <1>2, WaitIInv
<1>3. CASE CallbackStep
  BY <1>3, ServerIInv, CallbackIInv, NotifiesIInv DEF CallbackStep
<1>4. CASE ContextGone \/ MoveDefault
  BY <1>4, WorldIInv
<1>5. CASE Over \/ UNCHANGED vars
  BY <1>5 DEF Over, IInv, TypeOK, OneOperationEach, RingersAreCurrent, ValueIsRight, Right,
              SinkIsCandidate, Candidates, TargetWasRight, RaisedOnlyInQuery, DefaultLeavesOne,
              HeldUnraised, NoLostAnswer, vars, callerVars, alarmVars, libVars, worldVars,
              historyVars
<1> QED BY <1>1, <1>2, <1>3, <1>4, <1>5 DEF Next

-----------------------------------------------------------------------------
\* The invariant holds in every state of a run of resolve_target() and its queries.
THEOREM QueryInvariant == Spec => []IInv
BY QueryInit, QueryStep, PTL DEF Spec

\* An alarm is there exactly while a query waits on it, and every variable of
\* resolve_target(), of the alarm and of libpulse has the type the code gives it.
THEOREM QueryTypeCorrect == Spec => []TypeOK
<1>1. IInv => TypeOK
  BY DEF IInv
<1> QED BY <1>1, QueryInvariant, PTL

\* alarm_t::wait() never sleeps on an answer nobody is about to notify: try_ring()
\* raises under the lock that wait() tests under.
THEOREM AnswersArrive == Spec => []NoLostAnswer
<1>1. IInv => NoLostAnswer
  BY DEF IInv
<1> QED BY <1>1, QueryInvariant, PTL

\* A query takes the answer to its own operation: the end-of-list call of a sink
\* lookup, and the callbacks of queries that returned, ring nothing.
THEOREM AnswersAreOwn == Spec => []OwnAnswer
<1>1. IInv => OwnAnswer
  BY DEF IInv, ValueIsRight, OwnAnswer
<1> QED BY <1>1, QueryInvariant, PTL

\* resolve_target() returns the requested sink, or one that was the default while it
\* ran, together with that sink's own monitor.
THEOREM TargetsAreRight == Spec => []TargetWasRight
<1>1. IInv => TargetWasRight
  BY DEF IInv
<1> QED BY <1>1, QueryInvariant, PTL
=============================================================================
