--------------------------- MODULE DropOldestQueue ---------------------------
(***************************************************************************)
(* What frame_queue_t promises its two users, stated without the ring, the *)
(* lock and the condition variable: a bounded first-in first-out queue of  *)
(* frames that makes room by discarding its oldest frame, counts what it   *)
(* discards, and once closed refuses frames but still hands out those it   *)
(* holds.  Module FrameQueue implements it; module Capture runs on it.     *)
(***************************************************************************)
EXTENDS Integers, Sequences

CONSTANTS Frame,      \* the frames the capture thread can produce
          NoFrame,    \* the value of an output that holds no frame, not in Frame
          Capacity,   \* frames the queue can hold, at least one
          MaxDropped  \* bound: losses are counted up to this number

VARIABLES frames,     \* the frames held, oldest first
          dropped,    \* frames discarded since the last pop
          closed,     \* close() was called
          popped      \* what the last pop returned

vars == <<frames, dropped, closed, popped>>

\* The three outcomes of pop(): a frame, a timeout, a closed and empty queue.
GotFrame == 1
TimedOut == 0
Closed   == -1

Init ==
  /\ frames = << >>
  /\ dropped = 0
  /\ closed = FALSE
  /\ popped = [result |-> TimedOut, frame |-> NoFrame, discarded |-> 0]

FullTooLate == Len(frames) > Capacity
Full == Len(frames) = Capacity

\* push() on an open queue: a full queue gives up its oldest frame.
Push(f) ==
  /\ ~closed
  /\ IF Full
     THEN /\ frames' = Append(Tail(frames), f)
          /\ dropped' = IF dropped < MaxDropped THEN dropped + 1 ELSE dropped
     ELSE /\ frames' = Append(frames, f)
          /\ UNCHANGED dropped
  /\ UNCHANGED <<closed, popped>>

\* push() on a closed queue returns at once.
PushRefused ==
  /\ closed
  /\ UNCHANGED vars

\* pop() after its wait: the oldest frame if there is one, and in every case
\* the number of frames discarded since the previous pop.
Pop ==
  /\ dropped' = 0
  /\ IF frames = << >>
     THEN /\ popped' = [result    |-> IF closed THEN Closed ELSE TimedOut,
                        frame     |-> NoFrame,
                        discarded |-> dropped]
          /\ UNCHANGED frames
     ELSE /\ popped' = [result    |-> GotFrame,
                        frame     |-> Head(frames),
                        discarded |-> dropped]
          /\ frames' = Tail(frames)
  /\ UNCHANGED closed

Close ==
  /\ closed' = TRUE
  /\ UNCHANGED <<frames, dropped, popped>>

Next ==
  \/ \E f \in Frame : Push(f)
  \/ PushRefused
  \/ Pop
  \/ Close

Spec == Init /\ [][Next]_vars
=============================================================================
