----------------------------- MODULE FrameQueue -----------------------------
(***************************************************************************)
(* frame_queue_t (src/src/frame_queue.h): the ring of frames between the   *)
(* capture thread, the one producer, and the caller of                     *)
(* weba_capture_read_frame(), the one consumer, with a third thread that   *)
(* closes it.  Every critical section of _lock is one step; what the code  *)
(* does after unlocking (the notifications) is a step of its own.          *)
(***************************************************************************)
EXTENDS Integers

CONSTANTS RequestedCapacity,  \* the capacity init() is asked for; zero is legal
          MaxFrames           \* bound: frames the producer pushes

ASSUME FrameQueueAssumption ==
  /\ RequestedCapacity \in Nat
  /\ MaxFrames \in Nat

VARIABLES storage,    \* _storage, one entry per slot
          readIndex,  \* _read_index
          count,      \* _count
          dropped,    \* _dropped
          closed,     \* _closed
          prod,       \* the producer: "idle", or "notify" after it unlocked
          closer,     \* the closing thread: "idle", or "notify" likewise
          cons,       \* the consumer: "idle", "waiting" on _cv, or "awake"
          popped,     \* what the consumer's last pop() returned
          accepted,   \* history: frames the queue has taken in
          delivered   \* history: the number of the last frame popped

queueVars   == <<storage, readIndex, count, dropped, closed>>
historyVars == <<accepted, delivered>>
vars == <<storage, readIndex, count, dropped, closed, prod, closer, cons, popped,
          accepted, delivered>>

\* Frames are told apart by their place in the order of capture; zero is the
\* content of a slot nothing was written to.
Frame   == 1 .. MaxFrames
NoFrame == 0

\* init() raises a capacity of zero to one.
Capacity == IF RequestedCapacity = 0 THEN 1 ELSE RequestedCapacity

Slot == 0 .. (Capacity - 1)

GotFrame == 1
TimedOut == 0
Closed   == -1

Outcome == [result : {GotFrame, TimedOut, Closed}, frame : Frame \cup {NoFrame},
            discarded : Nat]

\* The type invariant.
TypeOK ==
  /\ storage \in [Slot -> Frame \cup {NoFrame}]
  /\ readIndex \in Slot
  /\ count \in 0 .. Capacity
  /\ dropped \in Nat
  /\ closed \in BOOLEAN
  /\ prod \in {"idle", "notify"}
  /\ closer \in {"idle", "notify"}
  /\ cons \in {"idle", "waiting", "awake"}
  /\ popped \in Outcome
  /\ accepted \in 0 .. MaxFrames
  /\ delivered \in 0 .. MaxFrames

-----------------------------------------------------------------------------
\* The state init() leaves, which is the one the capture thread and the
\* consumer first see.
Init ==
  /\ storage = [s \in Slot |-> NoFrame]
  /\ readIndex = 0
  /\ count = 0
  /\ dropped = 0
  /\ closed = FALSE
  /\ prod = "idle"
  /\ closer = "idle"
  /\ cons = "idle"
  /\ popped = [result |-> TimedOut, frame |-> NoFrame, discarded |-> 0]
  /\ accepted = 0
  /\ delivered = 0

-----------------------------------------------------------------------------
(* The producer. *)

NextSlotNoWrap(s) == s + 1
\* The slot after s, and the slot n places after s.
NextSlot(s) == (s + 1) % Capacity
SlotAfter(s, n) == (s + n) % Capacity

MayPushWhenClosed == TRUE
\* push() goes on only if the queue is open.
MayPush == ~closed

CountNoLoss(full) == dropped
\* A full queue discards its oldest frame and counts it.
CountLoss(full) == IF full THEN dropped + 1 ELSE dropped

PushBeforeDiscard ==
  /\ prod = "idle"
  /\ MayPush
  /\ accepted < MaxFrames
  /\ LET full == count = Capacity
         held == IF full THEN count - 1 ELSE count
     IN  /\ storage' = [storage EXCEPT ![SlotAfter(readIndex, held)] = accepted + 1]
         /\ readIndex' = IF full THEN NextSlot(readIndex) ELSE readIndex
         /\ count' = held + 1
         /\ dropped' = CountLoss(full)
  /\ accepted' = accepted + 1
  /\ prod' = "notify"
  /\ UNCHANGED <<closed, closer, cons, popped, delivered>>
\* push() on an open queue, up to the unlock: the discard first, then the write
\* at the slot the discard leaves next.
Push ==
  /\ prod = "idle"
  /\ MayPush
  /\ accepted < MaxFrames
  /\ LET full == count = Capacity
         oldest == IF full THEN NextSlot(readIndex) ELSE readIndex
         held == IF full THEN count - 1 ELSE count
     IN  /\ storage' = [storage EXCEPT ![SlotAfter(oldest, held)] = accepted + 1]
         /\ readIndex' = oldest
         /\ count' = held + 1
         /\ dropped' = CountLoss(full)
  /\ accepted' = accepted + 1
  /\ prod' = "notify"
  /\ UNCHANGED <<closed, closer, cons, popped, delivered>>

\* push() on a closed queue: the early return.
PushRefused ==
  /\ prod = "idle"
  /\ ~MayPush
  /\ UNCHANGED vars

PushNotifyLost ==
  /\ prod = "notify"
  /\ prod' = "idle"
  /\ UNCHANGED <<queueVars, closer, cons, popped, historyVars>>
\* push() after the unlock: notify_one().
PushNotify ==
  /\ prod = "notify"
  /\ prod' = "idle"
  /\ cons' = IF cons = "waiting" THEN "awake" ELSE cons
  /\ UNCHANGED <<queueVars, closer, popped, historyVars>>

-----------------------------------------------------------------------------
(* The consumer. *)

\* The predicate pop() waits for.
PopReady == count > 0 \/ closed

DroppedKept == dropped
\* pop() clears the count it reports.
DroppedAfterPop == 0

NothingHeldOrClosed == count = 0 \/ closed
\* pop() returns no frame only when none is held, closed or not.
NothingHeld == count = 0

\* pop() after its wait, with the lock held.
Take ==
  /\ cons' = "idle"
  /\ dropped' = DroppedAfterPop
  /\ IF NothingHeld
     THEN /\ popped' = [result    |-> IF closed THEN Closed ELSE TimedOut,
                        frame     |-> NoFrame,
                        discarded |-> dropped]
          /\ UNCHANGED <<readIndex, count, delivered>>
     ELSE /\ popped' = [result    |-> GotFrame,
                        frame     |-> storage[readIndex],
                        discarded |-> dropped]
          /\ readIndex' = NextSlot(readIndex)
          /\ count' = count - 1
          /\ delivered' = storage[readIndex]
  /\ UNCHANGED <<storage, closed, prod, closer, accepted>>

\* The consumer gives up the lock and waits on _cv.
Block ==
  /\ cons' = "waiting"
  /\ UNCHANGED <<queueVars, prod, closer, popped, historyVars>>

\* pop() is called: the predicate is tried under the lock before any wait.
PopCall ==
  /\ cons = "idle"
  /\ IF PopReady THEN Take ELSE Block

\* The consumer has been woken and holds the lock again.
PopResume ==
  /\ cons = "awake"
  /\ IF PopReady THEN Take ELSE Block

\* The wait runs out: pop() goes on whatever the predicate says.  A timeout of
\* zero is this step right after PopCall.
PopTimeout ==
  /\ cons = "waiting"
  /\ Take

\* A condition variable may wake its waiter for no reason.
SpuriousWakeup ==
  /\ cons = "waiting"
  /\ cons' = "awake"
  /\ UNCHANGED <<queueVars, prod, closer, popped, historyVars>>

-----------------------------------------------------------------------------
(* The thread that stops the capture. *)

\* close(), up to the unlock.  It may be called again.
Close ==
  /\ closer = "idle"
  /\ closed' = TRUE
  /\ closer' = "notify"
  /\ UNCHANGED <<storage, readIndex, count, dropped, prod, cons, popped, historyVars>>

CloseNotifyLost ==
  /\ closer = "notify"
  /\ closer' = "idle"
  /\ UNCHANGED <<queueVars, prod, cons, popped, historyVars>>
\* close() after the unlock: notify_all().
CloseNotify ==
  /\ closer = "notify"
  /\ closer' = "idle"
  /\ cons' = IF cons = "waiting" THEN "awake" ELSE cons
  /\ UNCHANGED <<queueVars, prod, popped, historyVars>>

-----------------------------------------------------------------------------
Next ==
  \/ Push \/ PushRefused \/ PushNotify
  \/ PopCall \/ PopResume \/ PopTimeout \/ SpuriousWakeup
  \/ Close \/ CloseNotify

Spec == Init /\ [][Next]_vars

\* A thread that has unlocked goes on to notify, and a woken consumer gets the
\* lock.  Nothing makes the producer push or a wait run out.
Fairness ==
  /\ WF_vars(PushNotify)
  /\ WF_vars(CloseNotify)
  /\ WF_vars(PopResume)

FairSpec == Spec /\ Fairness

-----------------------------------------------------------------------------
(* Properties. *)

\* The ring holds the last `count` frames taken in, in order, from the read
\* index on: the index arithmetic of push() and pop() never loses its place.
RingInOrder ==
  \A i \in 0 .. (count - 1) :
    storage[SlotAfter(readIndex, i)] = accepted - count + 1 + i

\* Every frame taken in was delivered or skipped by a reported count, is
\* counted as dropped, or is still held.
FramesAccounted == delivered + dropped + count = accepted

\* A loss is pending only while the queue is full.  This is why pop() may
\* clear the count on its timeout and closed paths, which deliver no frame to
\* carry it.
DropsOnlyWhenFull == dropped > 0 => count = Capacity

\* A consumer that waits with a frame or the end of the stream there for it
\* has a notification on its way.
NoLostWakeup == cons = "waiting" /\ PopReady => prod = "notify" \/ closer = "notify"

\* The number of frames pop() reports as discarded is exactly the gap between
\* the frame it delivers and the one delivered before.
GapsReported ==
  [][delivered' # delivered => delivered' = delivered + popped'.discarded + 1]_vars

\* Once pop() has said the queue is closed it never delivers again: close()
\* lets what is held drain, and refuses everything after.
EndIsFinal ==
  [][popped.result = Closed => popped'.result = Closed]_vars

\* A waiting consumer is served once there is something for it, though its
\* wait need never run out.
WaiterServed == (cons = "waiting" /\ PopReady) ~> (cons = "idle")

-----------------------------------------------------------------------------
\* The frames held, oldest first.
Held == [i \in 1 .. count |-> storage[SlotAfter(readIndex, i - 1)]]

Abstract == INSTANCE DropOldestQueue WITH frames <- Held, MaxDropped <- MaxFrames

\* The ring with its lock and condition variable is a drop-oldest queue: every
\* step is one of its operations or leaves it alone.
ImplementsDropOldest == Abstract!Spec
=============================================================================
