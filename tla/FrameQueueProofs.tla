-------------------------- MODULE FrameQueueProofs --------------------------
(***************************************************************************)
(* The safety properties of FrameQueue for every capacity and every number *)
(* of frames.                                                              *)
(***************************************************************************)
EXTENDS FrameQueue, TLAPS

\* The capacity init() settles on is at least one.
LEMMA CapacityPositive == Capacity \in Nat \ {0}
BY FrameQueueAssumption DEF Capacity

\* Index arithmetic: one reduction brings an index back into the ring.
LEMMA SlotAfterValue ==
  ASSUME NEW s \in Slot, NEW n \in 0 .. Capacity
  PROVE  SlotAfter(s, n) = IF s + n < Capacity THEN s + n ELSE s + n - Capacity
<1> DEFINE C == Capacity
<1>1. C \in Nat \ {0} /\ s \in 0 .. (C - 1) /\ n \in 0 .. C
  BY CapacityPositive DEF Slot
<1> HIDE DEF C
<1>2. CASE s + n < C
  BY <1>1, <1>2 DEF SlotAfter, C
<1>3. CASE s + n >= C
  <2>1. (s + n) % C = s + n - C
    BY <1>1, <1>3
  <2> QED BY <1>1, <1>3, <2>1 DEF SlotAfter, C
<1> QED BY <1>1, <1>2, <1>3

LEMMA NextSlotValue ==
  ASSUME NEW s \in Slot
  PROVE  NextSlot(s) = IF s + 1 < Capacity THEN s + 1 ELSE 0
<1>1. NextSlot(s) = SlotAfter(s, 1)
  BY DEF NextSlot, SlotAfter
<1> QED BY <1>1, SlotAfterValue, CapacityPositive DEF Slot

LEMMA SlotAfterInRing ==
  ASSUME NEW s \in Slot, NEW n \in 0 .. Capacity
  PROVE  SlotAfter(s, n) \in Slot
BY SlotAfterValue, CapacityPositive DEF Slot

\* Advancing the read index by one renumbers the slots after it by one.
LEMMA SlotAfterNext ==
  ASSUME NEW s \in Slot, NEW i \in 0 .. (Capacity - 1)
  PROVE  SlotAfter(NextSlot(s), i) = SlotAfter(s, i + 1)
<1> DEFINE C == Capacity
<1>1. /\ C \in Nat \ {0}
      /\ s \in 0 .. (C - 1)
      /\ i \in 0 .. (C - 1)
      /\ i + 1 \in 0 .. C
      /\ i \in 0 .. C
  BY CapacityPositive DEF Slot
<1>2. NextSlot(s) = IF s + 1 < C THEN s + 1 ELSE 0
  BY NextSlotValue
<1>3. NextSlot(s) \in Slot
  BY <1>1, <1>2 DEF Slot
<1>4. SlotAfter(NextSlot(s), i) = IF NextSlot(s) + i < C THEN NextSlot(s) + i ELSE NextSlot(s) + i - C
  BY <1>1, <1>3, SlotAfterValue
<1>5. SlotAfter(s, i + 1) = IF s + (i + 1) < C THEN s + (i + 1) ELSE s + (i + 1) - C
  BY <1>1, SlotAfterValue
<1> HIDE DEF C
<1> QED BY <1>1, <1>2, <1>4, <1>5

\* Distinct places in the window are distinct slots.
LEMMA SlotAfterInjective ==
  ASSUME NEW s \in Slot, NEW i \in 0 .. (Capacity - 1), NEW j \in 0 .. (Capacity - 1), i # j
  PROVE  SlotAfter(s, i) # SlotAfter(s, j)
<1> DEFINE C == Capacity
<1>1. /\ C \in Nat \ {0}
      /\ s \in 0 .. (C - 1)
      /\ i \in 0 .. (C - 1)
      /\ j \in 0 .. (C - 1)
  BY CapacityPositive DEF Slot
<1>2. i \in 0 .. C /\ j \in 0 .. C
  BY <1>1
<1>3. /\ SlotAfter(s, i) = IF s + i < C THEN s + i ELSE s + i - C
      /\ SlotAfter(s, j) = IF s + j < C THEN s + j ELSE s + j - C
  BY <1>2, SlotAfterValue
<1> HIDE DEF C
<1> QED BY <1>1, <1>3

-----------------------------------------------------------------------------
\* What a pop() that goes through does to the ring, used for each of the three
\* actions that end in Take.
LEMMA TakeType ==
  ASSUME TypeOK, Take
  PROVE  TypeOK'
<1>1. CASE count = 0
  BY <1>1 DEF Take, TypeOK, Outcome, NothingHeld, DroppedAfterPop, GotFrame, TimedOut, Closed
<1>2. CASE count # 0
  <2>1. NextSlot(readIndex) \in Slot
    BY NextSlotValue, CapacityPositive DEF TypeOK, Slot
  <2>2. storage[readIndex] \in Frame \cup {NoFrame}
    BY DEF TypeOK
  <2>3. delivered' \in 0 .. MaxFrames
    BY <1>2, <2>2, FrameQueueAssumption DEF Take, NothingHeld, Frame, NoFrame
  <2>4. popped' \in Outcome
    BY <1>2, <2>2 DEF Take, TypeOK, Outcome, NothingHeld, GotFrame, TimedOut, Closed
  <2>5. count' \in 0 .. Capacity
    BY <1>2, CapacityPositive DEF Take, TypeOK, NothingHeld
  <2> QED BY <1>2, <2>1, <2>3, <2>4, <2>5 DEF Take, TypeOK, NothingHeld, DroppedAfterPop
<1> QED BY <1>1, <1>2

LEMMA BlockType ==
  ASSUME TypeOK, Block
  PROVE  TypeOK'
BY DEF TypeOK, Block, queueVars, historyVars

\* The slot push() writes, and where it leaves the ring.
LEMMA PushEffect ==
  ASSUME TypeOK, Push
  PROVE  /\ readIndex' = IF count = Capacity THEN NextSlot(readIndex) ELSE readIndex
         /\ count' = IF count = Capacity THEN Capacity ELSE count + 1
         /\ dropped' = IF count = Capacity THEN dropped + 1 ELSE dropped
         /\ readIndex' \in Slot
         /\ count' \in 1 .. Capacity
         /\ SlotAfter(readIndex', count' - 1) \in Slot
         /\ storage' = [storage EXCEPT ![SlotAfter(readIndex', count' - 1)] = accepted + 1]
         /\ accepted' = accepted + 1
         /\ accepted < MaxFrames
         /\ UNCHANGED <<closed, closer, cons, popped, delivered>>
         /\ prod' = "notify"
<1>1. /\ count \in 0 .. Capacity
      /\ readIndex \in Slot
      /\ Capacity \in Nat \ {0}
  BY CapacityPositive DEF TypeOK
<1>2. NextSlot(readIndex) \in Slot
  BY <1>1, NextSlotValue DEF Slot
<1>3. /\ readIndex' = IF count = Capacity THEN NextSlot(readIndex) ELSE readIndex
      /\ count' = (IF count = Capacity THEN count - 1 ELSE count) + 1
      /\ dropped' = IF count = Capacity THEN dropped + 1 ELSE dropped
      /\ storage' = [storage EXCEPT ![SlotAfter(readIndex', count' - 1)] = accepted + 1]
  <2>1. ASSUME NEW h \in 0 .. Capacity PROVE (h + 1) - 1 = h
    BY <1>1
  <2>2. (IF count = Capacity THEN count - 1 ELSE count) \in 0 .. Capacity
    BY <1>1
  <2> QED BY <2>1, <2>2 DEF Push, CountLoss
<1>4. readIndex' \in Slot /\ count' \in 1 .. Capacity
  BY <1>1, <1>2, <1>3
<1>5. SlotAfter(readIndex', count' - 1) \in Slot
  BY <1>1, <1>4, SlotAfterValue DEF Slot
<1> QED BY <1>1, <1>3, <1>4, <1>5 DEF Push

LEMMA PushType ==
  ASSUME TypeOK, Push
  PROVE  TypeOK'
<1>1. accepted + 1 \in Frame /\ accepted' \in 0 .. MaxFrames
  BY PushEffect, FrameQueueAssumption DEF TypeOK, Frame
<1>2. storage' \in [Slot -> Frame \cup {NoFrame}]
  BY PushEffect, <1>1 DEF TypeOK
<1>3. count' \in 0 .. Capacity /\ dropped' \in Nat
  BY PushEffect, CapacityPositive DEF TypeOK
<1> QED BY PushEffect, <1>1, <1>2, <1>3 DEF TypeOK

LEMMA QueueInitType == Init => TypeOK
<1> SUFFICES ASSUME Init PROVE TypeOK
    OBVIOUS
<1>1. 0 \in Slot /\ 0 \in 0 .. Capacity /\ 0 \in 0 .. MaxFrames
  BY CapacityPositive, FrameQueueAssumption DEF Slot
<1>2. popped \in Outcome
  BY DEF Init, Outcome, GotFrame, TimedOut, Closed
<1> QED BY <1>1, <1>2 DEF Init, TypeOK

LEMMA QueueNextType == TypeOK /\ [Next]_vars => TypeOK'
<1> SUFFICES ASSUME TypeOK, [Next]_vars
               PROVE  TypeOK'
    OBVIOUS
<1>1. CASE Push
    BY <1>1, PushType
<1>2. CASE PushRefused
    BY <1>2 DEF PushRefused, vars, TypeOK
<1>3. CASE PushNotify
    BY <1>3 DEF PushNotify, TypeOK, queueVars, historyVars
<1>4. CASE PopCall
    BY <1>4, TakeType, BlockType DEF PopCall
<1>5. CASE PopResume
    BY <1>5, TakeType, BlockType DEF PopResume
<1>6. CASE PopTimeout
    BY <1>6, TakeType DEF PopTimeout
<1>7. CASE SpuriousWakeup
    BY <1>7 DEF SpuriousWakeup, TypeOK, queueVars, historyVars
<1>8. CASE Close
    BY <1>8 DEF Close, TypeOK, historyVars
<1>9. CASE CloseNotify
    BY <1>9 DEF CloseNotify, TypeOK, queueVars, historyVars
<1>10. CASE UNCHANGED vars
    BY <1>10 DEF vars, TypeOK
<1> QED BY <1>1, <1>2, <1>3, <1>4, <1>5, <1>6, <1>7, <1>8, <1>9, <1>10 DEF Next

\* The type invariant of the queue: the read index stays inside the ring, the
\* count within the capacity.
THEOREM QueueTypeCorrect == Spec => []TypeOK
BY QueueInitType, QueueNextType, PTL DEF Spec

-----------------------------------------------------------------------------
(***************************************************************************)
(* The inductive invariant.  FramesAccounted alone is not inductive: a     *)
(* pop() that times out clears the count of discarded frames, and only     *)
(* DropsOnlyWhenFull says that the count it clears is zero; and what the   *)
(* pop that delivers adds to `delivered` is known only from RingInOrder.   *)
(***************************************************************************)
IInv ==
  /\ TypeOK
  /\ RingInOrder
  /\ FramesAccounted
  /\ DropsOnlyWhenFull
  /\ NoLostWakeup

LEMMA InitIInv == Init => IInv
<1> SUFFICES ASSUME Init PROVE IInv
  OBVIOUS
<1>1. TypeOK
  BY QueueInitType
<1>2. RingInOrder
  BY DEF Init, RingInOrder
<1> QED BY <1>1, <1>2 DEF Init, IInv, FramesAccounted, DropsOnlyWhenFull, NoLostWakeup

\* A pop() that goes through delivers the oldest frame held, or finds the queue
\* empty and then clears a count that is zero already.
LEMMA TakeIInv ==
  ASSUME IInv, Take
  PROVE  IInv'
<1>1. TypeOK' /\ TypeOK
  BY TakeType DEF IInv
<1>2. NoLostWakeup'
  BY DEF Take, NoLostWakeup
<1>3. DropsOnlyWhenFull'
  BY DEF Take, DropsOnlyWhenFull, DroppedAfterPop
<1>4. CASE count = 0
  <2>1. dropped = 0
    BY <1>1, <1>4, CapacityPositive DEF IInv, DropsOnlyWhenFull, TypeOK
  <2>2. FramesAccounted'
    BY <1>4, <2>1 DEF IInv, FramesAccounted, Take, NothingHeld, DroppedAfterPop
  <2>3. RingInOrder'
    BY <1>4 DEF Take, NothingHeld, RingInOrder
  <2> QED BY <1>1, <1>2, <1>3, <2>2, <2>3 DEF IInv
<1>5. CASE count # 0
  <2>1. /\ count \in 1 .. Capacity
        /\ count' = count - 1
        /\ dropped' = 0
        /\ readIndex' = NextSlot(readIndex)
        /\ delivered' = storage[readIndex]
        /\ storage' = storage
        /\ accepted' = accepted
    BY <1>1, <1>5 DEF Take, NothingHeld, DroppedAfterPop, TypeOK
  <2>2. storage[readIndex] = accepted - count + 1
    <3>1. 0 \in 0 .. (count - 1)
      BY <2>1, CapacityPositive
    <3>2. SlotAfter(readIndex, 0) = readIndex
      BY <1>1, SlotAfterValue, CapacityPositive DEF TypeOK, Slot
    <3> QED BY <1>1, <2>1, <3>1, <3>2, CapacityPositive, FrameQueueAssumption
            DEF IInv, RingInOrder, TypeOK
  <2>3. FramesAccounted'
    BY <1>1, <2>1, <2>2, CapacityPositive, FrameQueueAssumption DEF FramesAccounted, TypeOK
  <2>4. ASSUME NEW i \in 0 .. (count' - 1)
        PROVE  storage'[SlotAfter(readIndex', i)] = accepted' - count' + 1 + i
    <3>1. i + 1 \in 0 .. (count - 1) /\ i + 1 \in 0 .. Capacity /\ i \in 0 .. Capacity
      BY <2>1, CapacityPositive
    <3>2. SlotAfter(readIndex', i) = SlotAfter(readIndex, i + 1)
      <4>1. readIndex \in Slot /\ i \in 0 .. (Capacity - 1)
        BY <1>1, <2>1, CapacityPositive DEF TypeOK
      <4> QED BY <2>1, <4>1, SlotAfterNext
    <3>3. storage[SlotAfter(readIndex, i + 1)] = accepted - count + 1 + (i + 1)
      BY <3>1 DEF IInv, RingInOrder
    <3> QED BY <1>1, <2>1, <3>2, <3>3, CapacityPositive, FrameQueueAssumption DEF TypeOK
  <2>5. RingInOrder'
    BY <2>4 DEF RingInOrder
  <2> QED BY <1>1, <1>2, <1>3, <2>3, <2>5 DEF IInv
<1> QED BY <1>4, <1>5

\* push() writes the one slot in the window that holds nothing still wanted.
LEMMA PushIInv ==
  ASSUME IInv, Push
  PROVE  IInv'
<1>1. TypeOK' /\ TypeOK
  BY PushType DEF IInv
<1>2. NoLostWakeup'
  BY PushEffect, <1>1 DEF NoLostWakeup
<1> DEFINE C == Capacity
<1>t. /\ C \in Nat \ {0}
      /\ readIndex \in Slot
      /\ count \in 0 .. C
      /\ dropped \in Nat
      /\ accepted \in Nat
      /\ delivered \in Nat
      /\ storage \in [Slot -> Frame \cup {NoFrame}]
  BY <1>1, CapacityPositive, FrameQueueAssumption DEF TypeOK
<1>p. /\ readIndex' = IF count = C THEN NextSlot(readIndex) ELSE readIndex
      /\ count' = IF count = C THEN C ELSE count + 1
      /\ dropped' = IF count = C THEN dropped + 1 ELSE dropped
      /\ readIndex' \in Slot
      /\ count' \in 1 .. C
      /\ SlotAfter(readIndex', count' - 1) \in Slot
      /\ storage' = [storage EXCEPT ![SlotAfter(readIndex', count' - 1)] = accepted + 1]
      /\ accepted' = accepted + 1
      /\ delivered' = delivered
  BY <1>1, PushEffect, Zenon
<1> HIDE DEF C
<1>3. DropsOnlyWhenFull' /\ FramesAccounted'
  <2>1. (dropped' > 0 => count' = C) /\ delivered + dropped + count = accepted
    BY <1>t, <1>p DEF IInv, DropsOnlyWhenFull, FramesAccounted, C
  <2>2. delivered' + dropped' + count' = accepted'
    BY <1>t, <1>p, <2>1
  <2> QED BY <2>1, <2>2 DEF DropsOnlyWhenFull, FramesAccounted, C
<1>4. ASSUME NEW i \in 0 .. (count' - 1)
      PROVE  storage'[SlotAfter(readIndex', i)] = accepted' - count' + 1 + i
  <2> DEFINE w == SlotAfter(readIndex', count' - 1)
  <2>1. /\ i \in 0 .. (C - 1)
        /\ i \in 0 .. C
        /\ count' - 1 \in 0 .. (C - 1)
    BY <1>t, <1>p
  <2>2. w \in Slot /\ storage' = [storage EXCEPT ![w] = accepted + 1]
    BY <1>p
  <2>3. SlotAfter(readIndex', i) \in Slot
    BY <1>p, <2>1, SlotAfterInRing DEF C
  <2>4. CASE i = count' - 1
    <3>1. storage'[w] = accepted + 1
      BY <1>t, <2>2
    <3>2. accepted' - count' + 1 + i = accepted + 1
      BY <1>t, <1>p, <2>4
    <3> QED BY <2>4, <3>1, <3>2
  <2>5. CASE i # count' - 1
    <3>1. SlotAfter(readIndex', i) # w
      BY <1>p, <2>1, <2>5, SlotAfterInjective DEF C
    <3>2. storage'[SlotAfter(readIndex', i)] = storage[SlotAfter(readIndex', i)]
      BY <1>t, <2>2, <2>3, <3>1
    <3>3. CASE count = C
      <4>1. i + 1 \in 0 .. (count - 1) /\ readIndex' = NextSlot(readIndex) /\ count' = count
        BY <1>t, <1>p, <2>1, <2>5, <3>3
      <4>2. SlotAfter(readIndex', i) = SlotAfter(readIndex, i + 1)
        BY <1>t, <2>1, <4>1, SlotAfterNext DEF C
      <4>3. storage[SlotAfter(readIndex, i + 1)] = accepted - count + 1 + (i + 1)
        BY <4>1 DEF IInv, RingInOrder
      <4>4. accepted - count + 1 + (i + 1) = accepted' - count' + 1 + i
        BY <1>t, <1>p, <2>1, <4>1
      <4> QED BY <3>2, <4>2, <4>3, <4>4
    <3>4. CASE count # C
      <4>1. i \in 0 .. (count - 1) /\ readIndex' = readIndex /\ count' = count + 1
        BY <1>t, <1>p, <2>1, <2>5, <3>4
      <4>2. storage[SlotAfter(readIndex, i)] = accepted - count + 1 + i
        BY <4>1 DEF IInv, RingInOrder
      <4>3. accepted - count + 1 + i = accepted' - count' + 1 + i
        BY <1>t, <1>p, <2>1, <4>1
      <4> QED BY <3>2, <4>1, <4>2, <4>3
    <3> QED BY <3>3, <3>4
  <2> QED BY <2>4, <2>5
<1>5. RingInOrder'
  BY <1>4 DEF RingInOrder
<1> QED BY <1>1, <1>2, <1>3, <1>5 DEF IInv

LEMMA BlockIInv ==
  ASSUME IInv, Block, ~PopReady
  PROVE  IInv'
BY BlockType DEF IInv, Block, RingInOrder, FramesAccounted, DropsOnlyWhenFull, NoLostWakeup,
   PopReady, queueVars, historyVars

LEMMA NextIInv == IInv /\ [Next]_vars => IInv'
<1> SUFFICES ASSUME IInv, [Next]_vars
             PROVE  IInv'
  OBVIOUS
<1>0. TypeOK'
  BY QueueNextType DEF IInv
<1>1. CASE Push
  BY <1>1, PushIInv
<1>2. CASE PushRefused
  BY <1>2, <1>0 DEF PushRefused, vars, IInv, RingInOrder, FramesAccounted, DropsOnlyWhenFull,
     NoLostWakeup, PopReady
<1>3. CASE PushNotify
  BY <1>3, <1>0 DEF PushNotify, queueVars, historyVars, IInv, RingInOrder, FramesAccounted,
     DropsOnlyWhenFull, NoLostWakeup, PopReady
<1>4. CASE PopCall
  BY <1>4, TakeIInv, BlockIInv DEF PopCall
<1>5. CASE PopResume
  BY <1>5, TakeIInv, BlockIInv DEF PopResume
<1>6. CASE PopTimeout
  BY <1>6, TakeIInv DEF PopTimeout
<1>7. CASE SpuriousWakeup
  BY <1>7, <1>0 DEF SpuriousWakeup, queueVars, historyVars, IInv, RingInOrder, FramesAccounted,
     DropsOnlyWhenFull, NoLostWakeup, PopReady
<1>8. CASE Close
  BY <1>8, <1>0 DEF Close, historyVars, IInv, RingInOrder, FramesAccounted,
     DropsOnlyWhenFull, NoLostWakeup, PopReady
<1>9. CASE CloseNotify
  BY <1>9, <1>0 DEF CloseNotify, queueVars, historyVars, IInv, RingInOrder, FramesAccounted,
     DropsOnlyWhenFull, NoLostWakeup, PopReady
<1>10. CASE UNCHANGED vars
  BY <1>10, <1>0 DEF vars, IInv, RingInOrder, FramesAccounted, DropsOnlyWhenFull,
     NoLostWakeup, PopReady
<1> QED BY <1>1, <1>2, <1>3, <1>4, <1>5, <1>6, <1>7, <1>8, <1>9, <1>10 DEF Next

LEMMA QueueInvariant == Spec => []IInv
BY InitIInv, NextIInv, PTL DEF Spec

\* The ring holds exactly the last frames taken in, in order: push() and pop()
\* never lose their place, whatever the capacity.
THEOREM RingKeepsOrder == Spec => []RingInOrder
<1>1. IInv => RingInOrder
  BY DEF IInv
<1> QED BY <1>1, QueueInvariant, PTL

\* No frame taken in is lost without being counted.
THEOREM NothingUncounted == Spec => []FramesAccounted
<1>1. IInv => FramesAccounted
  BY DEF IInv
<1> QED BY <1>1, QueueInvariant, PTL

\* A loss waits to be reported only while the queue is full: the pop() that clears
\* the count has a frame to report it with.
THEOREM LossesAreFull == Spec => []DropsOnlyWhenFull
<1>1. IInv => DropsOnlyWhenFull
  BY DEF IInv
<1> QED BY <1>1, QueueInvariant, PTL

\* No notification is lost between push() or close() and a waiting pop().
THEOREM WakeupsArrive == Spec => []NoLostWakeup
<1>1. IInv => NoLostWakeup
  BY DEF IInv
<1> QED BY <1>1, QueueInvariant, PTL

-----------------------------------------------------------------------------
\* The frame a pop() takes is one more than the last delivered plus the frames
\* discarded since.
LEMMA TakeGap ==
  ASSUME IInv, Take, delivered' # delivered
  PROVE  delivered' = delivered + popped'.discarded + 1
<1>1. /\ TypeOK
      /\ RingInOrder
      /\ FramesAccounted
  BY DEF IInv
<1> DEFINE C == Capacity
<1>2. /\ C \in Nat \ {0}
      /\ readIndex \in Slot
      /\ count \in 1 .. C
      /\ dropped \in Nat
      /\ accepted \in Nat
      /\ delivered \in Nat
      /\ delivered' = storage[readIndex]
      /\ popped'.discarded = dropped
  <2>1. count # 0
    BY DEF Take, NothingHeld
  <2> QED BY <2>1, <1>1, CapacityPositive, FrameQueueAssumption DEF TypeOK, Take, NothingHeld
<1>3. SlotAfter(readIndex, 0) = readIndex
  BY <1>2, SlotAfterValue, CapacityPositive DEF Slot
<1> HIDE DEF C
<1>4. 0 \in 0 .. (count - 1)
  BY <1>2
<1>5. storage[readIndex] = accepted - count + 1 + 0
  BY <1>1, <1>3, <1>4 DEF RingInOrder
<1> QED BY <1>1, <1>2, <1>5 DEF FramesAccounted

\* The count pop() reports with a frame is exactly the number of frames missing
\* before it.
THEOREM GapsAreReported == Spec => GapsReported
<1>1. IInv /\ [Next]_vars
        => [delivered' # delivered => delivered' = delivered + popped'.discarded + 1]_vars
  <2> SUFFICES ASSUME IInv, [Next]_vars, delivered' # delivered
               PROVE  delivered' = delivered + popped'.discarded + 1
    OBVIOUS
  <2>1. Take
    BY DEF Next, Push, PushRefused, PushNotify, PopCall, PopResume, PopTimeout, SpuriousWakeup,
       Close, CloseNotify, Block, vars, historyVars
  <2> QED BY <2>1, TakeGap
<1> QED BY <1>1, QueueInvariant, PTL DEF Spec, GapsReported

\* A queue that has answered "closed" is closed and empty, which nothing undoes.
EndInv ==
  /\ IInv
  /\ popped.result = Closed => closed /\ count = 0

LEMMA EndInvariant == Spec => []EndInv
<1>1. Init => EndInv
  BY InitIInv DEF EndInv, Init, Closed, TimedOut
<1>2. EndInv /\ [Next]_vars => EndInv'
  <2> SUFFICES ASSUME EndInv, [Next]_vars
               PROVE  EndInv'
    OBVIOUS
  <2>0. IInv'
    BY NextIInv DEF EndInv
  <2>1. CASE Take
    BY <2>0, <2>1 DEF EndInv, Take, NothingHeld, Closed, GotFrame, TimedOut
  <2>2. CASE ~Take
    BY <2>0, <2>2 DEF EndInv, Next, Push, PushRefused, PushNotify, PopCall, PopResume,
       PopTimeout, SpuriousWakeup, Close, CloseNotify, Block, MayPush, vars, queueVars,
       historyVars
  <2> QED BY <2>1, <2>2
<1> QED BY <1>1, <1>2, PTL DEF Spec

\* close() is final: after the end of the stream was reported no frame follows.
THEOREM EndStaysFinal == Spec => EndIsFinal
<1>1. EndInv /\ [Next]_vars => [popped.result = Closed => popped'.result = Closed]_vars
  <2> SUFFICES ASSUME EndInv, [Next]_vars, popped.result = Closed
               PROVE  popped'.result = Closed
    OBVIOUS
  <2>1. CASE Take
    BY <2>1 DEF EndInv, Take, NothingHeld, Closed
  <2>2. CASE ~Take
    BY <2>2 DEF Next, Push, PushRefused, PushNotify, PopCall, PopResume,
       PopTimeout, SpuriousWakeup, Close, CloseNotify, Block, vars
  <2> QED BY <2>1, <2>2
<1> QED BY <1>1, EndInvariant, PTL DEF Spec, EndIsFinal
=============================================================================
