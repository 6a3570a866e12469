------------------------- MODULE FrameQueueRefinement -------------------------
(***************************************************************************)
(* frame_queue_t implements DropOldestQueue, for every capacity and every  *)
(* number of frames.  By RingInOrder the frames held are the last `count`  *)
(* numbers taken in, so the proof is about such runs of numbers.           *)
(***************************************************************************)
EXTENDS FrameQueueProofs, SequenceTheorems

\* The n numbers up to a, in order.
Upto(a, n) == [i \in 1 .. n |-> a - n + i]

LEMMA UptoIsSeq ==
  ASSUME NEW a \in Nat, NEW n \in Nat
  PROVE  Upto(a, n) \in Seq(Int) /\ Len(Upto(a, n)) = n
<1>1. \A i \in 1 .. n : a - n + i \in Int
  OBVIOUS
<1> QED BY <1>1 DEF Upto

\* A frame taken in goes to the end.
LEMMA UptoAppend ==
  ASSUME NEW a \in Nat, NEW n \in Nat
  PROVE  Append(Upto(a, n), a + 1) = Upto(a + 1, n + 1)
<1> DEFINE r == Upto(a, n)
           s == Append(r, a + 1)
           t == Upto(a + 1, n + 1)
<1>1. /\ r \in Seq(Int) /\ Len(r) = n
      /\ t \in Seq(Int) /\ Len(t) = n + 1
  <2>1. r \in Seq(Int) /\ Len(r) = n
    BY UptoIsSeq
  <2>2. a + 1 \in Nat /\ n + 1 \in Nat
    OBVIOUS
  <2>3. t \in Seq(Int) /\ Len(t) = n + 1
    <3> HIDE DEF r, s
    <3> QED BY <2>2, UptoIsSeq
  <2> QED BY <2>1, <2>3
<1>2. /\ \A i \in 1 .. n : r[i] = a - n + i
      /\ \A i \in 1 .. (n + 1) : t[i] = (a + 1) - (n + 1) + i
  BY DEF Upto
<1>3. a + 1 \in Int
  OBVIOUS
<1> HIDE DEF r, t
<1>4. /\ s \in Seq(Int) /\ Len(s) = n + 1
      /\ \A i \in 1 .. n : s[i] = r[i]
      /\ s[n + 1] = a + 1
  BY <1>1, <1>3, AppendProperties
<1> HIDE DEF s
<1>5. ASSUME NEW i \in 1 .. (n + 1) PROVE s[i] = t[i]
  <2>1. t[i] = a - n + i
    BY <1>2
  <2>2. CASE i = n + 1
    BY <2>1, <2>2, <1>4
  <2>3. CASE i # n + 1
    <3>1. i \in 1 .. n
      BY <2>3
    <3> QED BY <2>1, <3>1, <1>2, <1>4
  <2> QED BY <2>2, <2>3
<1>6. s = t
  BY <1>1, <1>4, <1>5, SeqEqual
<1> QED BY <1>6 DEF r, s, t

\* The oldest frame leaves at the front.
LEMMA UptoTail ==
  ASSUME NEW a \in Nat, NEW n \in Nat \ {0}
  PROVE  /\ Upto(a, n) # << >>
         /\ Head(Upto(a, n)) = a - n + 1
         /\ Tail(Upto(a, n)) = Upto(a, n - 1)
<1> DEFINE r == Upto(a, n)
           s == Tail(r)
           t == Upto(a, n - 1)
<1>1. /\ r \in Seq(Int) /\ Len(r) = n
      /\ t \in Seq(Int) /\ Len(t) = n - 1
  <2>1. r \in Seq(Int) /\ Len(r) = n
    BY UptoIsSeq
  <2>2. n - 1 \in Nat
    OBVIOUS
  <2>3. t \in Seq(Int) /\ Len(t) = n - 1
    <3> HIDE DEF r, s
    <3> QED BY <2>2, UptoIsSeq
  <2> QED BY <2>1, <2>3
<1>2. /\ \A i \in 1 .. n : r[i] = a - n + i
      /\ \A i \in 1 .. (n - 1) : t[i] = a - (n - 1) + i
  BY DEF Upto
<1> HIDE DEF r, t
<1>3. r # << >> /\ Head(r) = r[1] /\ r[1] = a - n + 1
  BY <1>1, <1>2
<1>4. /\ s \in Seq(Int) /\ Len(s) = n - 1
      /\ \A i \in 1 .. (n - 1) : s[i] = r[i + 1]
  BY <1>1, <1>3, HeadTailProperties
<1> HIDE DEF s
<1>5. ASSUME NEW i \in 1 .. (n - 1) PROVE s[i] = t[i]
  <2>1. s[i] = r[i + 1] /\ i + 1 \in 1 .. n
    BY <1>4
  <2>2. r[i + 1] = a - n + (i + 1)
    BY <2>1, <1>2
  <2> QED BY <2>1, <2>2, <1>2
<1>6. s = t
  BY <1>1, <1>4, <1>5, SeqEqual
<1> QED BY <1>3, <1>6 DEF r, s, t
-----------------------------------------------------------------------------
\* The ring, read from its read index on, is the run of the last frames.
LEMMA HeldIsUpto == IInv => Held = Upto(accepted, count)
<1> SUFFICES ASSUME IInv PROVE Held = Upto(accepted, count)
  OBVIOUS
<1>1. count \in Nat /\ accepted \in Nat
  BY CapacityPositive, FrameQueueAssumption DEF IInv, TypeOK
<1>2. ASSUME NEW i \in 1 .. count
      PROVE  storage[SlotAfter(readIndex, i - 1)] = accepted - count + i
  <2>1. i - 1 \in 0 .. (count - 1) /\ 1 + (i - 1) = i
    BY <1>1
  <2>2. storage[SlotAfter(readIndex, i - 1)] = accepted - count + 1 + (i - 1)
    BY <2>1 DEF IInv, RingInOrder
  <2> QED BY <1>1, <2>1, <2>2
<1> QED BY <1>2 DEF Held, Upto

LEMMA HeldIsUptoNext == IInv' => Held' = Upto(accepted', count')
<1>1. (IInv => Held = Upto(accepted, count))'
  BY HeldIsUpto, PTL
<1> QED BY <1>1 DEF Upto

\* A step that leaves the frames, the count of losses, the end and the last
\* outcome alone stutters.
LEMMA StepStutters ==
  ASSUME UNCHANGED <<storage, readIndex, count, dropped, closed, popped>>
  PROVE  UNCHANGED Abstract!vars
BY DEF Abstract!vars, Held

\* push() up to the unlock is Push.
LEMMA PushRefines ==
  ASSUME IInv, IInv', Push
  PROVE  \E f \in Frame : Abstract!Push(f)
<1> DEFINE C == Capacity
<1>1. /\ C \in Nat \ {0} /\ count \in 0 .. C /\ dropped \in Nat
      /\ accepted \in Nat /\ delivered \in Nat /\ MaxFrames \in Nat
      /\ accepted' = accepted + 1 /\ accepted < MaxFrames
      /\ ~closed
      /\ UNCHANGED <<closed, popped>>
      /\ delivered + dropped + count = accepted
      /\ count \in Nat
  BY CapacityPositive, FrameQueueAssumption
     DEF IInv, TypeOK, FramesAccounted, Push, MayPush
<1>2. Held = Upto(accepted, count) /\ Held' = Upto(accepted + 1, count') /\ Len(Held) = count
  BY <1>1, HeldIsUpto, HeldIsUptoNext, UptoIsSeq
<1>3. accepted + 1 \in Frame
  BY <1>1 DEF Frame
<1>4. Abstract!Full <=> count = C
  BY <1>2 DEF Abstract!Full
<1>5. CASE count = C
  <2>1. count' = count /\ dropped' = dropped + 1 /\ dropped < MaxFrames
    BY <1>1, <1>5 DEF Push, CountLoss
  <2>2. count \in Nat \ {0} /\ count - 1 \in Nat /\ (count - 1) + 1 = count
    BY <1>1, <1>5
  <2>3. Tail(Held) = Upto(accepted, count - 1)
    BY <1>1, <1>2, <2>2, UptoTail
  <2>4. Append(Upto(accepted, count - 1), accepted + 1) = Upto(accepted + 1, count)
    BY <1>1, <2>2, UptoAppend
  <2>5. Abstract!Push(accepted + 1)
    BY <1>1, <1>2, <1>4, <1>5, <2>1, <2>3, <2>4 DEF Abstract!Push
  <2> QED BY <1>3, <2>5
<1>6. CASE count # C
  <2>1. count' = count + 1 /\ dropped' = dropped
    BY <1>6 DEF Push, CountLoss
  <2>2. Append(Upto(accepted, count), accepted + 1) = Upto(accepted + 1, count + 1)
    BY <1>1, UptoAppend
  <2>3. Abstract!Push(accepted + 1)
    BY <1>1, <1>2, <1>4, <1>6, <2>1, <2>2 DEF Abstract!Push
  <2> QED BY <1>3, <2>3
<1> QED BY <1>5, <1>6

\* pop() past its wait is Pop.
LEMMA TakeRefines ==
  ASSUME IInv, IInv', Take
  PROVE  Abstract!Pop
<1>1. /\ count \in Nat /\ accepted \in Nat
      /\ accepted' = accepted /\ closed' = closed /\ dropped' = 0
  BY CapacityPositive, FrameQueueAssumption
     DEF IInv, TypeOK, Take, DroppedAfterPop
<1>2. Held = Upto(accepted, count) /\ Held' = Upto(accepted, count') /\ Len(Held) = count
  BY <1>1, HeldIsUpto, HeldIsUptoNext, UptoIsSeq
<1>3. CASE count = 0
  <2>1. Held = << >> /\ Held' = Held
    BY <1>1, <1>2, <1>3 DEF Take, NothingHeld, Upto
  <2>2. popped' = [result |-> IF closed THEN Closed ELSE TimedOut, frame |-> NoFrame,
                   discarded |-> dropped]
    BY <1>3 DEF Take, NothingHeld
  <2> QED BY <1>1, <2>1, <2>2 DEF Abstract!Pop, Abstract!Closed, Abstract!TimedOut,
                                  Closed, TimedOut
<1>4. CASE count # 0
  <2>1. /\ Held # << >>
        /\ Head(Held) = accepted - count + 1
        /\ Tail(Held) = Upto(accepted, count - 1)
    BY <1>1, <1>2, <1>4, UptoTail
  <2>2. /\ count' = count - 1
        /\ popped' = [result |-> GotFrame, frame |-> storage[readIndex], discarded |-> dropped]
    BY <1>4 DEF Take, NothingHeld
  <2>3. Held[1] = storage[SlotAfter(readIndex, 0)]
    BY <1>1, <1>4 DEF Held
  <2>4. SlotAfter(readIndex, 0) = readIndex
    <3>1. readIndex \in Slot
      BY DEF IInv, TypeOK
    <3> QED BY <3>1, SlotAfterValue, CapacityPositive DEF Slot
  <2>5. Held[1] = accepted - count + 1
    BY <1>1, <1>2, <1>4 DEF Upto
  <2> QED BY <1>1, <1>2, <2>1, <2>2, <2>3, <2>4, <2>5
          DEF Abstract!Pop, Abstract!GotFrame, GotFrame
<1> QED BY <1>3, <1>4

LEMMA StepRefines ==
  ASSUME IInv, IInv', [Next]_vars
  PROVE  [Abstract!Next]_Abstract!vars
<1>1. CASE Push
  BY <1>1, PushRefines DEF Abstract!Next
<1>2. CASE Take
  BY <1>2, TakeRefines DEF Abstract!Next
<1>3. CASE Close
  <2>1. Held' = Held /\ closed' = TRUE /\ UNCHANGED <<dropped, popped>>
    BY <1>3 DEF Close, Held
  <2> QED BY <2>1 DEF Abstract!Next, Abstract!Close
<1>4. CASE ~Push /\ ~Take /\ ~Close
  <2>1. UNCHANGED <<storage, readIndex, count, dropped, closed, popped>>
    BY <1>4 DEF Next, PushRefused, PushNotify, PopCall, PopResume, PopTimeout, SpuriousWakeup,
       CloseNotify, Block, vars, queueVars, historyVars
  <2> QED BY <2>1, StepStutters
<1> QED BY <1>1, <1>2, <1>3, <1>4

LEMMA InitRefines == Init => Abstract!Init
<1> SUFFICES ASSUME Init PROVE Abstract!Init
  OBVIOUS
<1>1. Held = << >>
  BY DEF Init, Held
<1> QED BY <1>1 DEF Init, Abstract!Init, TimedOut, Abstract!TimedOut

\* frame_queue_t, with its ring, its lock and its condition variable, is a
\* drop-oldest queue for every capacity.
THEOREM QueueImplementsDropOldest == Spec => ImplementsDropOldest
<1>1. IInv /\ IInv' /\ [Next]_vars => [Abstract!Next]_Abstract!vars
  BY StepRefines
<1> QED BY <1>1, InitRefines, QueueInvariant, PTL DEF Spec, ImplementsDropOldest, Abstract!Spec
=============================================================================
