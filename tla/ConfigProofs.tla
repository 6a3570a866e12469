---------------------------- MODULE ConfigProofs -----------------------------
(***************************************************************************)
(* What module Config keeps in every state, for every width of at least 8  *)
(* bits, every default and every value that callers give.                  *)
(***************************************************************************)
EXTENDS Config, TLAPS

(***************************************************************************)
(* The inductive invariant: a handle was checked when it was made, its     *)
(* queue was sized for it, and a stream was opened for it.                 *)
(***************************************************************************)
HandleChecked ==
  handle # NoHandle =>
    /\ handle = Resolved
    /\ Accepted(handle)
    /\ handle.samples > 0 /\ handle.rate > 0

QueueSized ==
  IF handle = NoHandle THEN slotBytes = 0 /\ capacity = 0 /\ storage = 0
  ELSE /\ slotBytes = FrameBytes(handle)
       /\ capacity = handle.ring /\ capacity > 0
       /\ storage = StorageLength(handle)

StreamMatches ==
  stream # NoStream =>
    /\ stream.channels = handle.channels % 256
    /\ stream.mapped = handle.channels % 256
    /\ stream.format = handle.format
    /\ stream.fragsize = Fragment(handle)

IInv ==
  /\ TypeOK
  /\ HandleChecked
  /\ QueueSized
  /\ StreamMatches
  /\ CreatedOpens
  /\ CopyFits

-----------------------------------------------------------------------------
(* Arithmetic. *)

LEMMA Widths ==
  /\ W64 \in Nat /\ W64 >= 256 * W32 /\ W64 > 0 /\ W32 \in Nat /\ W32 >= 256
  /\ {DefaultRate, DefaultChannels, DefaultSamples, DefaultRing, DefaultRecheck} \subseteq Word \ {0}
<1>1. W32 \in Nat /\ W32 >= 256
  BY ConfigAssumption
<1>2. W32 * W32 >= 256 * W32
  <2>1. PICK k \in Nat : W32 = 256 + k
    <3>1. W32 - 256 \in Nat /\ W32 = 256 + (W32 - 256)
      BY <1>1
    <3> QED BY <3>1
  <2>2. \A i, j \in Nat : i * j \in Nat /\ (256 + i) * j = 256 * j + i * j
    OBVIOUS
  <2>3. k * W32 \in Nat /\ (256 + k) * W32 = 256 * W32 + k * W32
    BY <1>1, <2>2
  <2>4. W32 * W32 = 256 * W32 + k * W32
    BY <2>1, <2>3
  <2> QED BY <1>1, <2>3, <2>4
<1> QED BY <1>1, <1>2, ConfigAssumption DEF W64, Word, DefaultChannels

\* Frames of a supported width do not wrap in size_t.
LEMMA FrameFits ==
  ASSUME NEW s \in Settings, Accepted(s)
  PROVE  /\ FrameBytes(s) = s.samples * s.channels * SampleBytes(s.format)
         /\ FrameBytes(s) \in 0 .. W64 - 1
         /\ SampleBytes(s.format) = MapSampleBytes(s.format)
         /\ SampleBytes(s.format) = PulseSampleBytes(s.format)
         /\ SampleBytes(s.format) \in {2, 4}
         /\ s.channels \in {1, 2, 6, 8}
         /\ s.channels % 256 = s.channels
         /\ s.samples > 0 => FrameBytes(s) > 0
<1>1. s.samples \in Nat /\ s.samples < W32 /\ s.channels \in {1, 2, 6, 8} /\ s.format \in Formats
  BY Widths DEF Settings, Word, Accepted, ChannelsSupported
<1>2. /\ SampleBytes(s.format) \in {2, 4}
      /\ SampleBytes(s.format) = MapSampleBytes(s.format)
      /\ SampleBytes(s.format) = PulseSampleBytes(s.format)
  BY DEF Accepted, SampleBytes, MapSampleBytes, PulseSampleBytes
<1> DEFINE p == s.samples * s.channels * SampleBytes(s.format)
<1>3. p \in Nat /\ p <= 32 * s.samples /\ (s.samples > 0 => p > 0)
  <2>1. s.channels * SampleBytes(s.format) \in 1 .. 32
    BY <1>1, <1>2
  <2>2. p = s.samples * (s.channels * SampleBytes(s.format))
    BY <1>1, <1>2
  <2> HIDE DEF p
  <2>3. \A k \in 1 .. 32 : s.samples * k \in Nat /\ s.samples * k <= 32 * s.samples
                            /\ (s.samples > 0 => s.samples * k > 0)
    BY <1>1
  <2> QED BY <2>1, <2>2, <2>3
<1>4. p < W64
  BY <1>1, <1>3, Widths
<1>5. p % W64 = p
  BY <1>3, <1>4, Widths
<1>6. s.channels % 256 = s.channels
  BY <1>1
<1> QED BY <1>1, <1>2, <1>3, <1>4, <1>5, <1>6, Widths DEF FrameBytes

LEMMA Remainders ==
  ASSUME NEW n \in Nat
  PROVE  n % W64 \in 0 .. W64 - 1 /\ n % W32 \in Word /\ n % 256 \in 0 .. 255
  BY Widths DEF Word

\* Resolving leaves no zero where a zero would not do.
LEMMA ResolvedIsComplete ==
  ASSUME TypeOK
  PROVE  /\ Resolved \in Settings
         /\ Resolved.rate > 0 /\ Resolved.samples > 0 /\ Resolved.ring > 0
         /\ Capacity(Resolved) = Resolved.ring
<1>1. HandleDefaults \in Settings /\ HandleDefaults.rate > 0 /\ HandleDefaults.samples > 0
      /\ HandleDefaults.ring > 0
  BY Widths DEF HandleDefaults, Settings, Formats, Word
<1>2. CASE cfg = NullConfig
  BY <1>1, <1>2 DEF Resolved, Capacity
<1>3. CASE cfg # NullConfig
  <2>1. cfg \in Settings
    BY <1>3 DEF TypeOK
  <2>2. \A v \in Word, d \in Word \ {0} : Or(v, d) \in Word \ {0}
    BY DEF Or
  <2>3. Resolved = [cfg EXCEPT !.rate = Or(@, DefaultRate), !.channels = Or(@, DefaultChannels),
                               !.samples = Or(@, DefaultSamples), !.ring = Or(@, DefaultRing),
                               !.recheck = Or(@, DefaultRecheck)]
    BY <1>3 DEF Resolved
  <2>4. /\ Or(cfg.rate, DefaultRate) \in Word \ {0}
        /\ Or(cfg.channels, DefaultChannels) \in Word \ {0}
        /\ Or(cfg.samples, DefaultSamples) \in Word \ {0}
        /\ Or(cfg.ring, DefaultRing) \in Word \ {0}
        /\ Or(cfg.recheck, DefaultRecheck) \in Word \ {0}
    BY <2>1, <2>2, Widths DEF Settings
  <2>5. Resolved \in Settings /\ Resolved.rate \in Word \ {0} /\ Resolved.samples \in Word \ {0}
        /\ Resolved.ring \in Word \ {0}
    BY <2>1, <2>3, <2>4 DEF Settings
  <2> QED BY <2>5, Widths DEF Word, Capacity
<1> QED BY <1>2, <1>3

-----------------------------------------------------------------------------
LEMMA ConfigInit == Init => IInv
<1> SUFFICES ASSUME Init PROVE IInv
  OBVIOUS
<1>1. ZeroConfig \in Settings
  BY Widths DEF ZeroConfig, Settings, Formats, Word
<1>2. 0 \in 0 .. W64 - 1 /\ 0 \in Word /\ 0 \in Nat
  BY Widths DEF Word
<1>3. TypeOK
  BY <1>1, <1>2 DEF Init, TypeOK
<1> QED BY <1>3, Widths DEF Init, IInv, HandleChecked, QueueSized, StreamMatches, CreatedOpens,
                            CopyFits

\* The caller's preparations come before there is a handle.
LEMMA PrepareIInv ==
  ASSUME IInv, ConfigDefaults \/ Override
  PROVE  IInv'
<1>1. handle = NoHandle /\ cfg \in Settings
      /\ UNCHANGED <<result, handle, queueVars, stream, openError, copied, room>>
  BY DEF IInv, TypeOK, ConfigDefaults, Override
<1>2. cfg' \in Settings
  <2>1. DefaultConfig \in Settings
    BY Widths DEF DefaultConfig, Settings, Formats, Word
  <2>2. \A r \in Rates \cup ChannelCounts \cup SampleCounts \cup Rings \cup Rechecks : r \in Word
    BY ConfigAssumption
  <2>3. cfg.fixedRate \in BOOLEAN
    BY <1>1 DEF Settings
  <2> QED BY <1>1, <2>1, <2>2, <2>3 DEF ConfigDefaults, Override, Settings
<1> QED BY <1>1, <1>2
       DEF IInv, TypeOK, HandleChecked, QueueSized, StreamMatches, CreatedOpens, CopyFits, queueVars

LEMMA CreateIInv ==
  ASSUME IInv, CreateCall
  PROVE  IInv'
<1>1. handle = NoHandle /\ UNCHANGED <<cfg, stream, openError, copied, room>> /\ Resolved' = Resolved
  BY DEF CreateCall, Resolved
<1>2. Resolved \in Settings /\ Resolved.rate > 0 /\ Resolved.samples > 0 /\ Resolved.ring > 0
      /\ Capacity(Resolved) = Resolved.ring
  BY ResolvedIsComplete DEF IInv
<1>3. stream = NoStream
  BY <1>1 DEF IInv, TypeOK
<1>4. CASE UNCHANGED <<handle, queueVars>> /\ result' \in {"format", "nomem", "threw"}
  BY <1>1, <1>3, <1>4
     DEF IInv, TypeOK, HandleChecked, QueueSized, StreamMatches, CreatedOpens, CopyFits, queueVars
<1>5. CASE /\ Accepted(Resolved)
           /\ result' = "ok"
           /\ handle' = Resolved
           /\ slotBytes' = FrameBytes(Resolved)
           /\ capacity' = Capacity(Resolved)
           /\ storage' = StorageLength(Resolved)
  <2>1. FrameBytes(Resolved) \in 0 .. W64 - 1 /\ FrameBytes(Resolved) > 0
    BY <1>2, <1>5, FrameFits
  <2>2. StorageLength(Resolved) \in 0 .. W64 - 1
    <3>1. Resolved.ring \in Nat /\ FrameBytes(Resolved) \in Nat
      BY <1>2, <2>1, Widths DEF Settings, Word
    <3>2. Resolved.ring * FrameBytes(Resolved) \in Nat
      BY <3>1
    <3> QED BY <3>2, <1>2, Remainders DEF StorageLength
  <2>3. Resolved.ring \in Word
    BY <1>2 DEF Settings
  <2>4. TypeOK'
    BY <1>1, <1>2, <1>3, <1>5, <2>1, <2>2, <2>3 DEF IInv, TypeOK
  <2>5. handle' # NoHandle
    BY <1>2, <1>5, PointerAssumption
  <2>6. HandleChecked' /\ QueueSized'
    BY <1>1, <1>2, <1>5, <2>5 DEF HandleChecked, QueueSized
  <2> QED BY <1>1, <1>3, <2>4, <2>6 DEF IInv, StreamMatches, CreatedOpens, CopyFits
<1> QED BY <1>4, <1>5 DEF CreateCall, Refuses

LEMMA OpenIInv ==
  ASSUME IInv, NEW monitorNamed \in BOOLEAN, OpenStream(monitorNamed)
  PROVE  IInv'
<1>1. handle # NoHandle /\ UNCHANGED <<cfg, result, handle, queueVars, copied, room>>
  BY DEF OpenStream
<1>2. handle \in Settings /\ Accepted(handle) /\ handle.samples > 0
  BY <1>1 DEF IInv, TypeOK, HandleChecked
<1>3. Refusal(monitorNamed) \in {"none", "monitor"}
  BY <1>2, FrameFits DEF Refusal, Accepted, MapsFormat, HasMap, ChannelsSupported
<1>4. openError' \in {"none", "monitor", "server"} /\ CreatedOpens'
  BY <1>3 DEF OpenStream, CreatedOpens
<1>5. stream' \in Streams \cup {NoStream} /\ StreamMatches'
  <2>1. CASE UNCHANGED stream
    BY <2>1, <1>1 DEF IInv, TypeOK, StreamMatches
  <2>2. CASE stream' = [rate |-> handle.rate, channels |-> handle.channels % 256,
                        format |-> handle.format, mapped |-> handle.channels % 256,
                        fragsize |-> Fragment(handle)]
    <3>1. handle.channels % 256 \in 0 .. 255
      BY <1>2, FrameFits
    <3>2. Fragment(handle) \in Word
      <4>1. /\ handle.samples \in Nat /\ handle.channels \in Nat
            /\ MapSampleBytes(handle.format) \in Nat
        BY <1>2, FrameFits, Widths DEF Settings, Word
      <4>2. handle.samples * handle.channels * MapSampleBytes(handle.format) \in Nat
        BY <4>1
      <4> QED BY <4>2, Remainders DEF Fragment
    <3> QED BY <1>1, <1>2, <2>2, <3>1, <3>2 DEF Streams, Settings, StreamMatches
  <2> QED BY <2>1, <2>2 DEF OpenStream
<1>6. TypeOK'
  BY <1>1, <1>4, <1>5 DEF IInv, TypeOK, queueVars
<1> QED BY <1>1, <1>4, <1>5, <1>6 DEF IInv, HandleChecked, Resolved, QueueSized, CopyFits, queueVars

LEMMA ReadIInv ==
  ASSUME IInv, NEW frames \in Capacities, ReadFrame(frames)
  PROVE  IInv'
<1>1. handle # NoHandle /\ UNCHANGED <<cfg, result, handle, queueVars, stream, openError>>
  BY DEF ReadFrame
<1>2. /\ handle \in Settings /\ Accepted(handle) /\ handle.samples > 0
      /\ slotBytes = FrameBytes(handle)
  BY <1>1 DEF IInv, TypeOK, HandleChecked, QueueSized
<1>3. frames \in Nat /\ handle.samples \in Nat
  BY <1>2, ConfigAssumption DEF Settings, Word
<1>4. copied' \in 0 .. W64 - 1 /\ room' \in Nat /\ copied' <= room'
  <2>1. CASE Holds(frames)
    <3>1. copied' = slotBytes /\ room' = frames * handle.channels * PulseSampleBytes(handle.format)
          /\ frames >= handle.samples
      BY <2>1 DEF ReadFrame, Holds
    <3> DEFINE c == handle.channels
               b == SampleBytes(handle.format)
    <3>2. c \in {1, 2, 6, 8} /\ b \in {2, 4} /\ b = PulseSampleBytes(handle.format)
          /\ slotBytes = handle.samples * c * b
      BY <1>2, FrameFits
    <3> HIDE DEF c, b
    <3>3. \A n, m \in Nat : n <= m => n * c * b <= m * c * b /\ m * c * b \in Nat
      <4>1. c * b \in 1 .. 32 /\ \A n \in Nat : n * c * b = n * (c * b)
        BY <3>2
      <4>2. \A k \in 1 .. 32, n, m \in Nat : n <= m => n * k <= m * k /\ m * k \in Nat
        OBVIOUS
      <4> QED BY <4>1, <4>2
    <3>4. slotBytes \in 0 .. W64 - 1
      BY DEF IInv, TypeOK
    <3>5. handle.samples * c * b <= frames * c * b /\ frames * c * b \in Nat
      BY <1>3, <3>1, <3>3
    <3>6. room' = frames * c * b
      BY <3>1, <3>2 DEF c, b
    <3> QED BY <3>1, <3>2, <3>4, <3>5, <3>6
  <2>2. CASE ~Holds(frames)
    BY <2>2, Widths DEF ReadFrame
  <2> QED BY <2>1, <2>2
<1>5. TypeOK' /\ CopyFits'
  BY <1>1, <1>4 DEF IInv, TypeOK, CopyFits, queueVars
<1> QED BY <1>1, <1>5 DEF IInv, HandleChecked, Resolved, QueueSized, StreamMatches, CreatedOpens,
                          queueVars

LEMMA ConfigStep == IInv /\ [Next]_vars => IInv'
<1> SUFFICES ASSUME IInv, [Next]_vars PROVE IInv'
  OBVIOUS
<1>1. CASE ConfigDefaults \/ Override
  BY <1>1, PrepareIInv
<1>2. CASE CreateCall
  BY <1>2, CreateIInv
<1>3. CASE \E named \in BOOLEAN : OpenStream(named)
  BY <1>3, OpenIInv
<1>4. CASE StreamEnds \/ UNCHANGED vars
  <2>1. UNCHANGED <<cfg, result, handle, slotBytes, capacity, storage, openError, copied, room>>
        /\ stream' \in {stream, NoStream}
    BY <1>4 DEF StreamEnds, vars, queueVars
  <2>2. TypeOK' /\ StreamMatches'
    BY <2>1 DEF IInv, TypeOK, StreamMatches
  <2>3. Resolved' = Resolved
    BY <2>1 DEF Resolved
  <2>4. HandleChecked' /\ QueueSized'
    BY <2>1, <2>3 DEF IInv, HandleChecked, QueueSized
  <2> QED BY <2>1, <2>2, <2>4 DEF IInv, CreatedOpens, CopyFits
<1>5. CASE \E frames \in Capacities : ReadFrame(frames)
  BY <1>5, ReadIInv
<1> QED BY <1>1, <1>2, <1>3, <1>4, <1>5 DEF Next

-----------------------------------------------------------------------------
\* The invariant holds from the first override to the last read.
THEOREM ConfigInvariant == Spec => []IInv
BY ConfigInit, ConfigStep, PTL DEF Spec

\* A created capture has a queue of at least one slot of at least one byte, and every
\* size stays within its width.
THEOREM ConfigTypeCorrect == Spec => []TypeOK
<1>1. IInv => TypeOK
  BY DEF IInv
<1> QED BY <1>1, ConfigInvariant, PTL

\* mic_t::open() finds no fault with what weba_capture_create() accepted.
THEOREM AcceptedOpens == Spec => []CreatedOpens
<1>1. IInv => CreatedOpens
  BY DEF IInv
<1> QED BY <1>1, ConfigInvariant, PTL

\* The three sizes of a sample agree: a slot is a whole number of frames as
\* libpulse counts them, the uint8_t counts lose nothing, and a fragment is one
\* frame for every frame whose bytes 32 bits can count.
THEOREM FrameSizesAgree == Spec => []SizesAgree
<1>1. IInv => SizesAgree
  <2>1. SUFFICES ASSUME IInv, stream # NoStream
                 PROVE  /\ slotBytes = handle.samples * stream.channels
                                        * PulseSampleBytes(stream.format)
                        /\ stream.mapped = stream.channels
                        /\ slotBytes < W32 => stream.fragsize = slotBytes
    BY DEF SizesAgree
  <2>2. handle \in Settings /\ Accepted(handle) /\ slotBytes = FrameBytes(handle)
        /\ stream.fragsize = Fragment(handle) /\ slotBytes \in Nat
    BY <2>1, Widths DEF IInv, TypeOK, HandleChecked, QueueSized, StreamMatches
  <2>3. /\ slotBytes = handle.samples * stream.channels * PulseSampleBytes(stream.format)
        /\ stream.mapped = stream.channels
    BY <2>1, <2>2, FrameFits DEF IInv, StreamMatches
  <2>4. ASSUME slotBytes < W32
        PROVE  stream.fragsize = slotBytes
    <3>1. stream.fragsize = slotBytes % W32
      BY <2>2, FrameFits DEF Fragment
    <3> QED BY <2>2, <2>4, <3>1, Widths
  <2> QED BY <2>3, <2>4
<1> QED BY <1>1, ConfigInvariant, PTL

\* A read never copies past the frames that the caller said its buffer holds.
THEOREM CopiesFit == Spec => []CopyFits
<1>1. IInv => CopyFits
  BY DEF IInv
<1> QED BY <1>1, ConfigInvariant, PTL

\* The product that sizes the storage does not wrap in size_t for frames of at most
\* 2^32 bytes, whatever the number of slots: only larger ones can meet it.
THEOREM StorageOfWordFrames == Spec => []StorageSuffices
<1>1. IInv => StorageSuffices
  <2>1. SUFFICES ASSUME IInv, handle # NoHandle, slotBytes <= W32
                 PROVE  storage = capacity * slotBytes
    BY DEF StorageSuffices
  <2>2. /\ capacity \in Word /\ slotBytes \in Nat
        /\ storage = (capacity * slotBytes) % W64
    BY <2>1, Widths DEF IInv, TypeOK, QueueSized, StorageLength, Capacity, Word
  <2>3. capacity * slotBytes \in Nat /\ capacity * slotBytes < W64
    <3>1. capacity \in Nat /\ capacity <= W32 - 1 /\ W32 \in Nat /\ W32 > 0
      BY <2>2, Widths DEF Word
    <3>2. \A n, m, k \in Nat : n <= m => n * k <= m * k /\ k * n <= k * m /\ n * k \in Nat
      OBVIOUS
    <3>3. capacity * slotBytes <= capacity * W32 /\ capacity * slotBytes \in Nat
      BY <2>1, <2>2, <3>1, <3>2
    <3>4. capacity * W32 <= (W32 - 1) * W32
      BY <3>1, <3>2
    <3>5. (W32 - 1) * W32 = W32 * W32 - W32 /\ W32 * W32 \in Nat
      BY <3>1
    <3> QED BY <3>1, <3>3, <3>4, <3>5 DEF W64
  <2> QED BY <2>2, <2>3, Widths
<1> QED BY <1>1, ConfigInvariant, PTL
=============================================================================
