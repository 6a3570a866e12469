------------------------------- MODULE Config --------------------------------
(***************************************************************************)
(* From a weba_config to a recording stream: weba_capture_create() and     *)
(* frame_bytes() (src/src/capture.cpp), frame_queue_t::init(), and         *)
(* mic_t::open() (src/src/pulse_mic.cpp), with the widths of the integers  *)
(* they compute in.  A frame's size is worked out in three places, each    *)
(* with its own size of a sample, and the frame passes through all of      *)
(* them: the queue's slot, the stream's fragment and libpulse's frame.     *)
(***************************************************************************)
EXTENDS Integers

CONSTANTS
  W32,             \* the values of a uint32_t are below it
  DefaultRate, DefaultSamples, DefaultRing, DefaultRecheck,  \* kDefault...
  Rates, ChannelCounts, SampleCounts, Rings, Rechecks,       \* what callers give
  Capacities,      \* the buffers they read into, in frames
  Sink, NoSink,    \* a NULL or empty sink is NoSink
  NullConfig, NoHandle, NoStream  \* null pointers

\* size_t is twice as wide, and max_size() is half of what it counts.
W64 == W32 * W32
MaxLength == (W64 \div 2) - 1
Word == 0 .. W32 - 1
DefaultChannels == 2

ASSUME ConfigAssumption ==
  /\ W32 \in Nat /\ W32 >= 256
  /\ {DefaultRate, DefaultSamples, DefaultRing, DefaultRecheck} \subseteq Word \ {0}
  /\ Rates \cup ChannelCounts \cup SampleCounts \cup Rings \cup Rechecks \cup Capacities
       \subseteq Word
  /\ NoSink \notin Sink

VARIABLES
  cfg,          \* the configuration that the caller fills in, or NULL
  result,       \* what weba_capture_create() returned
  handle,       \* the settings of the capture that it made
  slotBytes, capacity, storage,  \* its queue's, the last as a length
  stream,       \* the recording stream
  openError,    \* why the last mic_t::open() gave none
  copied, room  \* the bytes the last read wrote, and those it had room for

queueVars == <<slotBytes, capacity, storage>>
vars == <<cfg, result, handle, queueVars, stream, openError, copied, room>>

-----------------------------------------------------------------------------
\* "other" is an int in a weba_sample_format that names none.
Formats == {"F32LE", "S16LE", "S32LE", "other"}

Settings == [rate : Word, channels : Word, samples : Word, format : Formats,
             sink : Sink \cup {NoSink}, ring : Word, fixedRate : BOOLEAN, recheck : Word]

\* A zero-initialised weba_config, and weba_config_defaults().
ZeroConfig ==
  [rate |-> 0, channels |-> 0, samples |-> 0, format |-> "F32LE", sink |-> NoSink,
   ring |-> 0, fixedRate |-> FALSE, recheck |-> 0]
DefaultConfig ==
  [rate |-> DefaultRate, channels |-> DefaultChannels, samples |-> DefaultSamples,
   format |-> "F32LE", sink |-> NoSink, ring |-> DefaultRing, fixedRate |-> TRUE,
   recheck |-> DefaultRecheck]

\* What a stream was opened with: the sample spec, the channel map's length, the fragment.
Streams == [rate : Word, channels : 0 .. 255, format : Formats, mapped : 0 .. 255,
            fragsize : Word]

\* A null pointer is none of these.
ASSUME PointerAssumption ==
  NullConfig \notin Settings /\ NoHandle \notin Settings /\ NoStream \notin Streams

TypeOK ==
  /\ cfg \in Settings \cup {NullConfig}
  /\ result \in {"none", "ok", "format", "nomem", "threw"}
  /\ handle \in Settings \cup {NoHandle}
  /\ slotBytes \in 0 .. W64 - 1 /\ storage \in 0 .. W64 - 1
  /\ capacity \in Word
  /\ stream \in Streams \cup {NoStream}
  /\ openError \in {"none", "monitor", "channels", "samples", "format", "map", "server"}
  /\ copied \in 0 .. W64 - 1 /\ room \in Nat
  /\ handle # NoHandle => result = "ok" /\ slotBytes > 0 /\ capacity > 0
  /\ stream # NoStream => handle # NoHandle

Init ==
  /\ cfg \in {NullConfig, ZeroConfig}
  /\ result = "none"
  /\ handle = NoHandle
  /\ slotBytes = 0 /\ capacity = 0 /\ storage = 0
  /\ stream = NoStream /\ openError = "none"
  /\ copied = 0 /\ room = 0

-----------------------------------------------------------------------------
(* The caller prepares a configuration. *)

\* weba_config_defaults(), which leaves a NULL alone.
ConfigDefaults ==
  /\ handle = NoHandle /\ cfg # NullConfig
  /\ cfg' = DefaultConfig
  /\ UNCHANGED <<result, handle, queueVars, stream, openError, copied, room>>

\* The caller overrides a field.
Override ==
  /\ handle = NoHandle /\ cfg # NullConfig
  /\ \/ \E v \in Rates : cfg' = [cfg EXCEPT !.rate = v]
     \/ \E v \in ChannelCounts : cfg' = [cfg EXCEPT !.channels = v]
     \/ \E v \in SampleCounts : cfg' = [cfg EXCEPT !.samples = v]
     \/ \E v \in Formats : cfg' = [cfg EXCEPT !.format = v]
     \/ \E v \in Sink : cfg' = [cfg EXCEPT !.sink = v]
     \/ \E v \in Rings : cfg' = [cfg EXCEPT !.ring = v]
     \/ cfg' = [cfg EXCEPT !.fixedRate = ~cfg.fixedRate]
     \/ \E v \in Rechecks : cfg' = [cfg EXCEPT !.recheck = v]
  /\ UNCHANGED <<result, handle, queueVars, stream, openError, copied, room>>

-----------------------------------------------------------------------------
(* weba_capture_create(). *)

\* What a new weba_capture's fields hold before a configuration is applied.
HandleDefaults ==
  [rate |-> DefaultRate, channels |-> DefaultChannels, samples |-> DefaultSamples,
   format |-> "F32LE", sink |-> NoSink, ring |-> DefaultRing, fixedRate |-> TRUE,
   recheck |-> DefaultRecheck]

\* The configuration over them, with the values documented for zero.
Or(value, default) == IF value # 0 THEN value ELSE default
Resolved ==
  IF cfg = NullConfig THEN HandleDefaults
  ELSE [cfg EXCEPT !.rate = Or(@, DefaultRate), !.channels = Or(@, DefaultChannels),
                   !.samples = Or(@, DefaultSamples), !.ring = Or(@, DefaultRing),
                   !.recheck = Or(@, DefaultRecheck)]

ChannelsSupported(n) == n \in {1, 2, 6, 8}

SampleBytesPacked(format) ==
  CASE format = "S16LE" -> 2 [] format = "F32LE" -> 4 [] format = "S32LE" -> 3 [] OTHER -> 0
\* weba_capture::frame_bytes(), in size_t.
SampleBytes(format) ==
  CASE format = "S16LE" -> 2 [] format \in {"F32LE", "S32LE"} -> 4 [] OTHER -> 0
FrameBytes(s) == (s.samples * s.channels * SampleBytes(s.format)) % W64

AcceptedAnyCount(s) == s.format \in {"F32LE", "S16LE", "S32LE"}
\* The checks for zero can no longer fail.
Accepted(s) ==
  /\ ChannelsSupported(s.channels)
  /\ s.format \in {"F32LE", "S16LE", "S32LE"}

\* frame_queue_t::init() raises a zero to one.
Capacity(s) == IF s.ring = 0 THEN 1 ELSE s.ring

StorageLengthInWord(s) == (Capacity(s) * FrameBytes(s)) % W32
\* The length that it asks of its vector, in size_t.
StorageLength(s) == (Capacity(s) * FrameBytes(s)) % W64

Refuses(why) ==
  /\ result' = why
  /\ UNCHANGED <<handle, queueVars>>

\* A length beyond max_size() throws what init() does not catch.
CreateCall ==
  /\ handle = NoHandle
  /\ IF ~Accepted(Resolved)
     THEN Refuses("format") \/ Refuses("nomem")
     ELSE IF StorageLength(Resolved) > MaxLength
     THEN Refuses("threw") \/ Refuses("nomem")
     ELSE \/ Refuses("nomem")
          \/ /\ FrameBytes(Resolved) # 0
             /\ result' = "ok"
             /\ handle' = Resolved
             /\ slotBytes' = FrameBytes(Resolved)
             /\ capacity' = Capacity(Resolved)
             /\ storage' = StorageLength(Resolved)
  /\ UNCHANGED <<cfg, stream, openError, copied, room>>

-----------------------------------------------------------------------------
(* mic_t::open(), by the capture thread. *)

\* map_sample_format(): the formats that it knows, and its bytes_per_sample for them.
MapsFormat(format) == format \in {"F32LE", "S16LE", "S32LE"}
MapSampleBytes(format) == IF format = "S16LE" THEN 2 ELSE 4

\* What a sample of the format takes in a stream, and in the caller's buffer.
PulseSampleBytes(format) ==
  CASE format = "S16LE" -> 2 [] format = "F32LE" -> 4 [] format = "S32LE" -> 4 [] OTHER -> 0

\* build_channel_map() knows the layouts of these.
HasMap(n) == n \in {1, 2, 6, 8}

\* The fragment, in 32 bits.
Fragment(s) == (s.samples * s.channels * MapSampleBytes(s.format)) % W32

\* The checks in their order; then the server, or libpulse, may refuse too.
Refusal(monitorNamed) ==
  IF ~monitorNamed THEN "monitor"
  ELSE IF ~ChannelsSupported(handle.channels) THEN "channels"
  ELSE IF handle.samples = 0 THEN "samples"
  ELSE IF ~MapsFormat(handle.format) THEN "format"
  ELSE IF ~HasMap(handle.channels) THEN "map"
  ELSE "none"

\* The sample spec and the channel map hold the count in a uint8_t.
OpenStream(monitorNamed) ==
  /\ handle # NoHandle /\ stream = NoStream
  /\ \/ /\ openError' = IF Refusal(monitorNamed) = "none" THEN "server" ELSE Refusal(monitorNamed)
        /\ UNCHANGED stream
     \/ /\ Refusal(monitorNamed) = "none"
        /\ openError' = "none"
        /\ stream' = [rate |-> handle.rate, channels |-> handle.channels % 256,
                      format |-> handle.format, mapped |-> handle.channels % 256,
                      fragsize |-> Fragment(handle)]
  /\ UNCHANGED <<cfg, result, handle, queueVars, copied, room>>

\* A failed read, or a default sink that moved, ends the stream.
StreamEnds ==
  /\ stream # NoStream
  /\ stream' = NoStream
  /\ UNCHANGED <<cfg, result, handle, queueVars, openError, copied, room>>

-----------------------------------------------------------------------------
(* weba_capture_read_frame(), for the bytes it copies. *)

HoldsSamples(frames) == frames * handle.channels >= handle.samples
\* dst_capacity_frames counts frames, not samples.
Holds(frames) == frames >= handle.samples

\* The caller's buffer holds that many frames of the format it configured.
ReadFrame(frames) ==
  /\ handle # NoHandle
  /\ IF Holds(frames)
     THEN /\ copied' = slotBytes
          /\ room' = frames * handle.channels * PulseSampleBytes(handle.format)
     ELSE copied' = 0 /\ room' = 0
  /\ UNCHANGED <<cfg, result, handle, queueVars, stream, openError>>

-----------------------------------------------------------------------------
Next ==
  \/ ConfigDefaults \/ Override
  \/ CreateCall
  \/ \E named \in BOOLEAN : OpenStream(named)
  \/ StreamEnds
  \/ \E frames \in Capacities : ReadFrame(frames)

Spec == Init /\ [][Next]_vars

-----------------------------------------------------------------------------
\* What weba_capture_create() accepts, mic_t::open() finds no fault with: a bad
\* configuration fails the creation, not every open the capture thread tries.
CreatedOpens == openError \in {"none", "monitor", "server"}

\* What one read takes from the stream is what a queue slot holds: whole frames of
\* the stream as libpulse sizes them, with a channel map of the same width.
\* "Fragments are sized to exactly one frame", unless the size wraps in 32 bits.
SizesAgree ==
  stream # NoStream =>
    /\ slotBytes = handle.samples * stream.channels * PulseSampleBytes(stream.format)
    /\ stream.mapped = stream.channels
    /\ slotBytes < W32 => stream.fragsize = slotBytes

\* A read copies no more than the caller made room for.
CopyFits == copied <= room

\* A queue that frame_queue_t::init() made has the storage of all its slots, however
\* many were asked for, as long as 32 bits can count the bytes of a frame, or just
\* cannot.  For longer frames the product wraps in size_t too.
StorageSuffices == handle # NoHandle /\ slotBytes <= W32 => storage = capacity * slotBytes
=============================================================================
