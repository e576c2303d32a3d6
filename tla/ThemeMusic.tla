----------------------------- MODULE ThemeMusic -----------------------------
(***************************************************************************)
(* The theme music of the menu (arm9/source/thememusic.cpp): a single-     *)
(* producer, single-consumer ring between the main loop, which reads the   *)
(* track and queues it, and the maxmod timer interrupt, which empties the  *)
(* ring into the mixer.  The interrupt may come between any two steps of   *)
(* the main loop, but runs to its end (one CPU), so it is one action.      *)
(*                                                                         *)
(* The unit of every size is one 16-bit sample; a frame is one sample per  *)
(* channel.  A sample is represented by its index in its track.            *)
(***************************************************************************)
EXTENDS Integers, Sequences

CONSTANTS RingSize,      \* kRingBytes
          PrimeSize,     \* kStartupPrimeBytes
          ChunkSize,     \* kReadChunkBytes
          CounterSize,   \* the range of a u32 byte counter
          MaxRequest,    \* the most frames one callback asks for
          Tracks,        \* tracks the theme folder may hold: [channels, length, loopStart]
          NoTrack,
          NoRing,        \* _ring == NULL
          Garbage,       \* a ring slot that holds no complete sample
          Silence

\* The counters wrap at a multiple of the ring, a ring holds whole frames of
\* either format, and maxmod asks for no more frames than its buffer has: all
\* hold of 512 KiB, 2^32 and kMaxmodBufferFrames.
ASSUME SizesAssumption ==
    /\ RingSize \in Nat \ {0} /\ RingSize % 2 = 0
    /\ CounterSize \in Nat /\ CounterSize > RingSize /\ CounterSize % RingSize = 0
    /\ PrimeSize \in Nat \ {0} /\ ChunkSize \in Nat \ {0}
    /\ MaxRequest \in Nat \ {0} /\ MaxRequest <= RingSize

\* parse() of both sources refuses an empty track and more than two channels
\* (a wav) or plays only two (a bcstm).
ASSUME TracksAssumption ==
    /\ \A t \in Tracks : /\ t.channels \in {1, 2}
                         /\ t.length \in Nat \ {0}
                         /\ t.length % t.channels = 0
                         /\ t.loopStart \in Nat /\ t.loopStart < t.length
                         /\ t.loopStart % t.channels = 0
    /\ NoTrack \notin Tracks
    /\ Garbage \notin Nat
    /\ NoRing \notin [0 .. RingSize - 1 -> Nat \cup {Garbage}]

VARIABLES enabled,       \* gs().playThemeMusic
          main,          \* where the main loop is
          caller,        \* who called queueBytes: "start" or "update"
          job,           \* locals of queueBytes: length left, current segment
          source,        \* _source: the open track and its read position
          ring,          \* *_ring
          readTotal,     \* _readTotal, moved by the interrupt only
          writeTotal,    \* _writeTotal, moved by the main loop only
          frame,         \* _frameBytes, in samples
          sourceFailed,  \* _sourceFailed
          playing,       \* _playing
          active,        \* gActiveThemeMusic == this
          streamOpen,    \* _streamOpen: maxmod calls the callback
          installed,     \* _maxmodInitialized
          vblank,        \* REG_IE has IRQ_VBLANK
          restart,       \* stop() is followed by start() (a launch failed)
          speaker        \* the buffer the last callback filled

flags == <<enabled, installed, vblank, restart>>
sound == <<source, ring, frame, sourceFailed>>
vars == <<flags, sound, main, caller, job, readTotal, writeTotal,
          playing, active, streamOpen, speaker>>

NoSource == [track |-> NoTrack, next |-> 0]
NoJob == [length |-> 0, segment |-> 0]
Slots == 0 .. RingSize - 1

-----------------------------------------------------------------------------
\* u32 arithmetic on the counters: both operands are below CounterSize and s
\* is at most RingSize.
WrapAdd(c, s) == IF c + s >= CounterSize THEN c + s - CounterSize ELSE c + s
WrapSub(c, d) == IF c >= d THEN c - d ELSE c - d + CounterSize

Used == WrapSub(writeTotal, readTotal)
Offset(c) == c % RingSize
Lesser(a, b) == IF a < b THEN a ELSE b
WholeFrames(n, f) == n - (n % f)

\* The slots of a segment of s samples that starts at counter c.
Segment(c, s) == Offset(c) .. (Offset(c) + s - 1)
-----------------------------------------------------------------------------
Init ==
    /\ enabled \in BOOLEAN /\ main = "start" /\ caller = "start" /\ job = NoJob
    /\ source = NoSource /\ ring = NoRing
    /\ readTotal = 0 /\ writeTotal = 0 /\ frame = 0
    /\ sourceFailed = FALSE /\ playing = FALSE
    /\ active = FALSE /\ streamOpen = FALSE /\ installed = FALSE
    /\ vblank = TRUE /\ restart = FALSE /\ speaker = <<>>

\* queueBytes: a snapshot of both counters decides how much is queued.
QueueBytesUnbounded(who, length, read, write, f) ==   \* mutant: room is not asked
    /\ caller' = who
    /\ main' = "queue"
    /\ job' = [length |-> WholeFrames(Lesser(length, RingSize), f), segment |-> 0]

QueueBytes(who, length, read, write, f) ==
    LET room == RingSize - WrapSub(write, read)
    IN  /\ caller' = who
        /\ main' = "queue"
        /\ job' = [length |-> WholeFrames(Lesser(length, room), f), segment |-> 0]

\* start(): music is off or already on, or no candidate opens.
StartRefused ==
    /\ main = "start"
    /\ main' = "menu"
    /\ UNCHANGED <<flags, sound, caller, job, readTotal, writeTotal,
                   playing, active, streamOpen, speaker>>

\* start(): the first candidate of the shuffled list that opens is played.
\* The ring is fresh memory.
StartTrack(t) ==
    /\ main = "start" /\ enabled /\ ~playing
    /\ source' = [track |-> t, next |-> 0]
    /\ frame' = t.channels
    /\ sourceFailed' = FALSE
    /\ ring' = [s \in Slots |-> Garbage]
    /\ readTotal' = 0 /\ writeTotal' = 0
    /\ QueueBytes("start", PrimeSize, 0, 0, t.channels)
    /\ UNCHANGED <<flags, playing, active, streamOpen, speaker>>

\* start(): malloc of the ring fails; the source is deleted again.
StartNoMemory(t) ==
    /\ main = "start" /\ enabled /\ ~playing
    /\ frame' = t.channels
    /\ sourceFailed' = FALSE
    /\ main' = "menu"
    /\ UNCHANGED <<flags, source, ring, caller, job, readTotal, writeTotal,
                   playing, active, streamOpen, speaker>>

\* The error paths of start() after the ring was allocated.
GiveUpKeepsSource == ring' = NoRing /\ main' = "menu" /\ UNCHANGED source  \* mutant
GiveUp == /\ ring' = NoRing /\ source' = NoSource
          /\ main' = "menu"

\* One pass of the loop of queueBytes up to the call of the source: while the
\* source decodes into the segment, its slots hold no complete sample.
ReadInto(segment) ==
    /\ main = "queue" /\ job.length > 0
    /\ segment > 0
    /\ main' = "reading"
    /\ job' = [job EXCEPT !.segment = segment]
    /\ ring' = [s \in Slots |-> IF s \in Segment(writeTotal, segment)
                                THEN Garbage ELSE ring[s]]
    /\ UNCHANGED <<flags, source, frame, sourceFailed, caller, readTotal,
                   writeTotal, playing, active, streamOpen, speaker>>

QueueSegment ==
    LET contiguous == RingSize - Offset(writeTotal)
    IN  ReadInto(WholeFrames(Lesser(job.length, contiguous), frame))

\* A track goes on at its loop start when its length is reached.
Looped(track, n) ==
    IF n < track.length THEN n
    ELSE track.loopStart + ((n - track.loopStart) % (track.length - track.loopStart))

\* The sample the source writes into slot s of the segment.
Decoded(s) == Looped(source.track, source.next + (s - Offset(writeTotal)))

\* The source has filled the segment; the barrier orders the samples before
\* the counter that publishes them.
PublishSegment ==
    /\ main = "reading"
    /\ main' = "queue"
    /\ ring' = [s \in Slots |-> IF s \in Segment(writeTotal, job.segment)
                                THEN Decoded(s) ELSE ring[s]]
    /\ source' = [source EXCEPT !.next = Looped(source.track, source.next + job.segment)]
    /\ writeTotal' = WrapAdd(writeTotal, job.segment)
    /\ job' = [length |-> job.length - job.segment, segment |-> 0]
    /\ UNCHANGED <<flags, frame, sourceFailed, caller, readTotal,
                   playing, active, streamOpen, speaker>>

\* The source fails: nothing is published, and nothing is ever queued again.
ReadFails ==
    /\ main = "reading"
    /\ sourceFailed' = TRUE
    /\ job' = NoJob
    /\ IF caller = "start" THEN GiveUp
                           ELSE main' = "menu" /\ UNCHANGED <<ring, source>>
    /\ UNCHANGED <<flags, frame, caller, readTotal, writeTotal,
                   playing, active, streamOpen, speaker>>

QueueDone ==
    /\ main = "queue" /\ job.length = 0
    /\ main' = IF caller = "start" THEN "install" ELSE "menu"
    /\ job' = NoJob
    /\ UNCHANGED <<flags, sound, caller, readTotal, writeTotal,
                   playing, active, streamOpen, speaker>>
-----------------------------------------------------------------------------
\* start(): maxmod is installed on the ARM7 once; it may refuse.
InstallMaxmod ==
    /\ main = "install"
    /\ installed' = TRUE
    /\ vblank' = FALSE
    /\ main' = "activate"
    /\ UNCHANGED <<enabled, restart, sound, caller, job, readTotal, writeTotal,
                   playing, active, streamOpen, speaker>>

InstallRefused ==
    /\ main = "install" /\ ~installed
    /\ GiveUp
    /\ UNCHANGED <<flags, frame, sourceFailed, caller, job, readTotal,
                   writeTotal, playing, active, streamOpen, speaker>>

Activate ==
    /\ main = "activate"
    /\ active' = TRUE /\ playing' = TRUE
    /\ main' = "open"
    /\ UNCHANGED <<flags, sound, caller, job, readTotal, writeTotal,
                   streamOpen, speaker>>

OpenStream ==
    /\ main = "open"
    /\ streamOpen' = TRUE
    /\ vblank' = TRUE
    /\ main' = "menu"
    /\ UNCHANGED <<enabled, installed, restart, sound, caller, job, readTotal,
                   writeTotal, playing, active, speaker>>
-----------------------------------------------------------------------------
\* update(), once per turn of the main loop and of every modal loop.
UpdateNeeds(due) ==
    /\ main = "menu"
    /\ playing /\ ring # NoRing /\ ~sourceFailed
    /\ due
    /\ QueueBytes("update", ChunkSize, readTotal, writeTotal, frame)
    /\ UNCHANGED <<flags, sound, readTotal, writeTotal,
                   playing, active, streamOpen, speaker>>

UpdateUnlessDry == UpdateNeeds(Used \in 1 .. RingSize - 1)  \* mutant: a dry ring stays dry
Update == UpdateNeeds(Used < RingSize)

\* The settings dialog toggles the option, then calls start() or stop().
ToggleMusic ==
    /\ main = "menu"
    /\ enabled' = ~enabled
    /\ restart' = FALSE
    /\ main' = IF enabled THEN "stop" ELSE "start"
    /\ UNCHANGED <<installed, vblank, sound, caller, job, readTotal,
                   writeTotal, playing, active, streamOpen, speaker>>

\* Every launcher stops the music; when the launch fails the menu goes on and
\* starts it again (a launch that succeeds never comes back).
FailedLaunch ==
    /\ main = "menu"
    /\ restart' = TRUE
    /\ main' = "stop"
    /\ UNCHANGED <<enabled, installed, vblank, sound, caller, job, readTotal,
                   writeTotal, playing, active, streamOpen, speaker>>

\* stop(), in the order of its statements.
StopPlaying ==
    /\ main = "stop"
    /\ playing' = FALSE
    /\ main' = "close"
    /\ UNCHANGED <<flags, sound, caller, job, readTotal, writeTotal,
                   active, streamOpen, speaker>>

CloseTo(open) ==
    /\ main = "close"
    /\ streamOpen' = open
    /\ main' = "release"
    /\ UNCHANGED <<flags, sound, caller, job, readTotal, writeTotal,
                   playing, active, speaker>>

CloseStreamLeftOpen == CloseTo(streamOpen)       \* mutant: mmStreamClose is missing
CloseStream == CloseTo(FALSE)

ReleaseRing ==
    /\ main = "release"
    /\ active' = FALSE
    /\ source' = NoSource /\ ring' = NoRing
    /\ readTotal' = 0 /\ writeTotal' = 0
    /\ main' = IF restart THEN "start" ELSE "menu"
    /\ restart' = FALSE
    /\ UNCHANGED <<enabled, installed, vblank, frame, sourceFailed, caller, job,
                   playing, streamOpen, speaker>>
-----------------------------------------------------------------------------
\* What the callback copies out: c samples from readTotal on, in ring order.
Copied(c) == [i \in 1 .. c |-> ring[Offset(readTotal + i - 1)]]
Zeros(n) == [i \in 1 .. n |-> Silence]

\* maxmodStreamCallback and fillStream, for a request of n frames.
CopyOut(requested, copied, advance) ==
    /\ streamOpen
    /\ IF active /\ playing /\ ring # NoRing
       THEN /\ speaker' = Copied(copied) \o Zeros(requested - copied)
            /\ readTotal' = WrapAdd(readTotal, advance)
       ELSE /\ speaker' = Zeros(requested)
            /\ UNCHANGED readTotal
    /\ UNCHANGED <<flags, sound, main, caller, job, writeTotal,
                   playing, active, streamOpen>>

FillStreamSkips(n) ==                  \* mutant: an underrun is counted as read
    LET requested == n * frame
    IN  CopyOut(requested, WholeFrames(Lesser(requested, Used), frame), requested)

FillStream(n) ==
    LET requested == n * frame
        copied == WholeFrames(Lesser(requested, Used), frame)
    IN  CopyOut(requested, copied, copied)

Callback == \E n \in 1 .. MaxRequest : FillStream(n)

Start == \/ StartRefused
         \/ \E t \in Tracks : StartTrack(t) \/ StartNoMemory(t)
         \/ InstallMaxmod \/ InstallRefused \/ Activate \/ OpenStream
Queue == QueueSegment \/ PublishSegment \/ ReadFails \/ QueueDone
Stop == StopPlaying \/ CloseStream \/ ReleaseRing
MainLoop == Start \/ Queue \/ Update \/ Stop

Next == MainLoop \/ ToggleMusic \/ FailedLaunch \/ Callback

Spec == Init /\ [][Next]_vars

\* The main loop turns and the sound hardware keeps asking; nothing makes the
\* user change a setting or launch a game.
FairSpec == Spec /\ WF_vars(MainLoop) /\ WF_vars(Callback)
-----------------------------------------------------------------------------
TypeOK ==
    /\ enabled \in BOOLEAN /\ sourceFailed \in BOOLEAN /\ playing \in BOOLEAN
    /\ active \in BOOLEAN /\ streamOpen \in BOOLEAN /\ installed \in BOOLEAN
    /\ vblank \in BOOLEAN /\ restart \in BOOLEAN
    /\ main \in {"menu", "start", "queue", "reading", "install", "activate",
                 "open", "stop", "close", "release"}
    /\ caller \in {"start", "update"}
    /\ job \in [length : 0 .. RingSize, segment : 0 .. RingSize]
    /\ source \in [track : Tracks \cup {NoTrack}, next : Nat]
    /\ ring \in [Slots -> Nat \cup {Garbage}] \cup {NoRing}
    /\ readTotal \in 0 .. CounterSize - 1
    /\ writeTotal \in 0 .. CounterSize - 1
    /\ frame \in 0 .. 2
    /\ speaker \in Seq(Nat \cup {Silence, Garbage})

\* The ring is never overrun: what is pending and the segment being decoded
\* fit into it together, although the counters wrap and the interrupt moves
\* readTotal between the snapshot of queueBytes and its last store.
RingNotOverrun ==
    Used + job.length <= RingSize /\ job.segment <= job.length

\* The callback of an open stream finds the ring it copies from: stop() frees
\* it, and start() gives it up, only while the stream is closed.
CallbackHasRing == streamOpen => active /\ ring # NoRing /\ frame > 0

\* Every path through start() and stop() leaves all of the music or none of
\* it, and the vertical blank interrupt enabled.
AllOrNothing ==
    main = "menu" => /\ vblank
                     /\ playing = streamOpen /\ playing = active
                     /\ playing = (ring # NoRing)
                     /\ playing = (source # NoSource)

\* The listener hears the track: see SoundStream.
Pending == IF ring = NoRing THEN <<>> ELSE Copied(Used)
Stream == INSTANCE SoundStream WITH
    Capacity <- RingSize,
    track    <- source.track,
    next     <- source.next,
    pending  <- Pending,
    on       <- playing
HeardInOrder == Stream!Spec

\* A stream that plays for good from a source that does not fail is heard for
\* good: the main loop refills a ring the interrupt has run dry.
Heard == \E i \in 1 .. Len(speaker) : speaker[i] # Silence
MusicGoesOn == <>[](playing /\ ~sourceFailed) => []<><<Heard'>>_vars
=============================================================================
