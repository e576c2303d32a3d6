-------------------------- MODULE ThemeMusicProofs --------------------------
(***************************************************************************)
(* For every size of ring, counter and chunk, every set of tracks and with *)
(* the sources of MusicPlayer: the types and the bound of the ring, what   *)
(* start() and stop() leave, and that the music implements SoundStream.    *)
(* The decoder's arithmetic stays in 32 bits.                              *)
(***************************************************************************)
EXTENDS MusicPlayer, TLAPS

\* What the bound needs besides itself: while the main loop has a ring it has
\* a track to read, and a segment being decoded is not empty.
SourceBehindRing ==
    /\ main \in {"queue", "reading", "install", "activate", "open"} => ring # NoRing
    /\ ring # NoRing => source.track \in Tracks /\ frame \in {1, 2}
    /\ streamOpen => frame \in {1, 2}

RingInv == TypeOK /\ SourceBehindRing /\ RingNotOverrun

-----------------------------------------------------------------------------
\* The part of SizesAssumption that is linear, which the solver handles best.
LEMMA SizesLemma ==
    /\ RingSize \in Nat /\ RingSize > 0 /\ RingSize \in Nat \ {0}
    /\ CounterSize \in Nat /\ CounterSize > RingSize
    /\ PrimeSize \in Nat /\ ChunkSize \in Nat
    /\ MaxRequest \in Nat /\ MaxRequest <= RingSize
BY SizesAssumption

\* u32 addition and subtraction on the counters stay in range and undo each
\* other: WrapSub is the distance the counters are apart, wrapped or not.
LEMMA WrapLemma ==
    ASSUME NEW r \in 0 .. CounterSize - 1, NEW w \in 0 .. CounterSize - 1,
           NEW s \in 0 .. RingSize
    PROVE  /\ WrapSub(w, r) \in 0 .. CounterSize - 1
           /\ WrapAdd(w, s) \in 0 .. CounterSize - 1
           /\ WrapSub(w, r) + s <= RingSize
                => WrapSub(WrapAdd(w, s), r) = WrapSub(w, r) + s
           /\ s <= WrapSub(w, r)
                => WrapSub(w, WrapAdd(r, s)) = WrapSub(w, r) - s
BY SizesLemma DEF WrapSub, WrapAdd

LEMMA WrapSubLemma ==
    ASSUME NEW r \in 0 .. CounterSize - 1, NEW w \in 0 .. CounterSize - 1
    PROVE  WrapSub(w, r) \in 0 .. CounterSize - 1
BY SizesLemma DEF WrapSub

\* Rounding down to whole frames neither grows a length nor makes it negative.
LEMMA WholeFramesLemma ==
    ASSUME NEW n \in Nat, NEW f \in {1, 2}
    PROVE  WholeFrames(n, f) \in 0 .. n
BY DEF WholeFrames

LEMMA LesserLemma ==
    ASSUME NEW a \in Nat, NEW b \in Nat
    PROVE  Lesser(a, b) \in Nat /\ Lesser(a, b) <= a /\ Lesser(a, b) <= b
BY DEF Lesser

LEMMA RemainderLemma ==
    ASSUME NEW n \in Int, NEW d \in Nat \ {0}
    PROVE  n % d \in 0 .. d - 1
OBVIOUS
LEMMA OffsetLemma ==
    ASSUME NEW c \in Nat
    PROVE  Offset(c) \in Slots
BY SizesLemma DEF Offset, Slots

\* A track that goes on at its loop start never leaves the track.
LEMMA LoopedLemma ==
    ASSUME NEW t, NEW n \in Nat,
           t.length \in Nat \ {0}, t.loopStart \in Nat, t.loopStart < t.length
    PROVE  Looped(t, n) \in Nat /\ Looped(t, n) < t.length
<1> DEFINE d == t.length - t.loopStart
           m == n - t.loopStart
<1>1. d \in Nat \ {0} /\ m \in Int
  OBVIOUS
<1>2. m % d \in 0 .. d - 1
  <2> HIDE DEF d, m
  <2> QED
    BY <1>1, RemainderLemma
<1>3. t.loopStart + (m % d) \in Nat /\ t.loopStart + (m % d) < t.length
  <2> DEFINE r == m % d
  <2>1. r \in 0 .. d - 1
    BY <1>2
  <2> HIDE DEF r, m
  <2>2. t.loopStart + r \in Nat /\ t.loopStart + r < t.length
    BY <2>1
  <2> QED
    BY <2>2 DEF r
<1> QED
  BY <1>3 DEF Looped
-----------------------------------------------------------------------------
\* A call of queueBytes asks for no more than the room the snapshot shows.
LEMMA QueueBytesLemma ==
    ASSUME NEW who \in {"start", "update"}, NEW length \in Nat, NEW f \in {1, 2},
           NEW r \in 0 .. CounterSize - 1, NEW w \in 0 .. CounterSize - 1,
           WrapSub(w, r) <= RingSize,
           QueueBytes(who, length, r, w, f)
    PROVE  /\ caller' \in {"start", "update"} /\ main' = "queue"
           /\ job' \in [length : 0 .. RingSize, segment : 0 .. RingSize]
           /\ WrapSub(w, r) + job'.length <= RingSize
           /\ job'.segment = 0
<1> DEFINE room == RingSize - WrapSub(w, r)
           fit  == WholeFrames(Lesser(length, room), f)
<1>1. WrapSub(w, r) \in Nat /\ room \in Nat /\ room <= RingSize
  <2>1. WrapSub(w, r) \in Nat
    BY WrapSubLemma, SizesLemma
  <2> QED
    BY <2>1, SizesLemma
<1>2. Lesser(length, room) \in Nat /\ Lesser(length, room) <= room
  BY <1>1, LesserLemma
<1>3. fit \in Nat /\ fit <= room
  BY <1>1, <1>2, WholeFramesLemma
<1>4. job' = [length |-> fit, segment |-> 0] /\ caller' = who /\ main' = "queue"
  BY DEF QueueBytes
<1> QED
  BY <1>1, <1>3, <1>4, SizesLemma

\* The buffer a callback fills holds samples, garbage and silence, and the
\* callback takes no more than is pending.
LEMMA CopyLemma ==
    ASSUME RingInv, NEW n \in 1 .. MaxRequest, FillStream(n)
    PROVE  /\ speaker' \in Seq(Nat \cup {Silence, Garbage})
           /\ readTotal' \in 0 .. CounterSize - 1
           /\ WrapSub(writeTotal, readTotal') <= Used
           /\ WrapSub(writeTotal, readTotal') \in Nat
<1> DEFINE requested == n * frame
           copied == WholeFrames(Lesser(requested, Used), frame)
           Heards == Nat \cup {Silence, Garbage}
<1>1. frame \in {1, 2} /\ requested \in Nat
  BY SizesLemma DEF RingInv, SourceBehindRing, FillStream, CopyOut
<1>2. readTotal \in 0 .. CounterSize - 1 /\ writeTotal \in 0 .. CounterSize - 1
  BY DEF RingInv, TypeOK
<1>3. Used \in Nat /\ Used <= RingSize /\ Used = WrapSub(writeTotal, readTotal)
  <2>1. Used \in Nat
    BY <1>2, SizesLemma DEF Used, WrapSub
  <2>2. job.length \in Nat /\ Used + job.length <= RingSize
    BY DEF RingInv, TypeOK, RingNotOverrun
  <2> QED
    BY <2>1, <2>2, SizesLemma DEF Used
<1>4. Lesser(requested, Used) \in Nat /\ Lesser(requested, Used) <= Used
      /\ Lesser(requested, Used) <= requested
  BY <1>1, <1>3, LesserLemma
<1>5. copied \in Nat /\ copied <= Used /\ copied <= requested
  BY <1>1, <1>3, <1>4, WholeFramesLemma
<1>6. CASE active /\ playing /\ ring # NoRing
  <2>1. /\ speaker' = Copied(copied) \o Zeros(requested - copied)
        /\ readTotal' = WrapAdd(readTotal, copied)
    BY <1>6 DEF FillStream, CopyOut
  <2>2. Copied(copied) \in Seq(Heards)
    <3>1. ring \in [Slots -> Nat \cup {Garbage}]
      BY <1>6 DEF RingInv, TypeOK
    <3>2. ASSUME NEW i \in 1 .. copied
          PROVE  Offset(readTotal + i - 1) \in Slots
      <4>1. readTotal + i - 1 \in Nat
        BY <1>2, <1>5, SizesLemma
      <4> QED
        BY <4>1, OffsetLemma
    <3> QED
      BY <1>5, <3>1, <3>2 DEF Copied
  <2>3. Zeros(requested - copied) \in Seq(Heards)
    BY <1>1, <1>5 DEF Zeros
  <2>4. speaker' \in Seq(Heards)
    BY <2>1, <2>2, <2>3
  <2>5. copied \in 0 .. RingSize /\ copied <= WrapSub(writeTotal, readTotal)
    BY <1>3, <1>5, SizesLemma
  <2>6. /\ WrapAdd(readTotal, copied) \in 0 .. CounterSize - 1
        /\ WrapSub(writeTotal, WrapAdd(readTotal, copied)) = Used - copied
    BY <1>2, <1>3, <2>5, WrapLemma
  <2> QED
    BY <1>3, <1>5, <2>1, <2>4, <2>6
<1>7. CASE ~(active /\ playing /\ ring # NoRing)
  <2>1. speaker' = Zeros(requested) /\ readTotal' = readTotal
    BY <1>7 DEF FillStream, CopyOut
  <2>2. Zeros(requested) \in Seq(Heards)
    BY <1>1 DEF Zeros
  <2> QED
    BY <1>2, <1>3, <2>1, <2>2
<1> QED
  BY <1>6, <1>7
-----------------------------------------------------------------------------
LEMMA RingInvInit == Init => RingInv
<1> SUFFICES ASSUME Init PROVE RingInv
  OBVIOUS
<1>1. speaker \in Seq(Nat \cup {Silence, Garbage})
  BY DEF Init
<1>2. TypeOK
  <2>1. source \in [track : Tracks \cup {NoTrack}, next : Nat]
    BY DEF Init, NoSource
  <2>2. job \in [length : 0 .. RingSize, segment : 0 .. RingSize]
    BY SizesLemma DEF Init, NoJob
  <2>3. readTotal \in 0 .. CounterSize - 1 /\ writeTotal \in 0 .. CounterSize - 1
    BY SizesLemma DEF Init
  <2>4. /\ frame \in 0 .. 2 /\ caller \in {"start", "update"} /\ main = "start"
        /\ ring = NoRing
    BY DEF Init
  <2>5. /\ enabled \in BOOLEAN /\ sourceFailed \in BOOLEAN /\ playing \in BOOLEAN
        /\ active \in BOOLEAN /\ streamOpen \in BOOLEAN /\ installed \in BOOLEAN
        /\ vblank \in BOOLEAN /\ restart \in BOOLEAN
    BY DEF Init
  <2> QED
    BY <1>1, <2>1, <2>2, <2>3, <2>4, <2>5 DEF TypeOK
<1> QED
  BY <1>2, SizesLemma
  DEF Init, RingInv, SourceBehindRing, RingNotOverrun, Used, WrapSub, NoJob

\* Steps that leave the counters and the job alone.
LEMMA ControlSteps ==
    ASSUME RingInv,
           \/ StartRefused \/ InstallMaxmod \/ Activate \/ OpenStream
           \/ ToggleMusic \/ FailedLaunch \/ StopPlaying \/ CloseStream
           \/ QueueDone
    PROVE  RingInv'
<1> USE SizesLemma DEF RingInv, flags, sound, RingNotOverrun, Used, WrapSub
<1>1. TypeOK'
  <2> USE DEF TypeOK
  <2>1. CASE StartRefused  BY <2>1 DEF StartRefused
  <2>2. CASE InstallMaxmod  BY <2>2 DEF InstallMaxmod
  <2>3. CASE Activate  BY <2>3 DEF Activate
  <2>4. CASE OpenStream  BY <2>4 DEF OpenStream
  <2>5. CASE ToggleMusic  BY <2>5 DEF ToggleMusic
  <2>6. CASE FailedLaunch  BY <2>6 DEF FailedLaunch
  <2>7. CASE StopPlaying  BY <2>7 DEF StopPlaying
  <2>8. CASE CloseStream  BY <2>8 DEF CloseStream, CloseTo
  <2>9. CASE QueueDone  BY <2>9 DEF QueueDone, NoJob
  <2> QED
    BY <2>1, <2>2, <2>3, <2>4, <2>5, <2>6, <2>7, <2>8, <2>9
<1>2. SourceBehindRing'
  BY DEF TypeOK, SourceBehindRing, StartRefused, InstallMaxmod, Activate, OpenStream,
         ToggleMusic, FailedLaunch, StopPlaying, CloseStream, CloseTo, QueueDone
<1>3. RingNotOverrun'
  <2>1. /\ readTotal' = readTotal /\ writeTotal' = writeTotal
        /\ job' = job \/ job' = NoJob
    BY DEF StartRefused, InstallMaxmod, Activate, OpenStream, ToggleMusic,
           FailedLaunch, StopPlaying, CloseStream, CloseTo, QueueDone
  <2> QED
    BY <2>1 DEF TypeOK, NoJob
<1> QED
  BY <1>1, <1>2, <1>3

\* start() before the ring is played: a new track, or the memory is refused.
LEMMA StartSteps ==
    ASSUME RingInv, NEW t \in Tracks, StartTrack(t) \/ StartNoMemory(t)
    PROVE  RingInv'
<1>1. t.channels \in {1, 2} /\ t.length \in Nat \ {0}
  BY TracksAssumption
<1>2. CASE StartTrack(t)
  <2>1. QueueBytes("start", PrimeSize, 0, 0, t.channels)
    BY <1>2 DEF StartTrack
  <2>2. 0 \in 0 .. CounterSize - 1 /\ WrapSub(0, 0) = 0 /\ 0 <= RingSize
    BY SizesLemma DEF WrapSub
  <2>3. /\ caller' \in {"start", "update"} /\ main' = "queue"
        /\ job' \in [length : 0 .. RingSize, segment : 0 .. RingSize]
        /\ 0 + job'.length <= RingSize
        /\ job'.segment = 0
    BY <1>1, <2>1, <2>2, QueueBytesLemma, SizesLemma
  <2>4. ring' \in [Slots -> Nat \cup {Garbage}] /\ ring' # NoRing
    BY <1>2, TracksAssumption DEF StartTrack, Slots
  <2>5. /\ source' = [track |-> t, next |-> 0] /\ frame' = t.channels
        /\ readTotal' = 0 /\ writeTotal' = 0 /\ sourceFailed' = FALSE
    BY <1>2 DEF StartTrack
  <2>6. UNCHANGED <<flags, playing, active, streamOpen, speaker>>
    BY <1>2 DEF StartTrack
  <2>7. TypeOK'
    <3>1. source' \in [track : Tracks \cup {NoTrack}, next : Nat] /\ frame' \in 0 .. 2
      BY <1>1, <2>5
    <3>2. readTotal' \in 0 .. CounterSize - 1 /\ writeTotal' \in 0 .. CounterSize - 1
          /\ sourceFailed' \in BOOLEAN
      BY <2>2, <2>5
    <3> QED
      BY <2>3, <2>4, <2>6, <3>1, <3>2 DEF RingInv, TypeOK, flags
  <2>8. SourceBehindRing'
    BY <1>1, <2>4, <2>5 DEF SourceBehindRing
  <2>9. RingNotOverrun'
    BY <2>2, <2>3, <2>5, SizesLemma DEF RingNotOverrun, Used
  <2> QED
    BY <2>7, <2>8, <2>9 DEF RingInv
<1>3. CASE StartNoMemory(t)
  <2>1. TypeOK'
    <3>1. frame' = t.channels /\ sourceFailed' = FALSE /\ main' = "menu"
      BY <1>3 DEF StartNoMemory
    <3>2. frame' \in 0 .. 2
      BY <1>1, <3>1
    <3>3. UNCHANGED <<flags, source, ring, caller, job, readTotal, writeTotal,
                      playing, active, streamOpen, speaker>>
      BY <1>3 DEF StartNoMemory
    <3> QED
      BY <3>1, <3>2, <3>3 DEF RingInv, TypeOK, flags
  <2>2. SourceBehindRing' /\ RingNotOverrun'
    BY <1>1, <1>3 DEF RingInv, StartNoMemory, SourceBehindRing, RingNotOverrun, Used, WrapSub
  <2> QED
    BY <2>1, <2>2 DEF RingInv
<1> QED
  BY <1>2, <1>3

\* Every path that frees the ring frees it with no job left.
LEMMA GiveUpSteps ==
    ASSUME RingInv, InstallRefused \/ ReadFails \/ ReleaseRing
    PROVE  RingInv'
<1> USE DEF flags, NoSource, NoJob, GiveUp
<1>1. TypeOK'
  <2> USE SizesLemma DEF RingInv, TypeOK
  <2>1. CASE InstallRefused  BY <2>1 DEF InstallRefused
  <2>2. CASE ReadFails
    <3>1. /\ sourceFailed' = TRUE /\ job' = NoJob /\ main' = "menu"
          /\ ring' \in {NoRing, ring} /\ source' \in {NoSource, source}
          /\ UNCHANGED <<flags, frame, caller, readTotal, writeTotal,
                         playing, active, streamOpen, speaker>>
      BY <2>2 DEF ReadFails
    <3>2. job' \in [length : 0 .. RingSize, segment : 0 .. RingSize]
      BY <3>1
    <3>3. source' \in [track : Tracks \cup {NoTrack}, next : Nat]
      BY <3>1
    <3>4. ring' \in [Slots -> Nat \cup {Garbage}] \cup {NoRing}
      BY <3>1
    <3>5. main' = "menu" /\ sourceFailed' \in BOOLEAN
      BY <3>1
    <3>6. UNCHANGED <<flags, frame, caller, readTotal, writeTotal,
                     playing, active, streamOpen, speaker>>
      BY <3>1
    <3> HIDE DEF NoSource, NoJob, GiveUp
    <3> QED
      BY <3>2, <3>3, <3>4, <3>5, <3>6
  <2>3. CASE ReleaseRing
    <3>1. /\ readTotal' = 0 /\ writeTotal' = 0 /\ ring' = NoRing /\ active' = FALSE
          /\ source' = NoSource /\ main' \in {"start", "menu"} /\ restart' = FALSE
      BY <2>3 DEF ReleaseRing
    <3>2. readTotal' \in 0 .. CounterSize - 1 /\ writeTotal' \in 0 .. CounterSize - 1
      BY <3>1
    <3>3. source' \in [track : Tracks \cup {NoTrack}, next : Nat]
      BY <3>1
    <3>4. UNCHANGED <<enabled, installed, vblank, frame, sourceFailed, caller, job,
                      playing, streamOpen, speaker>>
      BY <2>3 DEF ReleaseRing
    <3> HIDE DEF NoSource, NoJob, GiveUp
    <3> QED
      BY <3>1, <3>2, <3>3, <3>4
  <2> QED
    BY <2>1, <2>2, <2>3
<1>2. SourceBehindRing'
  BY DEF RingInv, SourceBehindRing, InstallRefused, ReadFails, ReleaseRing
<1>3. RingNotOverrun'
  <2> USE SizesLemma DEF RingInv, TypeOK, RingNotOverrun, Used, WrapSub
  <2>1. CASE InstallRefused  BY <2>1 DEF InstallRefused
  <2>2. CASE ReadFails  BY <2>2 DEF ReadFails
  <2>3. CASE ReleaseRing  BY <2>3 DEF ReleaseRing
  <2> QED
    BY <2>1, <2>2, <2>3
<1> QED
  BY <1>1, <1>2, <1>3 DEF RingInv

\* update() takes its snapshot while the ring is not overrun.
LEMMA UpdateStep ==
    ASSUME RingInv, Update
    PROVE  RingInv'
<1>1. /\ QueueBytes("update", ChunkSize, readTotal, writeTotal, frame)
      /\ ring # NoRing
      /\ UNCHANGED <<flags, sound, readTotal, writeTotal,
                     playing, active, streamOpen, speaker>>
  BY DEF Update, UpdateNeeds
<1>2. /\ readTotal \in 0 .. CounterSize - 1 /\ writeTotal \in 0 .. CounterSize - 1
      /\ frame \in {1, 2}
  BY <1>1 DEF RingInv, TypeOK, SourceBehindRing
<1>3. WrapSub(writeTotal, readTotal) <= RingSize
  <2>1. job \in [length : 0 .. RingSize, segment : 0 .. RingSize]
    BY DEF RingInv, TypeOK
  <2>2. WrapSub(writeTotal, readTotal) \in 0 .. CounterSize - 1
    BY <1>2, WrapSubLemma
  <2> QED
    BY <2>1, <2>2, SizesLemma DEF RingInv, RingNotOverrun, Used
<1>4. /\ caller' \in {"start", "update"} /\ main' = "queue"
      /\ job' \in [length : 0 .. RingSize, segment : 0 .. RingSize]
      /\ WrapSub(writeTotal, readTotal) + job'.length <= RingSize
      /\ job'.segment = 0
  BY <1>1, <1>2, <1>3, QueueBytesLemma, SizesLemma
<1>5. TypeOK'
  BY <1>1, <1>4 DEF RingInv, TypeOK, flags, sound
<1>6. SourceBehindRing'
  BY <1>1, <1>4 DEF RingInv, SourceBehindRing, sound
<1>7. RingNotOverrun'
  BY <1>1, <1>4, SizesLemma DEF RingNotOverrun, Used, WrapSub
<1> QED
  BY <1>5, <1>6, <1>7 DEF RingInv

\* A segment is at most what the job has left, and publishing it moves the
\* counter by exactly what the job loses.
LEMMA QueueSegmentStep ==
    ASSUME RingInv, QueueSegment
    PROVE  RingInv'
<1> DEFINE contiguous == RingSize - Offset(writeTotal)
           segment == WholeFrames(Lesser(job.length, contiguous), frame)
<1>1. /\ ReadInto(segment) /\ ring # NoRing
      /\ job \in [length : 0 .. RingSize, segment : 0 .. RingSize]
      /\ frame \in {1, 2} /\ writeTotal \in Nat
  BY SizesLemma DEF QueueSegment, ReadInto, RingInv, TypeOK, SourceBehindRing
<1>2. contiguous \in Nat
  BY <1>1, OffsetLemma, SizesLemma DEF Slots
<1>3. Lesser(job.length, contiguous) \in Nat /\ Lesser(job.length, contiguous) <= job.length
  BY <1>1, <1>2, LesserLemma
<1>4. segment \in Nat /\ segment <= job.length
  BY <1>1, <1>3, WholeFramesLemma
<1>5. /\ job' = [job EXCEPT !.segment = segment] /\ main' = "reading"
      /\ ring' = [s \in Slots |-> IF s \in Segment(writeTotal, segment)
                                  THEN Garbage ELSE ring[s]]
      /\ UNCHANGED <<flags, source, frame, sourceFailed, caller, readTotal,
                     writeTotal, playing, active, streamOpen, speaker>>
  BY <1>1 DEF ReadInto
<1>6. ring' \in [Slots -> Nat \cup {Garbage}] /\ ring' # NoRing
  <2>1. ring \in [Slots -> Nat \cup {Garbage}]
    BY <1>1 DEF RingInv, TypeOK
  <2> QED
    BY <1>5, <2>1, TracksAssumption DEF Slots
<1>7. job' \in [length : 0 .. RingSize, segment : 0 .. RingSize]
      /\ job'.length = job.length /\ job'.segment <= job'.length
  BY <1>1, <1>4, <1>5, SizesLemma
<1>8. TypeOK'
  BY <1>5, <1>6, <1>7 DEF RingInv, TypeOK, flags
<1>9. SourceBehindRing' /\ RingNotOverrun'
  BY <1>1, <1>5, <1>6, <1>7 DEF RingInv, SourceBehindRing, RingNotOverrun, Used, WrapSub
<1> QED
  BY <1>8, <1>9 DEF RingInv

LEMMA PublishSegmentStep ==
    ASSUME RingInv, PublishSegment
    PROVE  RingInv'
<1>1. /\ source.track \in Tracks /\ ring # NoRing /\ frame \in {1, 2}
      /\ ring \in [Slots -> Nat \cup {Garbage}]
      /\ source \in [track : Tracks \cup {NoTrack}, next : Nat]
      /\ job \in [length : 0 .. RingSize, segment : 0 .. RingSize]
      /\ readTotal \in 0 .. CounterSize - 1 /\ writeTotal \in 0 .. CounterSize - 1
      /\ Used + job.length <= RingSize /\ job.segment <= job.length
  BY DEF PublishSegment, RingInv, TypeOK, SourceBehindRing, RingNotOverrun
<1>2. /\ main' = "queue"
      /\ ring' = [s \in Slots |-> IF s \in Segment(writeTotal, job.segment)
                                  THEN Decoded(s) ELSE ring[s]]
      /\ source' = [source EXCEPT
                       !.next = Looped(source.track, source.next + job.segment)]
      /\ writeTotal' = WrapAdd(writeTotal, job.segment)
      /\ job' = [length |-> job.length - job.segment, segment |-> 0]
      /\ UNCHANGED <<flags, frame, sourceFailed, caller, readTotal,
                     playing, active, streamOpen, speaker>>
  BY DEF PublishSegment
<1>3. /\ source.track.length \in Nat \ {0} /\ source.track.loopStart \in Nat
      /\ source.track.loopStart < source.track.length
  BY <1>1, TracksAssumption
<1>4. Offset(writeTotal) \in Slots
  BY <1>1, OffsetLemma, SizesLemma
<1>5. \A s \in Slots : s \in Segment(writeTotal, job.segment) => Decoded(s) \in Nat
  <2> SUFFICES ASSUME NEW s \in Slots, s \in Segment(writeTotal, job.segment)
               PROVE  Decoded(s) \in Nat
    OBVIOUS
  <2>1. source.next + (s - Offset(writeTotal)) \in Nat
    BY <1>1, <1>4, SizesLemma DEF Slots, Segment
  <2> QED
    BY <1>3, <2>1, LoopedLemma DEF Decoded
<1>6. ring' \in [Slots -> Nat \cup {Garbage}] /\ ring' # NoRing
  BY <1>1, <1>2, <1>5, TracksAssumption DEF Slots
<1>7. source' \in [track : Tracks \cup {NoTrack}, next : Nat] /\ source'.track = source.track
  <2>1. source.next + job.segment \in Nat
    BY <1>1, SizesLemma
  <2>2. Looped(source.track, source.next + job.segment) \in Nat
    BY <1>3, <2>1, LoopedLemma
  <2> QED
    BY <1>1, <1>2, <2>2
<1>8. /\ writeTotal' \in 0 .. CounterSize - 1
      /\ WrapSub(writeTotal', readTotal') = Used + job.segment
  <2>1. job.segment \in 0 .. RingSize /\ job.length \in Nat /\ Used \in Nat
    BY <1>1, WrapSubLemma, SizesLemma DEF Used
  <2>2. Used + job.segment <= RingSize
    BY <1>1, <2>1, SizesLemma
  <2> QED
    BY <1>1, <1>2, <2>1, <2>2, WrapLemma DEF Used
<1>9. /\ job' \in [length : 0 .. RingSize, segment : 0 .. RingSize]
      /\ job'.length = job.length - job.segment /\ job'.segment = 0
  BY <1>1, <1>2, SizesLemma
<1>10. TypeOK'
  BY <1>2, <1>6, <1>7, <1>8, <1>9 DEF RingInv, TypeOK, flags
<1>11. SourceBehindRing'
  BY <1>1, <1>2, <1>6, <1>7 DEF SourceBehindRing
<1>12. RingNotOverrun'
  <2>1. Used \in Nat /\ job.length \in Nat /\ job.segment \in Nat
    BY <1>1, WrapSubLemma, SizesLemma DEF Used
  <2> QED
    BY <1>1, <1>8, <1>9, <2>1, SizesLemma DEF RingNotOverrun, Used
<1> QED
  BY <1>10, <1>11, <1>12 DEF RingInv

\* The interrupt only makes room.
LEMMA FillStreamStep ==
    ASSUME RingInv, NEW n \in 1 .. MaxRequest, FillStream(n)
    PROVE  RingInv'
<1>1. UNCHANGED <<flags, sound, main, caller, job, writeTotal,
                  playing, active, streamOpen>>
  BY DEF FillStream, CopyOut
<1>2. /\ speaker' \in Seq(Nat \cup {Silence, Garbage})
      /\ readTotal' \in 0 .. CounterSize - 1
      /\ WrapSub(writeTotal, readTotal') <= Used
      /\ WrapSub(writeTotal, readTotal') \in Nat
  BY CopyLemma
<1>3. TypeOK' /\ SourceBehindRing'
  BY <1>1, <1>2 DEF RingInv, TypeOK, SourceBehindRing, flags, sound
<1>4. RingNotOverrun'
  <2>1. /\ readTotal \in 0 .. CounterSize - 1 /\ writeTotal \in 0 .. CounterSize - 1
        /\ job \in [length : 0 .. RingSize, segment : 0 .. RingSize]
    BY DEF RingInv, TypeOK
  <2>2. Used \in 0 .. CounterSize - 1
    BY <2>1, WrapSubLemma DEF Used
  <2> QED
    BY <1>1, <1>2, <2>1, <2>2, SizesLemma DEF RingInv, RingNotOverrun, Used
<1> QED
  BY <1>3, <1>4 DEF RingInv

LEMMA RingInvNext == RingInv /\ [Next]_vars => RingInv'
<1> SUFFICES ASSUME RingInv, [Next]_vars PROVE RingInv'
  OBVIOUS
<1>1. CASE StartRefused \/ InstallMaxmod \/ Activate \/ OpenStream \/ ToggleMusic
           \/ FailedLaunch \/ StopPlaying \/ CloseStream \/ QueueDone
  BY <1>1, ControlSteps
<1>2. CASE \E t \in Tracks : StartTrack(t) \/ StartNoMemory(t)
  BY <1>2, StartSteps
<1>3. CASE InstallRefused \/ ReadFails \/ ReleaseRing
  BY <1>3, GiveUpSteps
<1>4. CASE Update
  BY <1>4, UpdateStep
<1>5. CASE QueueSegment
  BY <1>5, QueueSegmentStep
<1>6. CASE PublishSegment
  BY <1>6, PublishSegmentStep
<1>7. CASE Callback
  BY <1>7, FillStreamStep DEF Callback
<1>8. CASE UNCHANGED vars
  <2> USE <1>8 DEF vars, flags, sound, RingInv
  <2>1. TypeOK'
    BY DEF TypeOK
  <2>2. SourceBehindRing' /\ RingNotOverrun'
    BY DEF SourceBehindRing, RingNotOverrun, Used, WrapSub
  <2> QED
    BY <2>1, <2>2
<1> QED
  BY <1>1, <1>2, <1>3, <1>4, <1>5, <1>6, <1>7, <1>8
  DEF Next, MainLoop, Start, Queue, Stop

\* Every variable of the music keeps its type, for every ring and every theme.
THEOREM ThemeMusicTypeOK == Spec => []TypeOK
<1>1. RingInv => TypeOK
  BY DEF RingInv
<1> QED
  BY <1>1, RingInvInit, RingInvNext, PTL DEF Spec

\* The ring is never overrun: whenever the callback interrupts queueBytes, and
\* wherever the u32 counters wrap, what is pending and what is being queued
\* fit into the ring together.
THEOREM ThemeMusicRingNotOverrun == Spec => []RingNotOverrun
<1>1. RingInv => RingNotOverrun
  BY DEF RingInv
<1> QED
  BY <1>1, RingInvInit, RingInvNext, PTL DEF Spec

-----------------------------------------------------------------------------
(* start() and stop() *)

\* All of the music, none of it, and what start() has before it is played.
AllOn == playing /\ active /\ streamOpen /\ ring # NoRing /\ source # NoSource
AllOff == ~playing /\ ~active /\ ~streamOpen /\ ring = NoRing /\ source = NoSource
Primed == ~playing /\ ~active /\ ~streamOpen /\ ring # NoRing /\ source # NoSource
Paired == active = (ring # NoRing) /\ active = (source # NoSource)

\* What the main loop finds wherever it is.
ControlInv ==
    /\ main \notin {"activate", "open"} => vblank
    /\ main \in {"menu", "start", "stop"} => AllOn \/ AllOff
    /\ main \in {"queue", "reading"} => IF caller = "start" THEN Primed ELSE AllOn
    /\ main \in {"install", "activate"} => Primed
    /\ main = "open" => playing /\ ~streamOpen /\ active /\ Paired
    /\ main = "close" => ~playing /\ Paired /\ streamOpen = active
    /\ main = "release" => ~playing /\ Paired /\ ~streamOpen

LEMMA ControlInit == Init => ControlInv
BY DEF Init, ControlInv, AllOn, AllOff

LEMMA ControlNext == RingInv /\ RingInv' /\ ControlInv /\ [Next]_vars => ControlInv'
<1> SUFFICES ASSUME RingInv, RingInv', ControlInv, [Next]_vars PROVE ControlInv'
  OBVIOUS
<1> USE DEF ControlInv, AllOn, AllOff, Primed, Paired, flags, sound
<1>1. main \in {"menu", "start", "queue", "reading", "install", "activate",
                "open", "stop", "close", "release"}
      /\ caller \in {"start", "update"}
  BY DEF RingInv, TypeOK
<1>2. CASE StartRefused  BY <1>2 DEF StartRefused
<1>3. ASSUME NEW t \in Tracks, StartTrack(t) PROVE ControlInv'
  <2>1. source' = [track |-> t, next |-> 0] /\ main' = "queue" /\ caller' = "start"
    BY <1>3 DEF StartTrack, QueueBytes
  <2>2. source' # NoSource
    BY <2>1, TracksAssumption DEF NoSource
  <2>3. ring' # NoRing
    BY <2>1 DEF RingInv, SourceBehindRing
  <2> QED
    BY <1>3, <2>1, <2>2, <2>3 DEF StartTrack
<1>4. ASSUME NEW t \in Tracks, StartNoMemory(t) PROVE ControlInv'
  BY <1>4 DEF StartNoMemory
<1>5. CASE InstallMaxmod  BY <1>5 DEF InstallMaxmod
<1>6. CASE InstallRefused  BY <1>6 DEF InstallRefused, GiveUp
<1>7. CASE Activate  BY <1>7 DEF Activate
<1>8. CASE OpenStream  BY <1>8 DEF OpenStream
<1>9. CASE QueueSegment
  <2>1. main = "queue" /\ main' = "reading" /\ ring' # NoRing
    BY <1>9 DEF QueueSegment, ReadInto, RingInv, SourceBehindRing
  <2> QED
    BY <1>9, <2>1 DEF QueueSegment, ReadInto
<1>10. CASE PublishSegment
  <2>1. main = "reading" /\ main' = "queue" /\ ring' # NoRing
    BY <1>10 DEF PublishSegment, RingInv, SourceBehindRing
  <2>2. source'.track \in Tracks
    BY <2>1 DEF RingInv, SourceBehindRing
  <2>3. source' # NoSource
    BY <2>2, TracksAssumption DEF NoSource
  <2> QED
    BY <1>10, <2>1, <2>3 DEF PublishSegment
<1>11. CASE ReadFails  BY <1>1, <1>11 DEF ReadFails, GiveUp
<1>12. CASE QueueDone  BY <1>1, <1>12 DEF QueueDone
<1>13. CASE Update  BY <1>13 DEF Update, UpdateNeeds, QueueBytes
<1>14. CASE ToggleMusic  BY <1>14 DEF ToggleMusic
<1>15. CASE FailedLaunch  BY <1>15 DEF FailedLaunch
<1>16. CASE StopPlaying
  <2>1. main = "stop" /\ main' = "close" /\ playing' = FALSE
        /\ UNCHANGED <<vblank, ring, source, active, streamOpen>>
    BY <1>16 DEF StopPlaying
  <2>2. active \in BOOLEAN /\ streamOpen \in BOOLEAN
    BY DEF RingInv, TypeOK
  <2> QED
    BY <2>1, <2>2
<1>17. CASE CloseStream  BY <1>17 DEF CloseStream, CloseTo
<1>18. CASE ReleaseRing  BY <1>18 DEF ReleaseRing
<1>19. CASE Callback
  <2>1. UNCHANGED <<vblank, sound, main, caller, playing, active, streamOpen>>
    BY <1>19 DEF Callback, FillStream, CopyOut
  <2> QED
    BY <2>1
<1>20. CASE UNCHANGED vars  BY <1>20 DEF vars
<1> QED
  BY <1>2, <1>3, <1>4, <1>5, <1>6, <1>7, <1>8, <1>9, <1>10, <1>11, <1>12, <1>13,
     <1>14, <1>15, <1>16, <1>17, <1>18, <1>19, <1>20
  DEF Next, MainLoop, Start, Queue, Stop

\* At every place of start(), update() and stop() the ring, the source and the
\* stream are what that place has made of them.
THEOREM ThemeMusicControl == Spec => [](RingInv /\ ControlInv)
BY RingInvInit, RingInvNext, ControlInit, ControlNext, PTL DEF Spec

\* stop() frees the ring, and start() gives it up, only while the stream is
\* closed: the interrupt never copies from freed memory, wherever it comes.
THEOREM ThemeMusicCallbackHasRing == Spec => []CallbackHasRing
<1>1. RingInv /\ ControlInv => CallbackHasRing
  <2> SUFFICES ASSUME RingInv, ControlInv, streamOpen PROVE active /\ ring # NoRing /\ frame > 0
    BY DEF CallbackHasRing
  <2>1. active /\ ring # NoRing
    BY DEF RingInv, TypeOK, ControlInv, AllOn, AllOff, Primed, Paired
  <2>2. frame \in {1, 2}
    BY <2>1 DEF RingInv, SourceBehindRing
  <2> QED
    BY <2>1, <2>2
<1> QED
  BY <1>1, ThemeMusicControl, PTL

\* Every path of start() and stop(), the failing ones included, leaves all of
\* the music or none of it.
THEOREM ThemeMusicAllOrNothing == Spec => []AllOrNothing
<1>1. RingInv /\ ControlInv => AllOrNothing
  BY DEF ControlInv, AllOn, AllOff, AllOrNothing, RingInv, TypeOK
<1> QED
  BY <1>1, ThemeMusicControl, PTL

-----------------------------------------------------------------------------
(* Slots of a ring *)

LEMMA DivMod ==
    ASSUME NEW a \in Nat, NEW R \in Nat \ {0}
    PROVE  a = R * (a \div R) + (a % R) /\ a % R \in 0 .. R - 1 /\ a \div R \in Nat
OBVIOUS

\* Multiples of R are R apart, so a remainder below R is the only one.
LEMMA Gap ==
    ASSUME NEW p \in Int, NEW q \in Int, NEW R \in Nat \ {0}, p < q
    PROVE  R * p + R <= R * q
<1>1. (q - p - 1) * R >= 0
  BY SMT
<1> QED
  BY <1>1, SMT

LEMMA Remainder ==
    ASSUME NEW a \in Nat, NEW R \in Nat \ {0}, NEW q \in Int, NEW r \in 0 .. R - 1,
           a = R * q + r
    PROVE  a % R = r
<1> DEFINE p == a \div R
           s == a % R
<1>1. a = R * p + s /\ s \in 0 .. R - 1 /\ p \in Nat
  BY DivMod
<1> HIDE DEF p, s
<1>2. ~(p < q) /\ ~(q < p)
  BY <1>1, Gap, SMT
<1>3. R * p = R * q
  BY <1>1, <1>2, SMT
<1>4. s = r
  BY <1>1, <1>3, SMT
<1> QED
  BY <1>4 DEF s

LEMMA Turns ==
    ASSUME NEW a \in Nat, NEW R \in Nat \ {0}, NEW k \in Nat
    PROVE  (a + R * k) % R = a % R
<1> DEFINE p == a \div R
           s == a % R
<1>1. a = R * p + s /\ s \in 0 .. R - 1 /\ p \in Nat
  BY DivMod
<1> HIDE DEF p, s
<1>2. a + R * k = R * (p + k) + s /\ p + k \in Int /\ a + R * k \in Nat
  BY <1>1, SMT
<1> QED
  BY <1>1, <1>2, Remainder DEF s

\* Less than a turn apart is not the same slot.
LEMMA Apart ==
    ASSUME NEW a \in Nat, NEW R \in Nat \ {0}, NEW d \in 1 .. R - 1
    PROVE  (a + d) % R # a % R
<1> DEFINE p == a \div R
           s == a % R
<1>1. a = R * p + s /\ s \in 0 .. R - 1 /\ p \in Nat
  BY DivMod
<1> HIDE DEF p, s
<1>2. CASE s + d < R
  <2>1. (a + d) % R = s + d
    BY <1>1, <1>2, Remainder, SMT
  <2> QED
    BY <1>1, <2>1 DEF s
<1>3. CASE s + d >= R
  <2> DEFINE q == p + 1
             r == s + d - R
             b == a + d
  <2>1. b = R * q + r /\ r \in 0 .. R - 1 /\ q \in Int /\ b \in Nat
    BY <1>1, <1>3, SMT
  <2>2. r # s
    BY <1>1
  <2> HIDE DEF q, r, b
  <2>3. b % R = r
    BY <2>1, Remainder
  <2> QED
    BY <2>2, <2>3 DEF s, b
<1> QED
  BY <1>1, <1>2, <1>3

\* The counters wrap at whole turns of the ring, and at whole frames.
LEMMA CounterTurns ==
    /\ \E k \in Nat : CounterSize = RingSize * k
    /\ CounterSize % 2 = 0 /\ RingSize % 2 = 0
<1> DEFINE k == CounterSize \div RingSize
           h == RingSize \div 2
<1>1. CounterSize = RingSize * k /\ k \in Nat
  BY SizesAssumption, DivMod
<1>2. RingSize = 2 * h /\ h \in Nat
  BY SizesAssumption
<1> HIDE DEF k, h
<1>3. CounterSize = 2 * (h * k) /\ h * k \in Nat
  BY <1>1, <1>2, SMT
<1> DEFINE n == h * k
<1>4. CounterSize = 2 * n /\ n \in Nat
  BY <1>3
<1> HIDE DEF n
<1>5. CounterSize % 2 = 0
  BY <1>4
<1> QED
  BY <1>1, <1>5, SizesAssumption

\* The slot of a counter that went on, wrapped or not.
LEMMA OffsetOfWrapAdd ==
    ASSUME NEW c \in 0 .. CounterSize - 1, NEW s \in 0 .. RingSize, NEW i \in Nat
    PROVE  Offset(WrapAdd(c, s) + i) = Offset(c + s + i)
<1> DEFINE a == WrapAdd(c, s) + i
<1>1. PICK k \in Nat : CounterSize = RingSize * k
  BY CounterTurns
<1>2. a \in Nat /\ (a = c + s + i \/ c + s + i = a + CounterSize)
  BY SizesLemma DEF WrapAdd
<1> HIDE DEF a
<1>3. (a + RingSize * k) % RingSize = a % RingSize
  BY <1>2, SizesLemma, Turns
<1> QED
  BY <1>1, <1>2, <1>3 DEF Offset, a

\* Counting on from what is read past what is pending gives what is written.
LEMMA OffsetOfWrapSub ==
    ASSUME NEW r \in 0 .. CounterSize - 1, NEW w \in 0 .. CounterSize - 1, NEW i \in Nat
    PROVE  Offset(r + WrapSub(w, r) + i) = Offset(w + i)
<1> DEFINE a == w + i
           b == r + WrapSub(w, r) + i
<1>1. PICK k \in Nat : CounterSize = RingSize * k
  BY CounterTurns
<1>2. a \in Nat /\ (b = a \/ b = a + CounterSize)
  BY SizesLemma DEF WrapSub
<1> HIDE DEF a, b
<1>3. (a + RingSize * k) % RingSize = a % RingSize
  BY <1>2, SizesLemma, Turns
<1>4. Offset(b) = Offset(a)
  BY <1>1, <1>2, <1>3 DEF Offset
<1> QED
  BY <1>4 DEF a, b

\* A segment does not go past the end of the ring.
LEMMA OffsetInSegment ==
    ASSUME NEW w \in Nat, NEW s \in Nat, Offset(w) + s <= RingSize, NEW i \in 0 .. s - 1
    PROVE  Offset(w + i) = Offset(w) + i
<1> DEFINE p == w \div RingSize
           o == w % RingSize
           a == w + i
           r == o + i
<1>1. w = RingSize * p + o /\ o \in 0 .. RingSize - 1 /\ p \in Nat
  BY DivMod, SizesLemma
<1>2. o + s <= RingSize
  BY DEF Offset
<1> HIDE DEF p, o
<1>3. a \in Nat /\ a = RingSize * p + r /\ r \in 0 .. RingSize - 1 /\ p \in Int
  BY <1>1, <1>2, SizesLemma
<1> HIDE DEF a, r
<1>4. a % RingSize = r
  BY <1>3, SizesLemma, Remainder
<1> QED
  BY <1>4 DEF Offset, a, r, o

\* What is pending and the segment behind it are different slots.
LEMMA PendingApart ==
    ASSUME NEW r \in 0 .. CounterSize - 1, NEW w \in 0 .. CounterSize - 1, NEW s \in Nat,
           WrapSub(w, r) + s <= RingSize, Offset(w) + s <= RingSize,
           NEW i \in 0 .. WrapSub(w, r) - 1
    PROVE  Offset(r + i) \notin Segment(w, s)
<1> SUFFICES ASSUME Offset(r + i) \in Segment(w, s) PROVE FALSE
  OBVIOUS
<1> DEFINE u == WrapSub(w, r)
           j == Offset(r + i) - Offset(w)
           a == r + i
           d == u + j - i
<1>1. u \in Nat /\ Offset(w) \in Nat /\ Offset(r + i) \in Nat
  <2>1. u \in Nat
    BY WrapSubLemma, SizesLemma
  <2>2. w \in Nat /\ r + i \in Nat
    BY <2>1, SizesLemma
  <2> QED
    BY <2>1, <2>2, OffsetLemma, SizesLemma DEF Slots
<1>2. j \in 0 .. s - 1
  BY <1>1 DEF Segment
<1>3. Offset(w + j) = Offset(a)
  BY <1>1, <1>2, OffsetInSegment, SizesLemma
<1>4. Offset(r + u + j) = Offset(w + j)
  BY <1>2, OffsetOfWrapSub
<1>5. a \in Nat /\ d \in 1 .. RingSize - 1 /\ r + u + j = a + d
  BY <1>1, <1>2, SizesLemma
<1> HIDE DEF a, d, u, j
<1>6. (a + d) % RingSize # a % RingSize
  BY <1>5, SizesLemma, Apart
<1> QED
  BY <1>3, <1>4, <1>5, <1>6 DEF Offset

-----------------------------------------------------------------------------
(* The listener *)

\* Everything that is counted while there is a ring is whole frames, and the
\* segment being decoded is not empty and ends within the ring.
InFrames(n) == frame = 2 => n % 2 = 0
FramesInv ==
    /\ ring # NoRing => /\ InFrames(readTotal) /\ InFrames(writeTotal)
                        /\ InFrames(job.length) /\ InFrames(job.segment)
    /\ main = "reading" => job.segment > 0 /\ Offset(writeTotal) + job.segment <= RingSize

LEMMA EvenLemma ==
    ASSUME NEW c \in 0 .. CounterSize - 1, NEW s \in Nat, NEW d \in 0 .. CounterSize - 1,
           NEW n \in Nat
    PROVE  /\ c % 2 = 0 /\ s % 2 = 0 => WrapAdd(c, s) % 2 = 0
           /\ c % 2 = 0 /\ d % 2 = 0 => WrapSub(c, d) % 2 = 0
           /\ WholeFrames(n, 2) % 2 = 0
           /\ n % 2 = 0 => WholeFrames(n, 2) = n
           /\ WholeFrames(n, 1) = n
BY SizesLemma, CounterTurns DEF WrapAdd, WrapSub, WholeFrames

\* What the callback copies is what is asked for, as far as it is pending.
LEMMA CopiedFrames ==
    ASSUME RingInv, FramesInv, ring # NoRing, NEW n \in Nat
    PROVE  WholeFrames(Lesser(n * frame, Used), frame) = Lesser(n * frame, Used)
<1>1. frame \in {1, 2} /\ readTotal \in 0 .. CounterSize - 1 /\ writeTotal \in 0 .. CounterSize - 1
  BY DEF RingInv, TypeOK, SourceBehindRing
<1>2. Used \in Nat
  BY <1>1, WrapSubLemma, SizesLemma DEF Used
<1>3. CASE frame = 1
  <2>1. Lesser(n * 1, Used) \in Nat
    BY <1>2, LesserLemma
  <2> QED
    BY <1>3, <2>1 DEF WholeFrames
<1>4. CASE frame = 2
  <2>1. Used % 2 = 0
    BY <1>1, <1>4, EvenLemma DEF FramesInv, InFrames, Used
  <2>2. n * 2 \in Nat /\ (n * 2) % 2 = 0
    OBVIOUS
  <2>3. Lesser(n * 2, Used) \in Nat /\ Lesser(n * 2, Used) % 2 = 0
    BY <1>2, <2>1, <2>2 DEF Lesser
  <2> QED
    BY <1>4, <2>3 DEF WholeFrames
<1> QED
  BY <1>1, <1>3, <1>4

LEMMA FramesInit == Init => FramesInv
BY DEF Init, FramesInv

LEMMA QueueBytesFrames ==
    ASSUME NEW who \in {"start", "update"}, NEW length \in Nat, NEW f \in {1, 2},
           NEW r \in 0 .. CounterSize - 1, NEW w \in 0 .. CounterSize - 1,
           WrapSub(w, r) <= RingSize,
           QueueBytes(who, length, r, w, f)
    PROVE  job'.segment = 0 /\ (f = 2 => job'.length % 2 = 0)
<1> DEFINE room == RingSize - WrapSub(w, r)
           n == Lesser(length, room)
<1>1. room \in Nat
  <2>1. WrapSub(w, r) \in Nat
    BY WrapSubLemma, SizesLemma
  <2> QED
    BY <2>1, SizesLemma
<1>2. n \in Nat
  BY <1>1, LesserLemma
<1>3. job' = [length |-> WholeFrames(n, f), segment |-> 0]
  BY DEF QueueBytes
<1> HIDE DEF room, n
<1>4. f = 2 => WholeFrames(n, f) % 2 = 0
  BY <1>2 DEF WholeFrames
<1> QED
  BY <1>3, <1>4

LEMMA FramesNext == RingInv /\ RingInv' /\ ControlInv /\ FramesInv /\ [Next]_vars => FramesInv'
<1> SUFFICES ASSUME RingInv, RingInv', ControlInv, FramesInv, [Next]_vars PROVE FramesInv'
  OBVIOUS
<1> USE DEF flags, sound
<1>1. /\ readTotal \in 0 .. CounterSize - 1 /\ writeTotal \in 0 .. CounterSize - 1
      /\ job \in [length : 0 .. RingSize, segment : 0 .. RingSize]
      /\ ring # NoRing => frame \in {1, 2}
  BY DEF RingInv, TypeOK, SourceBehindRing
\* Steps that leave what is counted alone, or have no ring left.
<1>2. ASSUME main' # "reading",
             \/ ring' = NoRing
             \/ UNCHANGED <<ring, frame, readTotal, writeTotal>> /\ job' \in {job, NoJob}
      PROVE  FramesInv'
  BY <1>1, <1>2 DEF FramesInv, InFrames, NoJob
<1>3. CASE StartRefused \/ InstallMaxmod \/ Activate \/ OpenStream \/ ToggleMusic
           \/ FailedLaunch \/ StopPlaying \/ CloseStream \/ QueueDone
  <2>1. UNCHANGED <<ring, frame, readTotal, writeTotal>> /\ job' \in {job, NoJob}
    BY <1>3 DEF StartRefused, InstallMaxmod, Activate, OpenStream, ToggleMusic,
                FailedLaunch, StopPlaying, CloseStream, CloseTo, QueueDone
  <2>2. main' # "reading"
    BY <1>3 DEF StartRefused, InstallMaxmod, Activate, OpenStream, ToggleMusic,
                FailedLaunch, StopPlaying, CloseStream, CloseTo, QueueDone
  <2> QED
    BY <1>2, <2>1, <2>2
<1>4. CASE InstallRefused \/ ReleaseRing
  BY <1>2, <1>4 DEF InstallRefused, ReleaseRing, GiveUp
<1>5. CASE ReadFails
  BY <1>2, <1>5 DEF ReadFails, GiveUp
<1>6. ASSUME NEW t \in Tracks, StartTrack(t) PROVE FramesInv'
  <2>1. t.channels \in {1, 2} /\ 0 \in 0 .. CounterSize - 1 /\ WrapSub(0, 0) <= RingSize
    BY TracksAssumption, SizesLemma DEF WrapSub
  <2>2. /\ QueueBytes("start", PrimeSize, 0, 0, t.channels) /\ main' = "queue"
        /\ readTotal' = 0 /\ writeTotal' = 0 /\ frame' = t.channels
    BY <1>6 DEF StartTrack, QueueBytes
  <2>3. job'.segment = 0 /\ (t.channels = 2 => job'.length % 2 = 0)
    BY <2>1, <2>2, QueueBytesFrames, SizesLemma
  <2> QED
    BY <2>2, <2>3 DEF FramesInv, InFrames
<1>7. ASSUME NEW t \in Tracks, StartNoMemory(t) PROVE FramesInv'
  <2>1. ring' = NoRing /\ main' = "menu"
    BY <1>7 DEF StartNoMemory, ControlInv, AllOn, AllOff
  <2> QED
    BY <1>2, <2>1
<1>8. CASE Update
  <2>1. /\ QueueBytes("update", ChunkSize, readTotal, writeTotal, frame) /\ main' = "queue"
        /\ ring # NoRing /\ UNCHANGED <<ring, frame, readTotal, writeTotal>>
    BY <1>8 DEF Update, UpdateNeeds, QueueBytes
  <2>2. WrapSub(writeTotal, readTotal) <= RingSize
    <3>1. WrapSub(writeTotal, readTotal) \in Nat
      BY <1>1, WrapSubLemma, SizesLemma
    <3> QED
      BY <1>1, <3>1, SizesLemma DEF RingInv, RingNotOverrun, Used
  <2>3. job'.segment = 0 /\ (frame = 2 => job'.length % 2 = 0)
    BY <1>1, <2>1, <2>2, QueueBytesFrames, SizesLemma
  <2> QED
    BY <2>1, <2>3 DEF FramesInv, InFrames
<1>9. CASE QueueSegment
  <2> DEFINE contiguous == RingSize - Offset(writeTotal)
             n == Lesser(job.length, contiguous)
             segment == WholeFrames(n, frame)
  <2>1. /\ ReadInto(segment) /\ ring # NoRing /\ segment > 0
        /\ job' = [job EXCEPT !.segment = segment]
        /\ UNCHANGED <<frame, readTotal, writeTotal>>
    BY <1>9 DEF QueueSegment, ReadInto, RingInv, SourceBehindRing
  <2>2. contiguous \in Nat /\ Offset(writeTotal) \in Nat
    BY <1>1, OffsetLemma, SizesLemma DEF Slots
  <2>3. n \in Nat /\ n <= contiguous
    BY <1>1, <2>2, LesserLemma
  <2>4. segment \in Nat /\ segment <= n
    BY <1>1, <2>1, <2>3, WholeFramesLemma
  <2>5. frame = 2 => segment % 2 = 0
    <3> HIDE DEF n
    <3> QED
      BY <2>3 DEF WholeFrames
  <2>6. job'.length = job.length /\ job'.segment = segment
    BY <1>1, <2>1
  <2> HIDE DEF segment
  <2>7. segment > 0 /\ Offset(writeTotal) + segment <= RingSize
    BY <2>1, <2>2, <2>3, <2>4, SizesLemma
  <2> QED
    BY <2>1, <2>5, <2>6, <2>7 DEF FramesInv, InFrames, Offset
<1>10. CASE PublishSegment
  <2>1. /\ ring # NoRing /\ main' = "queue"
        /\ writeTotal' = WrapAdd(writeTotal, job.segment)
        /\ job' = [length |-> job.length - job.segment, segment |-> 0]
        /\ UNCHANGED <<frame, readTotal>> /\ job.segment <= job.length
    BY <1>10 DEF PublishSegment, RingInv, SourceBehindRing, RingNotOverrun
  <2>2. frame = 2 => writeTotal' % 2 = 0
    <3> SUFFICES ASSUME frame = 2 PROVE WrapAdd(writeTotal, job.segment) % 2 = 0
      BY <2>1
    <3>1. writeTotal % 2 = 0 /\ job.segment % 2 = 0 /\ job.segment \in Nat
      BY <1>1, <2>1 DEF FramesInv, InFrames
    <3> QED
      BY <1>1, <3>1, EvenLemma
  <2>3. frame = 2 => job'.length % 2 = 0
    BY <1>1, <2>1 DEF FramesInv, InFrames
  <2> QED
    BY <2>1, <2>2, <2>3 DEF FramesInv, InFrames
<1>11. ASSUME NEW n \in 1 .. MaxRequest, FillStream(n) PROVE FramesInv'
  <2>1. UNCHANGED <<ring, frame, writeTotal, job, main>>
    BY <1>11 DEF FillStream, CopyOut
  <2>2. CASE ring # NoRing /\ active /\ playing
    <3> DEFINE copied == Lesser(n * frame, Used)
    <3>1. n \in Nat /\ readTotal' = WrapAdd(readTotal, WholeFrames(copied, frame))
      BY <1>11, <2>2, SizesLemma DEF FillStream, CopyOut
    <3>2. Used \in Nat
      BY <1>1, WrapSubLemma, SizesLemma DEF Used
    <3>3. frame = 2 => readTotal' % 2 = 0
      <4> SUFFICES ASSUME frame = 2 PROVE readTotal' % 2 = 0
        OBVIOUS
      <4>1. copied \in Nat
        <5>1. n * frame \in Nat
          BY <3>1
        <5> QED
          BY <3>2, <5>1, LesserLemma
      <4> HIDE DEF copied
      <4>2. WholeFrames(copied, 2) \in Nat /\ WholeFrames(copied, 2) % 2 = 0
        BY <4>1 DEF WholeFrames
      <4>3. readTotal % 2 = 0
        BY <2>2 DEF FramesInv, InFrames
      <4> QED
        BY <1>1, <3>1, <4>2, <4>3, EvenLemma
    <3> QED
      BY <2>1, <2>2, <3>3 DEF FramesInv, InFrames, Offset
  <2>3. CASE ~(ring # NoRing /\ active /\ playing)
    <3>1. readTotal' = readTotal
      BY <1>11, <2>3 DEF FillStream, CopyOut
    <3> QED
      BY <2>1, <3>1 DEF FramesInv, InFrames, Offset
  <2> QED
    BY <2>2, <2>3
<1>12. CASE UNCHANGED vars
  BY <1>12 DEF vars, FramesInv, InFrames, Offset
<1> QED
  BY <1>3, <1>4, <1>5, <1>6, <1>7, <1>8, <1>9, <1>10, <1>11, <1>12
  DEF Next, MainLoop, Start, Queue, Stop, Callback

\* While there is a ring everything counted is whole frames, and the segment being
\* decoded is not empty and ends within it (queueBytes, writeRing).
THEOREM ThemeMusicFrames == Spec => [](RingInv /\ ControlInv /\ FramesInv)
BY RingInvInit, RingInvNext, ControlInit, ControlNext, FramesInit, FramesNext, PTL DEF Spec

\* What SoundStream calls Looped, Run and Quiet are the track and the silence
\* of the ring.
LEMMA SameLooped == \A t, n : Stream!Looped(t, n) = Looped(t, n)
BY DEF Stream!Looped, Looped

LEMMA PendingType ==
    ASSUME RingInv, ring # NoRing
    PROVE  /\ Used \in Nat /\ Pending = Copied(Used)
           /\ Len(Pending) = Used /\ Pending \in Seq(Nat \cup {Garbage})
<1>1. /\ ring \in [Slots -> Nat \cup {Garbage}]
      /\ readTotal \in 0 .. CounterSize - 1 /\ writeTotal \in 0 .. CounterSize - 1
  BY DEF RingInv, TypeOK
<1>2. Used \in Nat
  BY <1>1, WrapSubLemma, SizesLemma DEF Used
<1>3. ASSUME NEW i \in 1 .. Used PROVE Offset(readTotal + i - 1) \in Slots
  <2>1. readTotal + i - 1 \in Nat
    BY <1>1, <1>2, SizesLemma
  <2> QED
    BY <2>1, OffsetLemma
<1>4. Copied(Used) \in Seq(Nat \cup {Garbage}) /\ Len(Copied(Used)) = Used
  <2> DEFINE f == [i \in 1 .. Used |-> ring[Offset(readTotal + i - 1)]]
  <2>1. f \in [1 .. Used -> Nat \cup {Garbage}]
    BY <1>1, <1>3
  <2> QED
    BY <1>2, <2>1 DEF Copied
<1> QED
  BY <1>2, <1>4 DEF Pending

\* Publishing a segment appends the next samples of the track to what the
\* callback will copy, and changes nothing of what was pending before.
LEMMA PublishProduces ==
    ASSUME RingInv, RingInv', ControlInv, FramesInv, PublishSegment
    PROVE  Stream!Produce(job.segment) /\ job.segment \in 1 .. RingSize
<1> DEFINE s == job.segment
           o == Offset(writeTotal)
<1>1. /\ ring # NoRing /\ ring' # NoRing /\ main = "reading"
      /\ ring' = [x \in Slots |-> IF x \in Segment(writeTotal, s)
                                  THEN Decoded(x) ELSE ring[x]]
      /\ source' = [source EXCEPT !.next = Looped(source.track, source.next + s)]
      /\ writeTotal' = WrapAdd(writeTotal, s)
      /\ UNCHANGED <<readTotal, playing, speaker>>
  BY DEF PublishSegment, RingInv, SourceBehindRing
<1>2. /\ readTotal \in 0 .. CounterSize - 1 /\ writeTotal \in 0 .. CounterSize - 1
      /\ s \in 0 .. RingSize /\ job.length \in Nat
      /\ source \in [track : Tracks \cup {NoTrack}, next : Nat]
      /\ source.track \in Tracks
  BY <1>1 DEF RingInv, TypeOK, SourceBehindRing
<1>3. s > 0 /\ o + s <= RingSize
  BY <1>1 DEF FramesInv
<1>4. Used \in Nat /\ Used + s <= RingSize
  <2>1. Used \in Nat
    BY <1>1, PendingType
  <2> QED
    BY <1>2, <2>1, SizesLemma DEF RingInv, RingNotOverrun
<1>5. Used' = Used + s
  BY <1>1, <1>2, <1>4, WrapLemma DEF Used
<1>6. o \in Slots
  BY <1>2, OffsetLemma, SizesLemma
<1>7. ASSUME NEW i \in 1 .. Used PROVE ring'[Offset(readTotal + i - 1)] = ring[Offset(readTotal + i - 1)]
  <2>1. i - 1 \in 0 .. WrapSub(writeTotal, readTotal) - 1 /\ readTotal + i - 1 \in Nat
    BY <1>2, <1>4 DEF Used
  <2>2. Offset(readTotal + (i - 1)) \notin Segment(writeTotal, s)
    BY <1>2, <1>3, <1>4, <2>1, PendingApart DEF Used
  <2>3. readTotal + (i - 1) = readTotal + i - 1
    BY <1>2
  <2>4. Offset(readTotal + i - 1) \in Slots
    BY <2>1, OffsetLemma
  <2> QED
    BY <1>1, <2>2, <2>3, <2>4
<1>8. ASSUME NEW j \in 1 .. s
      PROVE  ring'[Offset(readTotal + (Used + j) - 1)] = Looped(source.track, source.next + j - 1)
  <2>1. j - 1 \in 0 .. s - 1 /\ j - 1 \in Nat
    BY <1>2
  <2>2. Offset(readTotal + Used + (j - 1)) = Offset(writeTotal + (j - 1))
    BY <1>2, <2>1, OffsetOfWrapSub DEF Used
  <2>3. Offset(writeTotal + (j - 1)) = o + (j - 1)
    BY <1>2, <1>3, <2>1, OffsetInSegment
  <2>4. readTotal + (Used + j) - 1 = readTotal + Used + (j - 1)
    BY <1>2, <1>4
  <2>5. Offset(readTotal + (Used + j) - 1) = o + (j - 1)
    BY <2>2, <2>3, <2>4
  <2> DEFINE x == o + (j - 1)
  <2>6. x \in Slots /\ x \in Segment(writeTotal, s) /\ x - o = j - 1
    BY <1>2, <1>3, <1>6, <2>1, SizesLemma DEF Slots, Segment
  <2>7. source.next + (x - o) = source.next + j - 1
    BY <1>2, <2>6
  <2> HIDE DEF x
  <2>8. ring'[x] = Decoded(x)
    BY <1>1, <2>6
  <2>9. ring'[x] = Looped(source.track, source.next + j - 1)
    BY <2>7, <2>8 DEF Decoded
  <2> QED
    BY <2>5, <2>9 DEF x
<1>9. Pending' = Pending \o Stream!Run(source.track, source.next, s)
  <2> DEFINE run == Stream!Run(source.track, source.next, s)
  <2>1. run = [j \in 1 .. s |-> Looped(source.track, source.next + j - 1)]
    BY SameLooped DEF Stream!Run
  <2>2. Pending = [i \in 1 .. Used |-> ring[Offset(readTotal + i - 1)]]
    BY <1>1 DEF Pending, Copied
  <2>3. Pending' = [i \in 1 .. Used + s |-> ring'[Offset(readTotal + i - 1)]]
    BY <1>1, <1>5 DEF Pending, Copied
  <2>4. Pending \o run = [i \in 1 .. Used + s |-> IF i <= Used THEN Pending[i] ELSE run[i - Used]]
    <3>1. Len(Pending) = Used
      BY <1>1, PendingType
    <3>2. Len(run) = s
      BY <1>2, <2>1
    <3> QED
      BY <3>1, <3>2
  <2>5. ASSUME NEW i \in 1 .. Used + s
        PROVE  ring'[Offset(readTotal + i - 1)] = IF i <= Used THEN Pending[i] ELSE run[i - Used]
    <3>1. CASE i <= Used
      <4>1. i \in 1 .. Used
        BY <1>4, <3>1
      <4> QED
        BY <1>7, <2>2, <3>1, <4>1
    <3>2. CASE ~(i <= Used)
      <4> DEFINE j == i - Used
      <4>1. j \in 1 .. s /\ i = Used + j
        BY <1>2, <1>4, <3>2
      <4> HIDE DEF j
      <4>2. ring'[Offset(readTotal + (Used + j) - 1)] = run[j]
        BY <1>8, <2>1, <4>1
      <4> QED
        BY <3>2, <4>1, <4>2 DEF j
    <3> QED
      BY <3>1, <3>2
  <2> HIDE DEF run
  <2>6. Pending' = Pending \o run
    BY <2>3, <2>4, <2>5
  <2> QED
    BY <2>6 DEF run
<1>10. source.track # NoTrack
  BY <1>2, TracksAssumption
<1>11. Len(Pending) + s <= RingSize
  BY <1>1, <1>4, PendingType
<1>12. /\ source'.next = Stream!Looped(source.track, source.next + s)
       /\ source'.track = source.track
  BY <1>1, <1>2, SameLooped
<1> HIDE DEF s
<1>13. Stream!Produce(s)
  BY <1>1, <1>9, <1>10, <1>11, <1>12 DEF Stream!Produce
<1>14. s \in 1 .. RingSize
  BY <1>2, <1>3, SizesLemma
<1> QED
  BY <1>13, <1>14 DEF s

LEMMA RestOfSequence ==
    ASSUME NEW S, NEW s \in Seq(S), NEW m \in Nat, m <= Len(s)
    PROVE  SubSeq(s, m + 1, Len(s)) = [i \in 1 .. Len(s) - m |-> s[m + i]]
<1> DEFINE t == SubSeq(s, m + 1, Len(s))
<1>1. t \in Seq(S) /\ Len(t) = Len(s) - m
  OBVIOUS
<1>2. \A i \in 1 .. Len(s) - m : t[i] = s[m + i]
  OBVIOUS
<1>3. t = [i \in 1 .. Len(t) |-> t[i]]
  BY <1>1
<1> QED
  BY <1>1, <1>2, <1>3

\* The callback hands over the next pending samples, as many as it is asked
\* for or are there, and silence after them.
LEMMA FillDelivers ==
    ASSUME RingInv, ControlInv, FramesInv, NEW n \in 1 .. MaxRequest, FillStream(n)
    PROVE  /\ n * frame \in 1 .. 2 * RingSize
           /\ Stream!Deliver(n * frame) \/ Stream!DeliverQuiet(n * frame)
<1> DEFINE requested == n * frame
           k == Lesser(requested, Used)
<1>1. /\ UNCHANGED <<source, ring, writeTotal, playing>> /\ streamOpen
      /\ CopyOut(requested, WholeFrames(k, frame), WholeFrames(k, frame))
  BY DEF FillStream, CopyOut, sound
<1>2. /\ active \in BOOLEAN /\ playing \in BOOLEAN
      /\ readTotal \in 0 .. CounterSize - 1 /\ writeTotal \in 0 .. CounterSize - 1
  BY DEF RingInv, TypeOK
<1>3. active /\ ring # NoRing /\ frame \in {1, 2}
  BY <1>1, <1>2 DEF RingInv, TypeOK, SourceBehindRing, ControlInv, AllOn, AllOff, Primed, Paired
<1>4. requested \in Nat /\ requested \in 1 .. 2 * RingSize
  BY <1>3, SizesLemma
<1>5. CASE ~playing
  <2>1. speaker' = Zeros(requested) /\ readTotal' = readTotal
    BY <1>1, <1>5 DEF CopyOut
  <2>2. Pending' = Pending
    BY <1>1, <2>1 DEF Pending, Copied, Used, WrapSub, Offset
  <2>3. Stream!DeliverQuiet(requested)
    BY <1>1, <1>5, <2>1, <2>2 DEF Stream!DeliverQuiet, Stream!Quiet, Zeros
  <2> QED
    BY <1>4, <2>3
<1>6. CASE playing
  <2>1. WholeFrames(k, frame) = k
    BY <1>3, CopiedFrames
  <2>2. speaker' = Copied(k) \o Zeros(requested - k) /\ readTotal' = WrapAdd(readTotal, k)
    BY <1>1, <1>3, <1>6, <2>1 DEF CopyOut
  <2>3. /\ Used \in Nat /\ Len(Pending) = Used /\ Pending = Copied(Used)
        /\ Pending \in Seq(Nat \cup {Garbage})
    BY <1>3, PendingType
  <2>4. Used <= RingSize
    BY <1>2, <2>3, SizesLemma DEF RingInv, TypeOK, RingNotOverrun
  <2>5. k \in Nat /\ k <= Used /\ k = IF requested < Len(Pending) THEN requested ELSE Len(Pending)
    BY <1>4, <2>3 DEF Lesser
  <2> HIDE DEF k, requested
  <2>6. Copied(k) = SubSeq(Pending, 1, k)
    <3>1. Copied(k) = [i \in 1 .. k |-> ring[Offset(readTotal + i - 1)]]
      BY DEF Copied
    <3>2. Pending = [i \in 1 .. Used |-> ring[Offset(readTotal + i - 1)]]
      BY <2>3 DEF Copied
    <3>3. SubSeq(Pending, 1, k) = [i \in 1 .. k |-> Pending[i]]
      BY <2>3, <2>5
    <3>4. \A i \in 1 .. k : Pending[i] = ring[Offset(readTotal + i - 1)]
      BY <2>3, <2>5, <3>2
    <3> QED
      BY <3>1, <3>3, <3>4
  <2>7. Used' = Used - k
    <3>1. k \in 0 .. RingSize /\ k <= WrapSub(writeTotal, readTotal)
      BY <2>4, <2>5, <2>3, SizesLemma DEF Used
    <3>2. WrapSub(writeTotal, WrapAdd(readTotal, k)) = WrapSub(writeTotal, readTotal) - k
      BY <1>2, <3>1, WrapLemma
    <3> QED
      BY <1>1, <2>2, <3>2 DEF Used
  <2>8. Pending' = SubSeq(Pending, k + 1, Len(Pending))
    <3> DEFINE m == Used - k
    <3>1. m \in Nat /\ k + m = Used
      BY <2>3, <2>5
    <3>2. Pending' = [i \in 1 .. m |-> ring[Offset(readTotal' + i - 1)]]
      BY <1>1, <1>3, <2>7 DEF Pending, Copied
    <3>3. Pending = [i \in 1 .. Used |-> ring[Offset(readTotal + i - 1)]]
      BY <2>3 DEF Copied
    <3> HIDE DEF m
    <3>4. ASSUME NEW i \in 1 .. m
          PROVE  ring[Offset(readTotal' + i - 1)] = Pending[k + i]
      <4>1. i - 1 \in Nat /\ k \in 0 .. RingSize
        BY <2>3, <2>4, <2>5, <3>1, SizesLemma
      <4>2. Offset(WrapAdd(readTotal, k) + (i - 1)) = Offset(readTotal + k + (i - 1))
        BY <1>2, <4>1, OffsetOfWrapAdd
      <4>3. WrapAdd(readTotal, k) \in Nat
        BY <1>2, <4>1, WrapLemma, SizesLemma
      <4>4. /\ WrapAdd(readTotal, k) + (i - 1) = readTotal' + i - 1
            /\ readTotal + k + (i - 1) = readTotal + (k + i) - 1
        BY <1>2, <2>2, <2>5, <4>3
      <4>5. k + i \in 1 .. Used
        BY <2>5, <3>1
      <4>6. Pending[k + i] = ring[Offset(readTotal + (k + i) - 1)]
        BY <3>3, <4>5
      <4> QED
        BY <4>2, <4>4, <4>6
    <3>5. SubSeq(Pending, k + 1, Len(Pending)) = [i \in 1 .. m |-> Pending[k + i]]
      <4>1. m = Len(Pending) - k
        BY <2>3 DEF m
      <4>2. k \in Nat /\ k <= Len(Pending)
        BY <2>3, <2>5
      <4>3. SubSeq(Pending, k + 1, Len(Pending)) = [i \in 1 .. Len(Pending) - k |-> Pending[k + i]]
        BY <2>3, <4>2, RestOfSequence
      <4> QED
        BY <4>1, <4>3
    <3> QED
      BY <3>2, <3>4, <3>5
  <2>9. speaker' = SubSeq(Pending, 1, k) \o Stream!Quiet(requested - k)
    BY <2>2, <2>6 DEF Stream!Quiet, Zeros
  <2>10. Stream!Deliver(requested)
    BY <1>1, <1>6, <2>5, <2>8, <2>9 DEF Stream!Deliver
  <2> QED
    BY <1>4, <2>10 DEF requested
<1> QED
  BY <1>2, <1>5, <1>6

LEMMA HeardInit == Init => Stream!Init
BY DEF Init, Stream!Init, NoSource, Pending

LEMMA HeardNext ==
    ASSUME RingInv, RingInv', ControlInv, FramesInv, FramesInv', [Next]_vars
    PROVE  [Stream!Next]_(Stream!svars)
<1> USE DEF flags, sound
<1>1. /\ playing \in BOOLEAN
      /\ source \in [track : Tracks \cup {NoTrack}, next : Nat]
      /\ main \in {"menu", "start", "queue", "reading", "install", "activate",
                   "open", "stop", "close", "release"}
      /\ caller \in {"start", "update"}
  BY DEF RingInv, TypeOK
\* What is not about the sound is not heard.
<1>2. ASSUME UNCHANGED <<source, ring, readTotal, writeTotal, playing, speaker>>
      PROVE  UNCHANGED Stream!svars
  BY <1>2 DEF Stream!svars, Pending, Copied, Used, WrapSub, Offset
<1>3. CASE StartRefused \/ InstallMaxmod \/ OpenStream \/ ToggleMusic \/ FailedLaunch
           \/ CloseStream \/ QueueDone \/ Update \/ UNCHANGED vars
           \/ \E t \in Tracks : StartNoMemory(t)
  BY <1>2, <1>3 DEF StartRefused, InstallMaxmod, OpenStream, ToggleMusic, FailedLaunch,
       CloseStream, CloseTo, QueueDone, Update, UpdateNeeds, vars, StartNoMemory
<1>4. ASSUME NEW t \in Tracks, StartTrack(t) PROVE Stream!Open(t)
  <2>1. /\ main = "start" /\ ~playing /\ source' = [track |-> t, next |-> 0]
        /\ readTotal' = 0 /\ writeTotal' = 0 /\ UNCHANGED <<playing, speaker>>
    BY <1>4 DEF StartTrack
  <2>2. source = NoSource
    BY <2>1 DEF ControlInv, AllOn, AllOff
  <2>3. Pending' = <<>>
    BY <2>1, SizesLemma DEF Pending, Copied, Used, WrapSub
  <2> QED
    BY <2>1, <2>2, <2>3 DEF Stream!Open, NoSource
\* Both ways to give the ring up, and what a failed update leaves alone.
<1>5. ASSUME ring' = NoRing, source' = NoSource, ~playing,
             (source = NoSource) <=> (ring = NoRing), UNCHANGED <<playing, speaker>>
      PROVE  Stream!Close \/ UNCHANGED Stream!svars
  <2>1. Pending' = <<>>
    BY <1>5 DEF Pending
  <2>2. CASE source = NoSource
    <3>1. Pending = <<>>
      BY <1>5, <2>2 DEF Pending
    <3> QED
      BY <1>5, <2>1, <2>2, <3>1 DEF Stream!svars
  <2>3. CASE source # NoSource
    <3>1. source.track # NoTrack
      BY <1>5, <2>3, TracksAssumption DEF RingInv, SourceBehindRing
    <3> QED
      BY <1>5, <2>1, <3>1 DEF Stream!Close, NoSource
  <2> QED
    BY <2>2, <2>3
<1>6. CASE InstallRefused
  <2>1. ring' = NoRing /\ source' = NoSource /\ main = "install"
        /\ UNCHANGED <<playing, speaker>>
    BY <1>6 DEF InstallRefused, GiveUp
  <2>2. ~playing /\ source # NoSource /\ ring # NoRing
    BY <2>1 DEF ControlInv, Primed
  <2> QED
    BY <1>5, <2>1, <2>2 DEF Stream!Next
<1>7. CASE ReadFails
  <2>1. main = "reading" /\ UNCHANGED <<playing, speaker, readTotal, writeTotal>>
    BY <1>7 DEF ReadFails
  <2>2. CASE caller = "start"
    <3>1. ring' = NoRing /\ source' = NoSource
      BY <1>7, <2>2 DEF ReadFails, GiveUp
    <3>2. ~playing /\ source # NoSource /\ ring # NoRing
      BY <2>1, <2>2 DEF ControlInv, Primed
    <3> QED
      BY <1>5, <2>1, <3>1, <3>2 DEF Stream!Next
  <2>3. CASE caller # "start"
    BY <1>2, <1>7, <2>1, <2>3 DEF ReadFails
  <2> QED
    BY <2>2, <2>3
<1>8. CASE ReleaseRing
  <2>1. /\ ring' = NoRing /\ source' = NoSource /\ main = "release"
        /\ UNCHANGED <<playing, speaker>>
    BY <1>8 DEF ReleaseRing
  <2>2. ~playing /\ ((source = NoSource) <=> (ring = NoRing))
    BY <2>1 DEF ControlInv, Paired
  <2> QED
    BY <1>5, <2>1, <2>2 DEF Stream!Next
<1>9. CASE Activate
  <2>1. /\ main = "activate" /\ playing'
        /\ UNCHANGED <<source, ring, readTotal, writeTotal, speaker>>
    BY <1>9 DEF Activate
  <2>2. playing' = TRUE
    BY <1>9 DEF Activate
  <2>3. ~playing /\ source.track # NoTrack
    BY <2>1, TracksAssumption DEF ControlInv, Primed, RingInv, SourceBehindRing
  <2>4. Pending' = Pending
    BY <2>1 DEF Pending, Copied, Used, WrapSub, Offset
  <2> QED
    BY <2>1, <2>2, <2>3, <2>4 DEF Stream!Next, Stream!Play
<1>10. CASE StopPlaying
  <2>1. /\ playing' = FALSE /\ UNCHANGED <<source, ring, readTotal, writeTotal, speaker>>
    BY <1>10 DEF StopPlaying
  <2>2. Pending' = Pending
    BY <2>1 DEF Pending, Copied, Used, WrapSub, Offset
  <2>3. CASE playing
    BY <2>1, <2>2, <2>3 DEF Stream!Next, Stream!Mute
  <2>4. CASE ~playing
    BY <1>1, <2>1, <2>2, <2>4 DEF Stream!svars
  <2> QED
    BY <2>3, <2>4
\* The source decodes into slots none of which is pending.
<1>11. CASE QueueSegment
  <2> DEFINE s == job'.segment
  <2>1. /\ ring # NoRing /\ ring' # NoRing /\ main' = "reading"
        /\ UNCHANGED <<source, readTotal, writeTotal, playing, speaker>>
    BY <1>11 DEF QueueSegment, ReadInto, RingInv, SourceBehindRing
  <2>2. ring' = [x \in Slots |-> IF x \in Segment(writeTotal, s) THEN Garbage ELSE ring[x]]
    <3> DEFINE segment == WholeFrames(Lesser(job.length, RingSize - Offset(writeTotal)), frame)
    <3>1. ReadInto(segment) /\ job \in [length : 0 .. RingSize, segment : 0 .. RingSize]
      BY <1>11 DEF QueueSegment, RingInv, TypeOK
    <3> HIDE DEF segment
    <3>2. s = segment
      BY <3>1 DEF ReadInto
    <3> QED
      BY <3>1, <3>2 DEF ReadInto
  <2>3. s \in Nat /\ Offset(writeTotal) + s <= RingSize
    BY <2>1, SizesLemma DEF FramesInv, RingInv, TypeOK, Offset
  <2>4. Used \in Nat /\ Used + s <= RingSize
    <3>1. Used' = Used /\ Used \in Nat
      BY <2>1, PendingType DEF Used, WrapSub
    <3>2. job'.length \in Nat /\ Used' + job'.length <= RingSize /\ s <= job'.length
      BY DEF RingInv, TypeOK, RingNotOverrun
    <3> QED
      BY <2>3, <3>1, <3>2, SizesLemma
  <2>5. readTotal \in 0 .. CounterSize - 1 /\ writeTotal \in 0 .. CounterSize - 1
    BY DEF RingInv, TypeOK
  <2> HIDE DEF s
  <2>6. ASSUME NEW i \in 1 .. Used
        PROVE  ring'[Offset(readTotal + i - 1)] = ring[Offset(readTotal + i - 1)]
    <3>1. i - 1 \in 0 .. WrapSub(writeTotal, readTotal) - 1 /\ readTotal + i - 1 \in Nat
      BY <2>4, <2>5 DEF Used
    <3>2. Offset(readTotal + (i - 1)) \notin Segment(writeTotal, s)
      BY <2>3, <2>4, <2>5, <3>1, PendingApart DEF Used
    <3>3. readTotal + (i - 1) = readTotal + i - 1
      BY <2>5
    <3>4. Offset(readTotal + i - 1) \in Slots
      BY <3>1, OffsetLemma
    <3> QED
      BY <2>2, <3>2, <3>3, <3>4
  <2>7. Used' = Used
    BY <2>1 DEF Used, WrapSub
  <2>8. Pending' = Pending
    BY <2>1, <2>6, <2>7 DEF Pending, Copied, Offset
  <2> QED
    BY <2>1, <2>8 DEF Stream!svars
<1>12. CASE PublishSegment
  BY <1>12, PublishProduces DEF Stream!Next
<1>13. ASSUME NEW n \in 1 .. MaxRequest, FillStream(n) PROVE Stream!Next
  <2> DEFINE requested == n * frame
  <2>1. /\ requested \in 1 .. 2 * RingSize
        /\ Stream!Deliver(requested) \/ Stream!DeliverQuiet(requested)
    BY <1>13, FillDelivers
  <2> HIDE DEF requested
  <2> QED
    BY <2>1 DEF Stream!Next
<1> QED
  BY <1>3, <1>4, <1>6, <1>7, <1>8, <1>9, <1>10, <1>11, <1>12, <1>13
  DEF Next, MainLoop, Start, Queue, Stop, Callback, Stream!Next

\* The listener hears the track: however the interrupt cuts into the main loop
\* and wherever ring and counters wrap, samples leave the ring in the order of
\* the track, none lost, repeated or invented, and silence only follows when
\* nothing is pending.
THEOREM ThemeMusicHeardInOrder == Spec => HeardInOrder
BY ThemeMusicFrames, HeardInit, HeardNext, PTL DEF Spec, HeardInOrder, Stream!Spec

\* Whatever the files of the theme are, the player does what ThemeMusic does,
\* so that what is proved of the one holds of the other.
THEOREM PlayerIsThemeMusic == PlayerSpec => Spec
<1>1. PlayerInit => Init
  BY DEF PlayerInit
<1>2. [PlayerNext]_<<vars, decoder>> => [Next]_vars
  BY DEF PlayerNext
<1> QED
  BY <1>1, <1>2, PTL DEF PlayerSpec, Spec

\* With any files behind it, the ring is not overrun and the track is heard.
THEOREM PlayerRingNotOverrun == PlayerSpec => []RingNotOverrun
BY PlayerIsThemeMusic, ThemeMusicRingNotOverrun, PTL

\* The music heard is the track of the file, in order.
THEOREM PlayerHeardInOrder == PlayerSpec => HeardInOrder
BY PlayerIsThemeMusic, ThemeMusicHeardInOrder, PTL

-----------------------------------------------------------------------------
(* The decoder *)

\* A product is within the product of the bounds of its factors.
LEMMA ProductBound ==
    ASSUME NEW a \in Int, NEW b \in Int, NEW A \in Nat, NEW B \in Nat,
           -A <= a, a <= A, -B <= b, b <= B
    PROVE  -(A * B) <= a * b /\ a * b <= A * B
<1>1. (A - a) * (B + b) >= 0 /\ (A + a) * (B - b) >= 0
  BY SMT
<1>2. (A - a) * (B - b) >= 0 /\ (A + a) * (B + b) >= 0
  BY SMT
<1> QED
  BY <1>1, <1>2, SMT

LEMMA ScaleBound ==
    ASSUME NEW header \in Nat
    PROVE  Scale(header) \in Int /\ 1 <= Scale(header) /\ Scale(header) <= 32768
<1> DEFINE k == header % 16
<1>1. k \in 0 .. 15
  BY SMT
<1> HIDE DEF k
<1>2. Powers[1 + k] \in Int /\ 1 <= Powers[1 + k] /\ Powers[1 + k] <= 32768
  BY <1>1, SMT DEF Powers
<1> QED
  BY <1>2, SMT DEF Scale, k

LEMMA NibbleBound ==
    ASSUME NEW packed \in Nat, packed <= 255, NEW i \in Nat
    PROVE  Nibble(packed, i) \in -8 .. 7
BY SMT DEF Nibble

LEMMA StepBound ==
    ASSUME NEW n \in -8 .. 7, NEW s \in Int, 1 <= s, s <= 32768
    PROVE  /\ Step(n, s) \in Int
           /\ -536869888 <= Step(n, s) /\ Step(n, s) <= 536871936
<1>1. -(8 * 32768) <= n * s /\ n * s <= 8 * 32768
  BY ProductBound, SMT
<1>2. n * s \in Int
  BY SMT
<1> QED
  BY <1>1, <1>2, SMT DEF Step

\* dspadpcm.h:18-21: with the coefficients clamped to kDspAdpcmMaxCoef, no sum
\* of the decoder leaves s32, whatever the bytes of the file; so each sample is
\* an s16 again, and the next one starts from what this one assumed.
THEOREM DecoderFits ==
    ASSUME NEW header \in Nat, NEW packed \in Nat, packed <= 255, NEW i \in Nat,
           NEW c1, InS16(c1), NEW c2, InS16(c2),
           NEW hist1, InS16(hist1), NEW hist2, InS16(hist2),
           NEW step, step = Step(Nibble(packed, i), Scale(header)),
           NEW sum, sum = Sum2(step, Coef(c1), hist1, Coef(c2), hist2)
    PROVE  /\ InS32(step) /\ InS32(Sum1(step, Coef(c1), hist1)) /\ InS32(sum)
           /\ InS16(Sample(sum))
<1>1. step \in Int /\ -536869888 <= step /\ step <= 536871936
  <2> DEFINE n == Nibble(packed, i)
             scale == Scale(header)
  <2>1. n \in -8 .. 7
    BY NibbleBound, SMT
  <2>2. scale \in Int /\ 1 <= scale /\ scale <= 32768
    BY ScaleBound, SMT
  <2>3. step = Step(n, scale)
    BY SMT
  <2> HIDE DEF n, scale
  <2> QED
    BY <2>1, <2>2, <2>3, StepBound, SMT
<1>2. ASSUME NEW c, InS16(c), NEW h, InS16(h)
      PROVE  /\ Coef(c) * h \in Int
             /\ -536870912 <= Coef(c) * h /\ Coef(c) * h <= 536870912
  <2> DEFINE k == Coef(c)
  <2>1. k \in Int /\ -16384 <= k /\ k <= 16384
    BY <1>2, SMT DEF Coef, Clamped, MaxCoef, InS16
  <2>2. h \in Int /\ -32768 <= h /\ h <= 32768
    BY <1>2, SMT DEF InS16
  <2> HIDE DEF k
  <2>3. -(16384 * 32768) <= k * h /\ k * h <= 16384 * 32768
    BY <2>1, <2>2, ProductBound, SMT
  <2>4. k * h \in Int
    BY <2>1, <2>2, SMT
  <2>5. -536870912 <= k * h /\ k * h <= 536870912
    BY <2>3, <2>4, SMT
  <2> QED
    BY <2>4, <2>5, SMT DEF k
<1> DEFINE p1 == Coef(c1) * hist1
           p2 == Coef(c2) * hist2
<1>3. p1 \in Int /\ -536870912 <= p1 /\ p1 <= 536870912
  BY <1>2, SMT
<1>4. p2 \in Int /\ -536870912 <= p2 /\ p2 <= 536870912
  BY <1>2, SMT
<1>5. Sum1(step, Coef(c1), hist1) = step + p1 /\ sum = step + p1 + p2
  BY SMT DEF Sum1, Sum2
<1> HIDE DEF p1, p2
<1>6. InS32(step) /\ InS32(step + p1) /\ InS32(step + p1 + p2)
  BY <1>1, <1>3, <1>4, SMT DEF InS32
<1>7. InS32(Sum1(step, Coef(c1), hist1)) /\ InS32(sum)
  BY <1>5, <1>6, SMT
<1>8. InS16(Sample(sum))
  <2> DEFINE q == sum \div 2048
  <2>1. q \in Int
    BY <1>7, SMT DEF InS32
  <2> HIDE DEF q
  <2>2. InS16(Clamped(q, -32768, 32767))
    BY <2>1, SMT DEF Clamped, InS16
  <2> QED
    BY <2>2, SMT DEF Sample, q
<1> QED
  BY <1>6, <1>7, <1>8, SMT
=============================================================================
