----------------------------- MODULE MusicSource -----------------------------
(***************************************************************************)
(* The sources of theme music (wavsource.cpp, bcstmsource.cpp): which      *)
(* files they accept, the track a file promises, and what a read gives.    *)
(* A file is what its headers say, at the addresses they are found.        *)
(*                                                                         *)
(* A sample is its index in the stream.  A bcstm is compressed: a sample   *)
(* can only be decoded from its frame and the two samples before it, the   *)
(* history, and a frame is in a block of which one at a time is in memory. *)
(* The channels are decoded in step, so that one history stands for both.  *)
(***************************************************************************)
EXTENDS Integers, Sequences, SequencesExt

CONSTANTS FrameSamples,  \* kDspAdpcmFrameSamples
          FrameBytes,    \* kDspAdpcmFrameBytes
          MaxBlockBytes, \* kMaxBlockBytes
          MaxSamples,    \* the most samples a u32 counts
          Rates          \* kMinSampleRate .. kMaxSampleRate

Fits(offset, length, size) == offset <= size /\ length <= size - offset
Smallest(a, b) == IF a < b THEN a ELSE b
Wrong == -9     \* a sample nobody recorded

-----------------------------------------------------------------------------
(* A wav: the RIFF chunks one after the other, each padded to an even      *)
(* length.  Of several formats or data chunks the last one counts.         *)
ReadChunk(riffEnd, scan, chunk) ==
    LET start == scan.at + 8
        next == start + chunk.length + (chunk.length % 2)
    IN  IF ~scan.ok \/ start > riffEnd THEN scan
        ELSE [at |-> next,
              ok |-> /\ chunk.length <= riffEnd - start /\ next <= riffEnd
                     /\ chunk.id = "fmt" => chunk.length >= 16 /\ chunk.pcm,
              fmt |-> IF chunk.id = "fmt" THEN <<chunk>> ELSE scan.fmt,
              data |-> IF chunk.id = "data" THEN <<[start |-> start, length |-> chunk.length]>>
                       ELSE scan.data]
Scan(f) ==
    FoldLeft(LAMBDA scan, chunk : ReadChunk(8 + f.riff, scan, chunk),
             [at |-> 12, ok |-> TRUE, fmt |-> <<>>, data |-> <<>>], f.chunks)
Fmt(f) == Scan(f).fmt[1]
Data(f) == Scan(f).data[1]

WavAccepted(f) ==
    /\ f.size >= 12 /\ f.riff <= f.size - 8
    /\ Scan(f).ok /\ Scan(f).fmt # <<>> /\ Scan(f).data # <<>>
    /\ Fmt(f).channels \in 1 .. 2 /\ Fmt(f).bits = 16
    /\ Fmt(f).align = 2 * Fmt(f).channels
    /\ Fmt(f).byteRate = Fmt(f).rate * 2 * Fmt(f).channels
    /\ Data(f).length # 0 /\ Data(f).length % (2 * Fmt(f).channels) = 0

WavOpened(f) == [file |-> f, start |-> Data(f).start, length |-> Data(f).length,
                 frame |-> 2 * Fmt(f).channels, at |-> Data(f).start, offset |-> 0]

(* A turn of the loop of read: up to the end of the data, then from the    *)
(* start.  What is read are the samples at the addresses from `at` on.     *)
WavPass(r) ==
    LET d == IF r.source.offset >= r.source.length
             THEN [r.source EXCEPT !.at = r.source.start, !.offset = 0] ELSE r.source
        request == Smallest(d.length - d.offset, r.left)
    IN  [r EXCEPT
           !.ok = d.at + request <= d.file.size,
           !.source = [d EXCEPT !.at = @ + request, !.offset = @ + request],
           !.left = @ - request,
           !.out = @ \o [j \in 1 .. request \div 2 |-> (d.at - d.start) \div 2 + j - 1]]

-----------------------------------------------------------------------------
(* A bcstm *)
SizeOf(f, block) == IF block = f.blocks - 1 THEN f.lastSize ELSE f.blockSize
Total(f) == (f.blocks - 1) * f.perBlock + f.lastSamples
Channels(f) == Smallest(2, f.channels)
RefsTo(f, type) == SelectSeq(f.refs, LAMBDA ref : ref.type = type)
DataBlock(f) == Last(RefsTo(f, "data"))
DataStart(f) == DataBlock(f).offset + 8 + f.dataAt

ParseInfo(f) ==
    /\ f.adpcm /\ f.channels >= 1 /\ f.blocks >= 1
    /\ f.perBlock # 0 /\ f.perBlock % FrameSamples = 0
    /\ f.blockSize <= MaxBlockBytes
    /\ f.blockSize >= (f.perBlock \div FrameSamples) * FrameBytes
    /\ f.lastSamples \in 1 .. f.perBlock
    /\ f.lastSize >= ((f.lastSamples + FrameSamples - 1) \div FrameSamples) * FrameBytes
    /\ f.lastSize <= f.blockSize
    /\ Total(f) <= MaxSamples
    /\ f.loop => f.loopStart < f.loopEnd /\ f.loopEnd <= Total(f)
    /\ DataBlock(f).size >= 8
    /\ Fits(f.dataAt, f.channels * ((f.blocks - 1) * f.blockSize + f.lastSize),
            DataBlock(f).size - 8)
    /\ f.table >= f.channels

BcstmAccepted(f) ==
    /\ f.headers            \* magic, byte order and header types, each inside its block
    /\ \A i \in 1 .. Len(f.refs) :
          f.refs[i].type \in {"info", "data"} => Fits(f.refs[i].offset, f.refs[i].size, f.size)
    /\ RefsTo(f, "info") # <<>> /\ RefsTo(f, "data") # <<>>
    /\ ParseInfo(f)

End(f) == IF f.loop THEN f.loopEnd ELSE Total(f)
StartHistory == <<-1, -2>>
NoBlock == [block |-> -1, from |-> 0]
BcstmOpened(f) ==           \* rewind
    [file |-> f, pos |-> 0, history |-> StartHistory, loopHistory |-> <<Wrong, Wrong>>,
     haveLoopHistory |-> FALSE, loaded |-> NoBlock]

(* At the end of the track: back to the start, or to the start of the loop *)
(* with the history that was there when it was first passed.               *)
Wrapped(d) ==
    IF d.pos # End(d.file) THEN d
    ELSE IF d.file.loop
    THEN [d EXCEPT !.pos = d.file.loopStart, !.history = d.loopHistory]
    ELSE [d EXCEPT !.pos = 0, !.history = StartHistory]
CaptureHistory(d) ==
    IF d.file.loop /\ d.pos = d.file.loopStart /\ ~d.haveLoopHistory
    THEN [d EXCEPT !.loopHistory = d.history, !.haveLoopHistory = TRUE] ELSE d

(* loadBlock: where the block of all channels starts in the file *)
LoadBlock(d) ==
    LET block == d.pos \div d.file.perBlock
    IN  IF block = d.loaded.block THEN d
        ELSE [d EXCEPT !.loaded =
                 [block |-> block,
                  from |-> DataStart(d.file) + block * d.file.channels * d.file.blockSize]]
BlockInFile(d) ==
    d.loaded.from + Channels(d.file) * SizeOf(d.file, d.loaded.block) <= d.file.size

(* How many samples one turn of the loop of read decodes: never past the   *)
(* frame, the end of the track or the start of the loop.                   *)
CountPastLoopStart(d, frames) ==     \* mutant: the turn goes on over the loop start
    LET left == FrameSamples - ((d.pos % d.file.perBlock) % FrameSamples)
    IN  Smallest(Smallest(left, frames), End(d.file) - d.pos)
Count(d, frames) ==
    LET left == FrameSamples - ((d.pos % d.file.perBlock) % FrameSamples)
        toEnd == Smallest(Smallest(left, frames), End(d.file) - d.pos)
    IN  IF d.file.loop /\ d.pos < d.file.loopStart
        THEN Smallest(toEnd, d.file.loopStart - d.pos) ELSE toEnd

(* Where the file keeps the frame of sample k of channel c (from 0) *)
FrameAt(f, c, k) ==
    LET block == k \div f.perBlock
    IN  DataStart(f) + f.channels * f.blockSize * block + c * SizeOf(f, block)
          + ((k % f.perBlock) \div FrameSamples) * FrameBytes

(* dspAdpcmDecode of sample i of the frame at an address: it is the sample *)
(* that follows the history, if that frame is the one that holds it.       *)
Decode(f, c, address, i, history) ==
    LET k == history[1] + 1
    IN  IF /\ k \in 0 .. Total(f) - 1 /\ history[2] = k - 2
           /\ address = FrameAt(f, c, k) /\ i = (k % f.perBlock) % FrameSamples
        THEN k ELSE Wrong
DecodeFrame(f, c, address, first, count, history) ==
    FoldLeft(LAMBDA out, i :
                Append(out, Decode(f, c, address, i,
                                   <<out[Len(out)], out[Len(out) - 1]>>)),
             <<history[2], history[1]>>, [j \in 1 .. count |-> first + j - 1])

BcstmPass(r) ==
    LET d == LoadBlock(CaptureHistory(Wrapped(r.source)))
        f == d.file
        inBlock == d.pos - d.loaded.block * f.perBlock
        count == Count(d, r.left)
        frame == (inBlock \div FrameSamples) * FrameBytes
        decoded == [c \in 0 .. Channels(f) - 1 |->
                       DecodeFrame(f, c, d.loaded.from + c * SizeOf(f, d.loaded.block) + frame,
                                   inBlock % FrameSamples, count, d.history)]
        Of(c, j) == decoded[c][j + 2]
    IN  [r EXCEPT
           !.ok = BlockInFile(d),
           !.source = [d EXCEPT !.pos = @ + count,
                                !.history = <<Of(0, count), Of(0, count - 1)>>],
           !.left = @ - count,
           !.out = @ \o [j \in 1 .. count * Channels(f) |->
                            LET c == (j - 1) % Channels(f)
                                k == Of(c, (j - 1) \div Channels(f) + 1)
                            IN  IF k = Wrong THEN Wrong ELSE k * Channels(f) + c]]

-----------------------------------------------------------------------------
(* Either source *)
Rate(f) == IF f.kind = "wav" THEN Fmt(f).rate ELSE f.rate

(* openSource *)
Accepted(f) ==
    /\ IF f.kind = "wav" THEN WavAccepted(f) ELSE BcstmAccepted(f)
    /\ Rate(f) \in Rates
Opened(f) == IF f.kind = "wav" THEN WavOpened(f) ELSE BcstmOpened(f)

(* What the player may count on: the samples of all channels, interleaved, *)
(* up to the end, and where it goes on from there.                         *)
TrackOf(f) ==
    IF f.kind = "wav"
    THEN [channels |-> Fmt(f).channels, length |-> Data(f).length \div 2, loopStart |-> 0]
    ELSE [channels |-> Channels(f), length |-> End(f) * Channels(f),
          loopStart |-> (IF f.loop THEN f.loopStart ELSE 0) * Channels(f)]

(* read: as many turns of its loop as it takes; a wav counts bytes *)
ReadFrames(source, frames) ==
    LET wav == source.file.kind = "wav"
        left == IF wav THEN frames * source.frame ELSE frames
    IN  FoldLeft(LAMBDA r, turn : IF r.left = 0 \/ ~r.ok THEN r
                                  ELSE IF wav THEN WavPass(r) ELSE BcstmPass(r),
                 [source |-> source, left |-> left, ok |-> TRUE, out |-> <<>>],
                 [turn \in 1 .. frames |-> turn])

-----------------------------------------------------------------------------
(* The arithmetic of dspAdpcmDecode (dspadpcm.cpp): one sample from its    *)
(* nibble, the header of its frame, a pair of coefficients and the two     *)
(* samples before it, all in s32.                                          *)
MaxCoef == 16384    \* kDspAdpcmMaxCoef
InS16(x) == x \in Int /\ -32768 <= x /\ x <= 32767
InS32(x) == x \in Int /\ -2147483647 - 1 <= x /\ x <= 2147483647

Clamped(x, low, high) == IF x > high THEN high ELSE IF x < low THEN low ELSE x

(* What parseInfo makes of a coefficient of the file *)
Coef(c) == Clamped(c, -MaxCoef, MaxCoef)

(* The header of a frame: a pair of coefficients and a power of two *)
Pair(header) == Clamped(header \div 16, 0, 7)
Powers == <<1, 2, 4, 8, 16, 32, 64, 128, 256, 512, 1024, 2048, 4096, 8192, 16384, 32768>>
Scale(header) == Powers[1 + (header % 16)]

(* Sample i of a frame is the high or the low half of its byte, signed. *)
Nibble(packed, i) ==
    LET half == IF i % 2 = 1 THEN packed % 16 ELSE packed \div 16
    IN  IF half >= 8 THEN half - 16 ELSE half

(* The three terms, in the order they are added *)
Step(nibble, scale) == nibble * scale * 2048 + 1024
Sum1(step, coef1, hist1) == step + coef1 * hist1
Sum2(step, coef1, hist1, coef2, hist2) == Sum1(step, coef1, hist1) + coef2 * hist2
Sample(sum) == Clamped(sum \div 2048, -32768, 32767)
=============================================================================
