---------------------------- MODULE MCThemeMusic ----------------------------
(* Small rings for ThemeMusic: sizes keep the ratios of the source (the      *)
(* prime is a quarter of the ring), lengths do not divide the ring, so that   *)
(* a stale slot never holds the right sample by accident, and a chunk is not  *)
(* whole stereo frames, so that the rounding of queueBytes matters.  Frames   *)
(* hold two samples and blocks two frames: loops begin and end in the middle  *)
(* of a frame, reads go across frames and blocks, and last blocks are short.  *)
EXTENDS MusicPlayer

MCRates == 1 .. 5

\* A wav of nine frames behind a chunk of odd length and an older data chunk.
Wav ==
    [kind |-> "wav", size |-> 86, riff |-> 78,
     chunks |-> <<[id |-> "data", length |-> 4], [id |-> "LIST", length |-> 3],
                  [id |-> "fmt", length |-> 16, pcm |-> TRUE, channels |-> 1, rate |-> 2,
                   byteRate |-> 4, align |-> 2, bits |-> 16],
                  [id |-> "data", length |-> 18]>>]

\* A mono bcstm with a loop that starts and ends inside frames, in other blocks.
LoopingBcstm ==
    [kind |-> "bcstm", size |-> 60, headers |-> TRUE, adpcm |-> TRUE,
     refs |-> <<[type |-> "info", offset |-> 20, size |-> 10],
                [type |-> "seek", offset |-> 99, size |-> 99],
                [type |-> "data", offset |-> 30, size |-> 30]>>,
     loop |-> TRUE, loopStart |-> 3, loopEnd |-> 8, channels |-> 1, rate |-> 3,
     blocks |-> 3, perBlock |-> 4, blockSize |-> 6, lastSamples |-> 1, lastSize |-> 3,
     dataAt |-> 2, table |-> 1]

\* Three channels, of which two are played, up to the end.
StereoBcstm ==
    [LoopingBcstm EXCEPT !.loop = FALSE, !.channels = 3, !.blocks = 2, !.table = 3,
                         !.lastSamples = 1, !.lastSize = 2, !.size = 64, !.refs[3].size = 34]

\* Each differs from a good one in one field.
RefusedFiles ==
    {[Wav EXCEPT !.size = 82],                      \* cut off
     [Wav EXCEPT !.riff = 76],                      \* its last chunk sticks out
     [Wav EXCEPT !.chunks[3].align = 4],
     [Wav EXCEPT !.chunks[4].length = 17],          \* half a sample
     [Wav EXCEPT !.chunks[3].rate = 9, !.chunks[3].byteRate = 18],
     [LoopingBcstm EXCEPT !.loopStart = 8],         \* an empty loop
     [LoopingBcstm EXCEPT !.loopEnd = 10],
     [LoopingBcstm EXCEPT !.perBlock = 5],          \* part of a frame
     [LoopingBcstm EXCEPT !.blockSize = 3, !.lastSize = 2],
     [LoopingBcstm EXCEPT !.lastSamples = 0],
     [LoopingBcstm EXCEPT !.lastSamples = 4, !.lastSize = 3],
     [LoopingBcstm EXCEPT !.blocks = 4],            \* more than the file has
     [StereoBcstm EXCEPT !.table = 2],
     [StereoBcstm EXCEPT !.channels = 4],
     [StereoBcstm EXCEPT !.size = 63]}
MCFiles == {Wav, LoopingBcstm, StereoBcstm} \cup RefusedFiles
MCTracks == {[channels |-> 1, length |-> 9, loopStart |-> 0],
             [channels |-> 1, length |-> 8, loopStart |-> 3],
             [channels |-> 2, length |-> 10, loopStart |-> 0]}

ASSUME OnlyGoodFilesOpen == {f \in MCFiles : Accepted(f)} = {Wav, LoopingBcstm, StereoBcstm}

\* The decoder's sums at the corners of what a file can hold.
Corners == {-32768, -1, 0, 4000, 32767}
ASSUME DecoderStaysIn32Bits ==
    \A header \in {0, 15, 255}, packed \in {0, 8, 119, 128, 255}, i \in {0, 1},
       c1, c2, hist1, hist2 \in Corners :
        LET step == Step(Nibble(packed, i), Scale(header))
            sum == Sum2(step, Coef(c1), hist1, Coef(c2), hist2)
        IN  InS32(step) /\ InS32(Sum1(step, Coef(c1), hist1)) /\ InS32(sum) /\ InS16(Sample(sum))
=============================================================================
