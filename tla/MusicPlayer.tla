----------------------------- MODULE MusicPlayer -----------------------------
(***************************************************************************)
(* ThemeMusic with the source that really decodes: the file it was opened  *)
(* with and its state between two reads.  ThemeMusic takes for granted     *)
(* that a read gives the next samples of a looping track.                  *)
(***************************************************************************)
EXTENDS ThemeMusic, MusicSource

CONSTANT Files   \* bgm.wav, bgm1.bcstm, ... of the theme

ASSUME TracksOfFiles == Tracks = {TrackOf(f) : f \in {g \in Files : Accepted(g)}}

VARIABLE decoder  \* *_source
Closed == [closed |-> TRUE]

Reading == ReadFrames(decoder, job.segment \div frame)

(* What a step of the player does to the source. *)
OpenSource ==
    /\ source = NoSource /\ source' # NoSource
    /\ \E f \in Files : /\ Accepted(f) /\ TrackOf(f) = source'.track
                        /\ decoder' = Opened(f)
ReadSource ==
    /\ main = "reading" /\ main' = "queue"
    /\ decoder' = Reading.source
DeleteSource == source' = NoSource /\ decoder' = Closed
KeepSource ==
    /\ source # NoSource /\ source' = source
    /\ ~(main = "reading" /\ main' = "queue")
    /\ UNCHANGED decoder

PlayerInit == Init /\ decoder = Closed
PlayerNext == Next /\ (OpenSource \/ ReadSource \/ DeleteSource \/ KeepSource)
PlayerSpec == /\ PlayerInit /\ [][PlayerNext]_<<vars, decoder>>
              /\ WF_vars(MainLoop) /\ WF_vars(Callback)

-----------------------------------------------------------------------------
(* A source that was accepted reads without failing, but for the card, and *)
(* gives the samples the ring is filled with, whatever blocks, frames and  *)
(* loop points the read goes across: a sample in the middle of a frame is  *)
(* only decoded right from the history that belongs to it.                 *)
SourceAsPromised ==
    main = "reading" =>
        /\ Reading.ok
        /\ Reading.out = [j \in 1 .. job.segment |-> Looped(source.track, source.next + j - 1)]
=============================================================================
