---------------------------- MODULE SoundStream ----------------------------
(***************************************************************************)
(* What the theme music promises its listener, without ring or counters:   *)
(* samples come out of the track in order, none lost, repeated or invented,*)
(* and silence is heard only when nothing is pending.  ThemeMusic          *)
(* implements this specification.                                          *)
(***************************************************************************)
EXTENDS Integers, Sequences

CONSTANTS Tracks,     \* playable tracks: [channels, length, loopStart], in samples
          NoTrack,    \* no source is open
          Silence,    \* a zero sample
          Capacity    \* samples that may be pending at once

VARIABLES track,      \* the open track, or NoTrack
          next,       \* index in the track of the next sample to be queued
          pending,    \* samples queued and not yet handed to the mixer
          on,         \* the stream is playing
          speaker     \* the last buffer handed to the mixer

svars == <<track, next, pending, on, speaker>>

\* Sample n of a track that, at its length, goes on from its loop start.
Looped(t, n) ==
    IF n < t.length THEN n
    ELSE t.loopStart + ((n - t.loopStart) % (t.length - t.loopStart))

\* A run of k samples of t from index i on.
Run(t, i, k) == [j \in 1 .. k |-> Looped(t, i + j - 1)]

Quiet(n) == [j \in 1 .. n |-> Silence]

Init == /\ track = NoTrack /\ next = 0
        /\ pending = <<>>  /\ on = FALSE
        /\ speaker = <<>>

Open(t) == /\ track = NoTrack
           /\ track' = t /\ next' = 0 /\ pending' = <<>>
           /\ UNCHANGED <<on, speaker>>

Produce(k) == /\ track # NoTrack
              /\ Len(pending) + k <= Capacity
              /\ pending' = pending \o Run(track, next, k)
              /\ next' = Looped(track, next + k)
              /\ UNCHANGED <<track, on, speaker>>

Play == /\ track # NoTrack /\ ~on
        /\ on' = TRUE
        /\ UNCHANGED <<track, next, pending, speaker>>

Deliver(n) == LET k == IF n < Len(pending) THEN n ELSE Len(pending)
              IN  /\ on
                  /\ speaker' = SubSeq(pending, 1, k) \o Quiet(n - k)
                  /\ pending' = SubSeq(pending, k + 1, Len(pending))
                  /\ UNCHANGED <<track, next, on>>

Mute == /\ on
        /\ on' = FALSE
        /\ UNCHANGED <<track, next, pending, speaker>>

DeliverQuiet(n) == /\ ~on
                   /\ speaker' = Quiet(n)
                   /\ UNCHANGED <<track, next, pending, on>>

Close == /\ ~on /\ track # NoTrack
         /\ track' = NoTrack /\ next' = 0 /\ pending' = <<>>
         /\ UNCHANGED <<on, speaker>>

Next == \/ \E t \in Tracks : Open(t)
        \/ \E k \in 1 .. Capacity : Produce(k)
        \/ \E n \in 1 .. 2 * Capacity : Deliver(n) \/ DeliverQuiet(n)
        \/ Play \/ Mute \/ Close

Spec == Init /\ [][Next]_svars
=============================================================================
