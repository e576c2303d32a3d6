--------------------------- MODULE DsiWareLaunch ---------------------------
(***************************************************************************)
(* The saves of a DSiWare title (arm9/source/launcher/                     *)
(* NdsBootstrapLauncher.cpp, launchRomInternal): a public and a private    *)
(* image, beside the ROM or where the settings (saves/ folder, slot) place *)
(* them.  Unlaunch only looks beside the ROM, so a launch through it moves *)
(* them there; nds-bootstrap takes the ones beside the ROM first.  With a  *)
(* path that Unlaunch cannot be told the launch ends in the menu, after    *)
(* the saves were moved.                                                   *)
(* Every rename, create and write is a step; power may be lost between any *)
(* two, and within the creation of an image (module DsiWareSave).          *)
(***************************************************************************)
EXTENDS Naturals, Sequences, FiniteSets

CONSTANTS Kinds,        \* .pub, .prv
          Elsewhere,    \* configured places that are not beside the ROM
          Beside,       \* beside the ROM
          Absent, Empty, Short, Blank,  \* no file, 0 bytes, cut off, whole but unused
          MaxSessions   \* bound on the times the title is played

ASSUME DsiWareAssumption == Beside \notin Elsewhere /\ MaxSessions \in Nat
                           /\ {Absent, Empty, Short, Blank} \cap Nat = {}
                           /\ Absent \notin {Empty, Short, Blank}
                           /\ Empty \notin {Short, Blank} /\ Short # Blank

VARIABLES uses,         \* the kinds whose size in the header is not 0
          pathFits,     \* makeUnlaunchPath succeeds for the ROM's path
          place,        \* where the settings put the saves
          booter,       \* useUnlaunch, or nds-bootstrap
          files,        \* what is at each place
          main,         \* where the launch is
          left,         \* kinds the current step of the launch still has to visit
          taken,        \* the place of each kind's save the launch has chosen
          session,      \* times the title was played
          replaced,     \* the place was changed since the console was new
          cut           \* power was lost while an image was being made

vars == <<uses, pathFits, place, booter, files, main, left, taken, session, replaced, cut>>
title == <<uses, pathFits>>
settings == <<place, booter, replaced>>

Places == Elsewhere \cup {Beside}
\* A session's number stands for what the game wrote in it.
Sessions == 1 .. MaxSessions
Contents == {Absent, Empty, Short, Blank} \cup Sessions

Exists(k, p) == files[k][p] # Absent                       \* access(F_OK)
AcceptedAnySize(k, p) == Exists(k, p)                   \* mutant: stat() is enough
Accepted(k, p) == files[k][p] \notin {Absent, Empty}      \* st_size > 0
Played(c) == c \in Sessions

TypeOK ==
    /\ uses \subseteq Kinds /\ pathFits \in BOOLEAN
    /\ place \in Places /\ booter \in {"unlaunch", "bootstrap"}
    /\ files \in [Kinds -> [Places -> Contents]]
    /\ main \in {"menu", "move", "beside", "unlaunch", "choose", "chosen",
                 "bootstrap", "game"}
    /\ left \subseteq IF main \in {"move", "choose"} THEN Kinds ELSE uses
    /\ taken \in [Kinds -> Places]
    /\ session \in 0 .. MaxSessions
    /\ replaced \in BOOLEAN /\ cut \in BOOLEAN

Init ==
    /\ uses \in SUBSET Kinds /\ pathFits \in BOOLEAN
    /\ place \in Places /\ booter \in {"unlaunch", "bootstrap"}
    /\ files = [k \in Kinds |-> [p \in Places |-> Absent]]
    /\ main = "menu" /\ left = {} /\ taken = [k \in Kinds |-> Beside]
    /\ session = 0 /\ replaced = FALSE /\ cut = FALSE

\* The title's own booter or the global one; the console and the size of the
\* title decide with it.
SetBooter ==
    /\ main = "menu"
    /\ booter' \in {"unlaunch", "bootstrap"}
    /\ UNCHANGED <<title, place, files, main, left, taken, session, replaced, cut>>

\* the saves/ folder, the slot or the naming of saves
SetPlace ==
    /\ main = "menu"
    /\ place' \in Places \ {place} /\ replaced' = TRUE
    /\ UNCHANGED <<title, booter, files, main, left, taken, session, cut>>

Launch ==
    /\ main = "menu"
    /\ main' = IF booter = "unlaunch" THEN "move" ELSE "choose"
    /\ left' = Kinds
    /\ UNCHANGED <<title, settings, files, taken, session, cut>>

Renamed(k) == [files EXCEPT ![k] = [@ EXCEPT ![Beside] = files[k][place],
                                             ![place] = Absent]]

MovesOver(k) == place # Beside /\ Exists(k, place)   \* mutant: the target is not looked at
\* moveDsiWareSaveBesideRom does anything at all
Moves(k) == place # Beside /\ Exists(k, place) /\ ~Exists(k, Beside)

\* The code visits .pub before .prv; here either may come (and fail) first.
Move ==
    /\ main = "move"
    /\ \/ \E k \in left :
          /\ \/ Moves(k) /\ files' = Renamed(k) /\ left' = left \ {k} /\ UNCHANGED main
             \/ ~Moves(k) /\ left' = left \ {k} /\ UNCHANGED <<files, main>>
             \/ Moves(k) /\ main' = "menu" /\ left' = {} /\ UNCHANGED files   \* rename fails
          /\ UNCHANGED taken
       \/ /\ left = {} /\ main' = "beside" /\ left' = uses
          /\ taken' = [k \in Kinds |-> Beside]
          /\ UNCHANGED files
    /\ UNCHANGED <<title, settings, session, cut>>

\* createDsiWareSave: a whole image, none (what was there is gone, or could not
\* be opened), or as much of it as there was when the power went.
Create(k, p) ==
    \/ /\ files' = [files EXCEPT ![k][p] = Blank]
       /\ left' = left \ {k} /\ UNCHANGED <<main, cut>>
    \/ /\ files' \in {[files EXCEPT ![k][p] = Absent], files}
       /\ main' = "menu" /\ left' = {} /\ UNCHANGED cut
    \/ /\ files' \in {[files EXCEPT ![k][p] = c] : c \in {Empty, Short}}
       /\ main' = "menu" /\ left' = {} /\ cut' = TRUE

\* ensureDsiWareSave of each kind the title uses
Ensure(step, next) ==
    /\ main = step
    /\ \/ \E k \in left :
          \/ /\ Accepted(k, taken[k]) /\ left' = left \ {k}
             /\ UNCHANGED <<files, main, cut>>
          \/ ~Accepted(k, taken[k]) /\ Create(k, taken[k])
       \/ left = {} /\ main' = next /\ UNCHANGED <<files, left, cut>>
    /\ UNCHANGED <<title, settings, taken, session>>

\* bootDsiWareWithUnlaunch never returns when it has a path.  Without one an
\* error is shown and the launch is over; the saves stay beside the ROM.
BootUnlaunch ==
    /\ main = "unlaunch"
    /\ main' = IF pathFits THEN "game" ELSE "menu"
    /\ left' = {}
    /\ UNCHANGED <<title, settings, files, taken, session, cut>>

ChosenConfigured(k) == place            \* mutant: the settings alone decide
Chosen(k) == IF Exists(k, Beside) THEN Beside ELSE place

\* No nds-bootstrap of the wanted kind on the card, or the places are chosen.
Choose ==
    /\ main = "choose"
    /\ \/ main' = "menu" /\ left' = {} /\ UNCHANGED taken
       \/ /\ main' = "chosen" /\ left' = uses
          /\ taken' = [k \in Kinds |-> Chosen(k)]
    /\ UNCHANGED <<title, settings, files, session, cut>>

\* The INI, the cheats and runNdsFile (module GameLaunch) fail or start it.
RunBootstrap ==
    /\ main = "bootstrap"
    /\ main' \in {"menu", "game"}
    /\ UNCHANGED <<title, settings, files, left, taken, session, cut>>

\* The game (external) writes every save it has.
Play ==
    /\ main = "game" /\ session < MaxSessions /\ uses # {}
    /\ session' = session + 1
    /\ files' = [k \in Kinds |-> IF k \in uses
                                 THEN [files[k] EXCEPT ![taken[k]] = session + 1]
                                 ELSE files[k]]
    /\ UNCHANGED <<title, settings, main, left, taken, cut>>

\* Off and on again, at any time.
PowerCycle ==
    /\ main # "menu"
    /\ main' = "menu" /\ left' = {}
    /\ UNCHANGED <<title, settings, files, taken, session, cut>>

Next ==
    \/ SetBooter \/ SetPlace \/ Launch \/ Move
    \/ Ensure("beside", "unlaunch") \/ BootUnlaunch
    \/ Choose \/ Ensure("chosen", "bootstrap") \/ RunBootstrap
    \/ Play \/ PowerCycle

Spec == Init /\ [][Next]_vars
------------------------------------------------------------------------------
\* What pathFits stands for: the ROM's path in the 16-bit units that Unlaunch
\* reads, from the bytes of its UTF-8. A path is a sequence of bytes.

\* What a first byte says: how many follow, its part of the character, and the
\* least character that needs so many.
IsFirst(b) == b < 128 \/ b \in 192 .. 247
First(b) ==
    CASE b < 128 -> [more |-> 0, part |-> b, minimum |-> 0]
      [] b \in 192 .. 223 -> [more |-> 1, part |-> b % 32, minimum |-> 128]
      [] b \in 224 .. 239 -> [more |-> 2, part |-> b % 16, minimum |-> 2048]
      [] b \in 240 .. 247 -> [more |-> 3, part |-> b % 8, minimum |-> 65536]

Units(c) ==
    IF c <= 65535 THEN <<c>>
    ELSE <<55296 + ((c - 65536) \div 1024), 56320 + ((c - 65536) % 1024)>>

\* One step: from [ok, at, output], at the byte to be read.
appendUtf8Codepoint(text, s, capacity) ==
    LET first == First(text[s.at])
        follow == s.at + 1 .. s.at + first.more
        c[k \in 0 .. 3] == IF k = 0 THEN first.part ELSE c[k - 1] * 64 + (text[s.at + k] % 64)
        codepoint == c[first.more]
        Legal == /\ codepoint >= first.minimum /\ codepoint <= 1114111
                 /\ codepoint \notin 55296 .. 57343
        Accepts == /\ IsFirst(text[s.at]) /\ follow \subseteq DOMAIN text
                   /\ \A k \in follow : text[k] \div 64 = 2
                   /\ Legal /\ Len(s.output \o Units(codepoint)) <= capacity
    IN IF Accepts
       THEN [ok |-> TRUE, at |-> s.at + first.more + 1, output |-> s.output \o Units(codepoint)]
       ELSE [s EXCEPT !.ok = FALSE]

SdPrefix == <<115, 100, 58, 47>>                      \* "sd:/"
SdmcPrefix == <<115, 100, 109, 99, 58, 47>>           \* "sdmc:/"
makeUnlaunchPath(romPath, capacity) ==
    LET OnSd == Len(romPath) >= 4 /\ SubSeq(romPath, 1, 4) = SdPrefix
        path == IF OnSd THEN SdmcPrefix \o SubSeq(romPath, 5, Len(romPath)) ELSE romPath
        Done(s) == ~s.ok \/ s.at > Len(path)
        after[n \in 0 .. Len(path)] ==
            IF n = 0 THEN [ok |-> TRUE, at |-> 1, output |-> <<>>]
            ELSE LET s == after[n - 1]
                 IN IF Done(s) THEN s ELSE appendUtf8Codepoint(path, s, capacity)
    IN after[Len(path)]

\* A character, halves of a pair left out, and the shortest bytes for it.
IsCharacter(c) == c \in 1 .. 55295 \/ c \in 57344 .. 1114111
Utf8(c) ==
    CASE c < 128 -> <<c>>
      [] c \in 128 .. 2047 -> <<192 + (c \div 64), 128 + (c % 64)>>
      [] c \in 2048 .. 65535 ->
           <<224 + (c \div 4096), 128 + ((c \div 64) % 64), 128 + (c % 64)>>
      [] c > 65535 -> <<240 + (c \div 262144), 128 + ((c \div 4096) % 64),
                        128 + ((c \div 64) % 64), 128 + (c % 64)>>

\* Every character comes out as its units, wherever the buffer ends.
CharacterKept(c, capacity) ==
    LET r == makeUnlaunchPath(Utf8(c), capacity)
    IN /\ r.ok <=> Len(Units(c)) <= capacity
       /\ r.ok => r.output = Units(c)

\* Two paths never become one, however their bytes are broken: Unlaunch starts
\* the ROM the saves were moved to, or none. A path stays inside the buffer.
PathsApart(texts, capacity) ==
    LET fit == {t \in texts : makeUnlaunchPath(t, capacity).ok}
        outputs == {makeUnlaunchPath(t, capacity).output : t \in fit}
    IN /\ Cardinality(outputs) = Cardinality(fit)
       /\ \A o \in outputs : Len(o) <= capacity
------------------------------------------------------------------------------

\* A launch that gets as far as the title has a save where its booter looks,
\* for each kind the title uses: beside the ROM for Unlaunch, at the path in the
\* INI for nds-bootstrap.  And only a power cut while an image is being made can
\* leave one that is too short, which every later launch then takes for a save.
ShortOnlyAfterCut ==
    ~cut => \A k \in Kinds, p \in Places : files[k][p] \notin {Empty, Short}
SavesThere ==
    /\ main = "game" => \A k \in uses : files[k][taken[k]] \notin {Absent, Empty}
    /\ ShortOnlyAfterCut

\* While the settings leave the place alone the title finds what it wrote last,
\* whichever of the two booters wrote it and whichever starts it now, with
\* launches that failed half way between them.
NewestUsed ==
    main = "game" /\ ~replaced =>
        \A k \in uses, p \in Places :
            Played(files[k][p]) => /\ Played(files[k][taken[k]])
                                   /\ files[k][p] <= files[k][taken[k]]

\* No launch loses what a game wrote, wherever it is: it stays, or it is moved.
\* Only a later session of the game overwrites it.
PlayedKept ==
    [][main # "game" => \A k \in Kinds, p \in Places :
          Played(files[k][p]) => \E q \in Places : files'[k][q] = files[k][p]]_vars
==============================================================================
