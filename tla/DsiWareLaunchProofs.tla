------------------------ MODULE DsiWareLaunchProofs ------------------------
(***************************************************************************)
(* The saves of a DSiWare title, for any number of kinds, places and       *)
(* sessions: none that was played is lost, and while the settings stay the *)
(* title always finds the one it wrote last.  The argument for the latter: *)
(* as long as the place does not change there is one file of each kind at  *)
(* most, and every launch has chosen the place it is at before it creates  *)
(* anything.                                                               *)
(*                                                                         *)
(* And a save that createDsiWareSave makes is sound, for every size it can *)
(* be asked for: its volume fits the file and the file allocation table    *)
(* fits the volume's clusters.                                             *)
(***************************************************************************)
EXTENDS DsiWareLaunch, DsiWareSave, TLAPS

\* What the arguments need of the types
FilesOK ==
    /\ uses \subseteq Kinds /\ left \subseteq Kinds
    /\ place \in Places
    /\ files \in [Kinds -> [Places -> Contents]]
    /\ taken \in [Kinds -> Places]
    /\ session \in 0 .. MaxSessions

LEMMA CreateFilesOK ==
    ASSUME FilesOK, NEW k \in Kinds, Create(k, taken[k])
    PROVE  /\ files' \in [Kinds -> [Places -> Contents]]
           /\ left' \subseteq Kinds
<1>1. \/ UNCHANGED files
      \/ \E c \in Contents : files' = [files EXCEPT ![k][taken[k]] = c]
  BY DEF Create, Contents
<1>2. taken[k] \in Places /\ files[k] \in [Places -> Contents]
  BY DEF FilesOK
<1>3. ASSUME NEW c \in Contents, files' = [files EXCEPT ![k][taken[k]] = c]
      PROVE  files' \in [Kinds -> [Places -> Contents]]
  BY <1>2, <1>3 DEF FilesOK
<1>4. files' \in [Kinds -> [Places -> Contents]]
  BY <1>1, <1>3 DEF FilesOK
<1>5. left' \subseteq Kinds
  BY DEF Create, FilesOK
<1> QED BY <1>4, <1>5

LEMMA RenamedFiles ==
    ASSUME FilesOK, NEW k \in Kinds, Moves(k), files' = Renamed(k)
    PROVE  /\ files' \in [Kinds -> [Places -> Contents]]
           /\ \A p \in Places : files'[k][p] = IF p = Beside THEN files[k][place]
                                               ELSE IF p = place THEN Absent
                                               ELSE files[k][p]
           /\ \A j \in Kinds \ {k} : files'[j] = files[j]
<1>1. Beside \in Places /\ Absent \in Contents /\ place # Beside
  BY DEF Places, Contents, Moves
<1>2. files[k] \in [Places -> Contents] /\ files[k][place] \in Contents
  BY DEF FilesOK
<1> DEFINE new == [files[k] EXCEPT ![Beside] = files[k][place], ![place] = Absent]
<1>3. new \in [Places -> Contents]
  BY <1>1, <1>2 DEF FilesOK
<1>4. \A p \in Places : new[p] = IF p = Beside THEN files[k][place]
                                 ELSE IF p = place THEN Absent ELSE files[k][p]
  BY <1>1, <1>2
<1>5. files' = [files EXCEPT ![k] = new]
  BY DEF Renamed
<1>6. files'[k] = new /\ \A j \in Kinds \ {k} : files'[j] = files[j]
  BY <1>5 DEF FilesOK
<1> HIDE DEF new
<1>7. files' \in [Kinds -> [Places -> Contents]]
  BY <1>3, <1>5 DEF FilesOK
<1> QED BY <1>4, <1>6, <1>7

LEMMA FilesOKHolds == Spec => []FilesOK
<1>1. Init => FilesOK
  BY DsiWareAssumption DEF Init, FilesOK, Places, Contents
<1>2. FilesOK /\ [Next]_vars => FilesOK'
  <2> SUFFICES ASSUME FilesOK, [Next]_vars PROVE FilesOK'
    OBVIOUS
  <2> USE DsiWareAssumption DEF FilesOK, title, settings
  <2>1. CASE SetBooter
    BY <2>1 DEF SetBooter
  <2>2. CASE SetPlace
    BY <2>2 DEF SetPlace
  <2>3. CASE Launch
    BY <2>3 DEF Launch
  <2>4. CASE Move
    <3>1. /\ UNCHANGED <<uses, place, session>>
          /\ left' \subseteq Kinds
          /\ taken' \in [Kinds -> Places]
      BY <2>4 DEF Move, Places
    <3>2. \/ UNCHANGED files
          \/ \E k \in Kinds : Moves(k) /\ files' = Renamed(k)
      BY <2>4 DEF Move
    <3>3. files' \in [Kinds -> [Places -> Contents]]
      BY <3>2, RenamedFiles
    <3> QED BY <3>1, <3>3
  <2>5. ASSUME NEW step, NEW next, Ensure(step, next) PROVE FilesOK'
    <3>1. UNCHANGED <<uses, place, taken, session>>
      BY <2>5 DEF Ensure
    <3>2. /\ files' \in [Kinds -> [Places -> Contents]]
          /\ left' \subseteq Kinds
      BY <2>5, CreateFilesOK DEF Ensure
    <3> QED BY <3>1, <3>2
  <2>6. CASE BootUnlaunch
    BY <2>6 DEF BootUnlaunch
  <2>7. CASE Choose
    BY <2>7 DEF Choose, Chosen, Places
  <2>8. CASE RunBootstrap
    BY <2>8 DEF RunBootstrap
  <2>9. CASE Play
    BY <2>9 DEF Play, Contents, Sessions
  <2>10. CASE PowerCycle
    BY <2>10 DEF PowerCycle
  <2>11. CASE UNCHANGED vars
    BY <2>11 DEF vars
  <2> QED BY <2>1, <2>2, <2>3, <2>4, <2>5, <2>6, <2>7, <2>8, <2>9, <2>10, <2>11 DEF Next
<1> QED BY <1>1, <1>2, PTL DEF Spec
------------------------------------------------------------------------------
(* PlayedKept                                                              *)

\* No step but the game's own takes a played save away.
LEMMA StepKeepsPlayed ==
    ASSUME FilesOK, Next, main # "game",
           NEW k \in Kinds, NEW p \in Places, Played(files[k][p])
    PROVE  \E q \in Places : files'[k][q] = files[k][p]
<1> USE DEF FilesOK
<1>1. CASE Move
  <2>1. \/ UNCHANGED files
        \/ \E j \in Kinds : Moves(j) /\ files' = Renamed(j)
    BY <1>1 DEF Move
  <2>2. ASSUME NEW j \in Kinds, Moves(j), files' = Renamed(j)
        PROVE  \E q \in Places : files'[k][q] = files[k][p]
    <3>1. CASE j # k
      BY <2>2, <3>1, RenamedFiles
    <3>2. CASE j = k /\ p = place
      BY <2>2, <3>2, RenamedFiles DEF Places
    <3>3. CASE j = k /\ p # place
      <4>1. files[k][Beside] = Absent
        BY <2>2, <3>3 DEF Moves, Exists
      <4>2. p # Beside
        BY <4>1, DsiWareAssumption DEF Played, Sessions
      <4> QED BY <2>2, <3>3, <4>2, RenamedFiles
    <3> QED BY <3>1, <3>2, <3>3
  <2> QED BY <2>1, <2>2
<1>2. ASSUME NEW step, NEW next, Ensure(step, next)
      PROVE  \E q \in Places : files'[k][q] = files[k][p]
  <2>1. \/ UNCHANGED files
        \/ \E j \in Kinds : ~Accepted(j, taken[j]) /\ Create(j, taken[j])
    BY <1>2 DEF Ensure
  <2>2. ASSUME NEW j \in Kinds, ~Accepted(j, taken[j]), Create(j, taken[j])
        PROVE  files'[k][p] = files[k][p]
    <3>1. <<j, taken[j]>> # <<k, p>>
      BY <2>2, DsiWareAssumption DEF Accepted, Played, Sessions
    <3>2. \/ UNCHANGED files
          \/ \E c \in Contents : files' = [files EXCEPT ![j][taken[j]] = c]
      BY <2>2 DEF Create, Contents
    <3> QED BY <3>1, <3>2
  <2> QED BY <2>1, <2>2
<1>3. ~Play
  BY DEF Play
<1> QED
  BY <1>1, <1>2, <1>3 DEF Next, SetBooter, SetPlace, Launch, BootUnlaunch, Choose,
                          RunBootstrap, PowerCycle

\* No launch loses a save a game has written, whatever step fails and whenever
\* the power goes.
THEOREM DsiWarePlayedKept == Spec => PlayedKept
<1>1. FilesOK /\ [Next]_vars =>
        [main # "game" => \A k \in Kinds, p \in Places :
          Played(files[k][p]) => \E q \in Places : files'[k][q] = files[k][p]]_vars
  BY StepKeepsPlayed
<1> QED BY <1>1, FilesOKHolds, PTL DEF Spec, PlayedKept
------------------------------------------------------------------------------
(* SavesThere                                                              *)

\* Ensure has left behind it a save for each kind it has visited.
VisitedInv ==
    /\ main \in {"beside", "chosen"} => \A k \in uses \ left : Accepted(k, taken[k])
    /\ main \in {"unlaunch", "bootstrap", "game"} => \A k \in uses : Accepted(k, taken[k])

LEMMA VisitedHolds == Spec => []VisitedInv
<1>1. Init => VisitedInv
  BY DEF Init, VisitedInv
<1>2. FilesOK /\ VisitedInv /\ [Next]_vars => VisitedInv'
  <2> SUFFICES ASSUME FilesOK, VisitedInv, [Next]_vars PROVE VisitedInv'
    OBVIOUS
  <2> USE DEF VisitedInv, title, settings
  <2>1. CASE SetBooter
    BY <2>1 DEF SetBooter
  <2>2. CASE SetPlace
    BY <2>2 DEF SetPlace
  <2>3. CASE Launch
    BY <2>3 DEF Launch
  <2>4. CASE Move
    BY <2>4 DEF Move
  <2>5. ASSUME NEW step \in {"beside", "chosen"}, NEW next \in {"unlaunch", "bootstrap"},
               Ensure(step, next)
        PROVE  VisitedInv'
    <3>1. ASSUME \/ \E k \in left : /\ Accepted(k, taken[k]) /\ left' = left \ {k}
                                    /\ UNCHANGED <<files, main>>
                 \/ left = {} /\ main' = next /\ UNCHANGED <<files, left>>
          PROVE  VisitedInv'
      BY <2>5, <3>1 DEF Ensure, Accepted, FilesOK
    <3>2. ASSUME NEW k \in left, ~Accepted(k, taken[k]), Create(k, taken[k])
          PROVE  VisitedInv'
      <4>1. CASE main' = "menu"
        BY <4>1
      <4>2. CASE main' # "menu"
        <5>1. /\ files' = [files EXCEPT ![k][taken[k]] = Blank]
              /\ left' = left \ {k} /\ UNCHANGED main /\ main = step
              /\ UNCHANGED <<taken, uses>>
          BY <2>5, <3>2, <4>2 DEF Create, Ensure
        <5>2. files'[k][taken[k]] = Blank
          BY <5>1 DEF FilesOK
        <5>3. \A j \in Kinds \ {k} : files'[j] = files[j]
          BY <5>1 DEF FilesOK
        <5>4. Accepted(k, taken[k])'
          BY <5>1, <5>2, DsiWareAssumption DEF Accepted
        <5>5. \A j \in uses \ left' : Accepted(j, taken[j])'
          BY <2>5, <5>1, <5>3, <5>4 DEF Accepted, FilesOK
        <5> QED BY <2>5, <5>1, <5>5
      <4> QED BY <4>1, <4>2
    <3> QED BY <2>5, <3>1, <3>2 DEF Ensure
  <2>6. CASE BootUnlaunch
    BY <2>6 DEF BootUnlaunch, Accepted
  <2>7. CASE Choose
    BY <2>7 DEF Choose
  <2>8. CASE RunBootstrap
    BY <2>8 DEF RunBootstrap, Accepted
  <2>9. CASE Play
    <3>1. \A k \in uses : files'[k][taken[k]] = session + 1
      BY <2>9 DEF Play, FilesOK
    <3>2. session + 1 \notin {Absent, Empty}
      <4>1. session + 1 \in Nat
        BY DsiWareAssumption DEF FilesOK
      <4> QED BY <4>1, DsiWareAssumption
    <3> QED BY <2>9, <3>1, <3>2 DEF Play, Accepted
  <2>10. CASE PowerCycle
    BY <2>10 DEF PowerCycle
  <2>11. CASE UNCHANGED vars
    BY <2>11 DEF vars, Accepted
  <2> QED BY <2>1, <2>2, <2>3, <2>4, <2>5, <2>6, <2>7, <2>8, <2>9, <2>10, <2>11 DEF Next
<1> QED BY <1>1, <1>2, FilesOKHolds, PTL DEF Spec

LEMMA ShortHolds == Spec => []ShortOnlyAfterCut
<1>1. Init => ShortOnlyAfterCut
  BY DsiWareAssumption DEF Init, ShortOnlyAfterCut
<1>2. FilesOK /\ ShortOnlyAfterCut /\ [Next]_vars => ShortOnlyAfterCut'
  <2> SUFFICES ASSUME FilesOK, ShortOnlyAfterCut, [Next]_vars PROVE ShortOnlyAfterCut'
    OBVIOUS
  <2> USE DEF ShortOnlyAfterCut, title, settings
  <2>1. CASE UNCHANGED <<files, cut>>
    BY <2>1
  <2>2. CASE Move
    <3>1. ASSUME NEW k \in Kinds, files' = Renamed(k), cut' = cut PROVE ShortOnlyAfterCut'
      BY <3>1, DsiWareAssumption DEF Renamed, FilesOK
    <3> QED BY <2>2, <3>1 DEF Move, FilesOK
  <2>3. ASSUME NEW k \in Kinds, NEW p \in Places, Create(k, p) PROVE ShortOnlyAfterCut'
    BY <2>3, DsiWareAssumption DEF Create, FilesOK
  <2>4. ASSUME NEW step, NEW next, Ensure(step, next) PROVE ShortOnlyAfterCut'
    BY <2>1, <2>3, <2>4 DEF Ensure, FilesOK
  <2>5. CASE Play
    <3>1. session + 1 \notin {Empty, Short}
      <4>1. session + 1 \in Nat
        BY DsiWareAssumption DEF FilesOK
      <4> QED BY <4>1, DsiWareAssumption
    <3>2. ASSUME NEW k \in Kinds, NEW p \in Places
          PROVE  files'[k][p] = files[k][p] \/ files'[k][p] = session + 1
      BY <2>5, <3>2 DEF Play, FilesOK
    <3>3. cut' = cut
      BY <2>5 DEF Play
    <3> QED BY <3>1, <3>2, <3>3 DEF Places
  <2> QED BY <2>1, <2>2, <2>4, <2>5
          DEF Next, SetBooter, SetPlace, Launch, BootUnlaunch, Choose, RunBootstrap,
              PowerCycle, vars
<1> QED BY <1>1, <1>2, FilesOKHolds, PTL DEF Spec

\* A title starts with a save of each kind it uses where its booter looks, and
\* none is cut off unless the power was.
THEOREM DsiWareSavesThere == Spec => []SavesThere
<1>1. VisitedInv /\ ShortOnlyAfterCut => SavesThere
  BY DEF VisitedInv, SavesThere, Accepted
<1> QED BY <1>1, VisitedHolds, ShortHolds, PTL
------------------------------------------------------------------------------
(* NewestUsed                                                              *)

OneFile == \A k \in Kinds, p, q \in Places : Exists(k, p) /\ Exists(k, q) => p = q
Known == \A k \in Kinds, p \in Places : Exists(k, p) => p \in {Beside, place}
OnlyTaken == \A k \in Kinds, p \in Places : Exists(k, p) => p = taken[k]

\* While the place is the first one: there is at most one file of each kind,
\* beside the ROM or where the settings say; from the choice on it is at the
\* place chosen, and the moving leaves it beside the ROM.
SinglePlaceInv ==
    ~replaced =>
    /\ Known /\ OneFile
    /\ main = "move" =>
          \A k \in Kinds \ left, p \in Places : Exists(k, p) => p = Beside
    /\ main \in {"beside", "unlaunch"} => \A k \in Kinds : taken[k] = Beside
    /\ main \in {"chosen", "bootstrap"} => \A k \in Kinds : taken[k] \in {Beside, place}
    /\ main \in {"beside", "unlaunch", "chosen", "bootstrap", "game"} => OnlyTaken
    /\ main = "game" => \A k \in Kinds : taken[k] \in {Beside, place}

LEMMA MoveKeepsSingle ==
    ASSUME FilesOK, SinglePlaceInv, Move, ~replaced
    PROVE  SinglePlaceInv'
<1> USE DEF SinglePlaceInv, Known, OneFile, OnlyTaken, settings
<1>0. UNCHANGED <<place, replaced>> /\ main = "move" /\ Beside \in Places
  BY DEF Move, Places
<1>1. ASSUME NEW k \in left, Moves(k), files' = Renamed(k), left' = left \ {k},
             UNCHANGED <<main, taken>>
      PROVE  SinglePlaceInv'
  <2>1. k \in Kinds
    BY DEF FilesOK
  <2>2. /\ \A p \in Places : files'[k][p] = IF p = Beside THEN files[k][place]
                                            ELSE IF p = place THEN Absent
                                            ELSE files[k][p]
        /\ \A j \in Kinds \ {k} : files'[j] = files[j]
    BY <1>1, <2>1, RenamedFiles
  <2>3. \A p \in Places : Exists(k, p)' => p = Beside
    BY <2>1, <2>2 DEF Exists, Moves
  <2>4. \A j \in Kinds \ {k}, p \in Places : Exists(j, p)' <=> Exists(j, p)
    BY <2>2 DEF Exists
  <2> QED BY <1>0, <1>1, <2>1, <2>3, <2>4
<1>2. ASSUME NEW k \in left, ~Moves(k), left' = left \ {k}, UNCHANGED <<files, main, taken>>
      PROVE  SinglePlaceInv'
  <2>1. k \in Kinds
    BY DEF FilesOK
  <2>2. \A p \in Places : Exists(k, p) => p = Beside
    BY <1>0, <1>2, <2>1 DEF Moves, FilesOK
  <2> QED BY <1>0, <1>2, <2>1, <2>2 DEF Exists
<1>3. CASE main' = "menu" /\ UNCHANGED <<files, taken>>
  BY <1>0, <1>3 DEF Exists
<1>4. CASE left = {} /\ main' = "beside" /\ taken' = [k \in Kinds |-> Beside] /\ UNCHANGED files
  BY <1>0, <1>4 DEF Exists
<1> QED BY <1>0, <1>1, <1>2, <1>3, <1>4 DEF Move

LEMMA EnsureKeepsSingle ==
    ASSUME FilesOK, SinglePlaceInv, ~replaced,
           NEW step, NEW next,
           <<step, next>> \in {<<"beside", "unlaunch">>, <<"chosen", "bootstrap">>},
           Ensure(step, next)
    PROVE  SinglePlaceInv'
<1> USE DEF SinglePlaceInv, Known, OneFile, OnlyTaken, settings
<1>0. UNCHANGED <<place, taken, replaced>> /\ main = step
  BY DEF Ensure
<1>1. ASSUME \/ \E k \in left : /\ Accepted(k, taken[k]) /\ left' = left \ {k}
                                /\ UNCHANGED <<files, main>>
             \/ left = {} /\ main' = next /\ UNCHANGED <<files, left>>
      PROVE  SinglePlaceInv'
  BY <1>0, <1>1 DEF Exists
<1>2. ASSUME NEW k \in left, ~Accepted(k, taken[k]), Create(k, taken[k])
      PROVE  SinglePlaceInv'
  <2>1. k \in Kinds /\ taken[k] \in Places /\ taken[k] \in {Beside, place}
    BY <1>0 DEF FilesOK
  <2>2. \/ UNCHANGED files
        \/ \E c \in Contents : files' = [files EXCEPT ![k][taken[k]] = c]
    BY <1>2 DEF Create, Contents
  <2>3. \A j \in Kinds, p \in Places :
           <<j, p>> # <<k, taken[k]>> => files'[j][p] = files[j][p]
    BY <2>1, <2>2 DEF FilesOK
  <2>4. \A j \in Kinds, p \in Places : Exists(j, p)' => p = taken[j]
    BY <1>0, <2>3 DEF Exists
  <2>5. main' \in {main, "menu"}
    BY <1>2 DEF Create
  <2> QED BY <1>0, <2>1, <2>4, <2>5
<1> QED BY <1>1, <1>2 DEF Ensure

LEMMA SinglePlaceHolds == Spec => []SinglePlaceInv
<1>1. Init => SinglePlaceInv
  BY DEF Init, SinglePlaceInv, Known, OneFile, OnlyTaken, Exists
<1>2. FilesOK /\ SinglePlaceInv /\ [Next]_vars => SinglePlaceInv'
  <2> SUFFICES ASSUME FilesOK, SinglePlaceInv, [Next]_vars, ~replaced' PROVE SinglePlaceInv'
    BY DEF SinglePlaceInv
  <2> USE DEF SinglePlaceInv, Known, OneFile, OnlyTaken, title, settings
  <2>0. ~replaced
    BY DEF Next, vars, SetBooter, SetPlace, Launch, Move, Ensure, BootUnlaunch, Choose,
           RunBootstrap, Play, PowerCycle
  <2>1. CASE SetBooter
    BY <2>1 DEF SetBooter, Exists
  <2>2. CASE SetPlace
    BY <2>2 DEF SetPlace
  <2>3. CASE Launch
    BY <2>0, <2>3 DEF Launch, Exists
  <2>4. CASE Move
    BY <2>0, <2>4, MoveKeepsSingle
  <2>5. CASE Ensure("beside", "unlaunch") \/ Ensure("chosen", "bootstrap")
    BY <2>0, <2>5, EnsureKeepsSingle
  <2>6. CASE BootUnlaunch
    BY <2>0, <2>6 DEF BootUnlaunch, Exists
  <2>7. CASE Choose
    <3>1. \A k \in Kinds, p \in Places : Exists(k, p) => p = Chosen(k)
      BY <2>0 DEF Chosen, Places, FilesOK
    <3> QED BY <2>0, <2>7, <3>1 DEF Choose, Chosen, Exists
  <2>8. CASE RunBootstrap
    BY <2>0, <2>8 DEF RunBootstrap, Exists
  <2>9. CASE Play
    <3>1. \A k \in Kinds, p \in Places : p # taken[k] => files'[k][p] = files[k][p]
      BY <2>9 DEF Play, FilesOK
    <3>2. \A k \in Kinds, p \in Places : Exists(k, p)' => p = taken[k]
      BY <2>0, <2>9, <3>1 DEF Play, Exists
    <3> QED BY <2>0, <2>9, <3>2 DEF Play
  <2>10. CASE PowerCycle
    BY <2>0, <2>10 DEF PowerCycle, Exists
  <2>11. CASE UNCHANGED vars
    BY <2>0, <2>11 DEF vars, Exists
  <2> QED BY <2>1, <2>2, <2>3, <2>4, <2>5, <2>6, <2>7, <2>8, <2>9, <2>10, <2>11 DEF Next
<1> QED BY <1>1, <1>2, FilesOKHolds, PTL DEF Spec

\* As long as the settings leave the place of the saves alone, a title starts
\* with what it wrote last, whichever booters were used and whatever failed.
THEOREM DsiWareNewestUsed == Spec => []NewestUsed
<1>1. FilesOK /\ SinglePlaceInv => NewestUsed
  <2> SUFFICES ASSUME FilesOK, SinglePlaceInv, main = "game", ~replaced,
                      NEW k \in uses, NEW p \in Places, Played(files[k][p])
               PROVE  /\ Played(files[k][taken[k]])
                      /\ files[k][p] <= files[k][taken[k]]
    BY DEF NewestUsed
  <2>1. Exists(k, p)
    BY DsiWareAssumption DEF Exists, Played, Sessions
  <2>2. p = taken[k]
    BY <2>1 DEF SinglePlaceInv, OnlyTaken, FilesOK
  <2>3. files[k][p] \in Nat
    BY DEF Played, Sessions
  <2> QED BY <2>2, <2>3
<1> QED BY <1>1, FilesOKHolds, SinglePlaceHolds, PTL

-----------------------------------------------------------------------------
(* createDsiWareSave (DsiWareSave) never gives a file a geometry with more *)
(* sectors than it has room for, and leaves no file when it refuses, for   *)
(* every size.                                                             *)

LEMMA VolumePositive ==
    ASSUME NEW s \in Nat \ {0}, NEW h \in Nat \ {0}
    PROVE  Volume(s, h) \in Nat \ {0}
<1>1. s * h \in Nat \ {0}
  OBVIOUS
<1>2. (s * h) * h \in Nat \ {0}
  BY <1>1
<1> QED BY <1>2 DEF Volume

\* What is open keeps its room; the search never accepts more than it.
GeometryInv ==
    /\ SaveTypeOK
    /\ stage = "enter" => sectors = 1
    /\ stage \notin {"enter", "refused"} => 1 <= max /\ max <= Limit /\ sectors <= max
    /\ stage \in {"enter", "search", "last", "format", "refused"} => length = NoFile
    /\ stage = "grow" => sector0 = "boot" /\ length <= max
    /\ MadeWhole

LEMMA GeometryHolds == SaveSpec => []GeometryInv
<1> USE SaveAssumption DEF NoFile, Limit
<1>1. SaveInit => GeometryInv
  BY DEF SaveInit, GeometryInv, SaveTypeOK, MadeWhole
<1>2. GeometryInv /\ [SaveNext]_saveVars => GeometryInv'
  <2> SUFFICES ASSUME GeometryInv, [SaveNext]_saveVars PROVE GeometryInv'
    OBVIOUS
  <2> USE DEF GeometryInv, SaveTypeOK, MadeWhole, search
  <2>1. CASE Enter
    BY <2>1 DEF Enter
  <2>2. CASE Search
    <3>1. perTrack + 1 \in Nat \ {0} /\ heads + 1 \in Nat \ {0}
      OBVIOUS
    <3>2. /\ Volume(perTrack, heads + 1) \in Nat \ {0}
          /\ Volume(perTrack + 1, heads + 1) \in Nat \ {0}
      BY <3>1, VolumePositive
    <3> QED BY <2>2, <3>1, <3>2 DEF Search
  <2>3. CASE SearchEnds
    BY <2>3 DEF SearchEnds
  <2>4. CASE LastTrial
    <3>1. Volume(perTrack + 1, heads) \in Nat \ {0}
      BY VolumePositive
    <3> QED BY <2>4, <3>1 DEF LastTrial
  <2>5. CASE Format
    BY <2>5 DEF Format
  <2>6. CASE Grow
    BY <2>6 DEF Grow
  <2>7. CASE Fail
    BY <2>7 DEF Fail
  <2>8. CASE UNCHANGED saveVars
    BY <2>8 DEF saveVars
  <2> QED BY <2>1, <2>2, <2>3, <2>4, <2>5, <2>6, <2>7, <2>8 DEF SaveNext
<1> QED BY <1>1, <1>2, PTL DEF SaveSpec

\* The sector count of the boot sector stays within the room asked for and in
\* the u16 it is stored in, whatever the size and in every round of the search.
THEOREM DsiWareSectorsFit == SaveSpec => []SectorsFit
<1>1. GeometryInv => SectorsFit
  BY SaveAssumption DEF GeometryInv, SaveTypeOK, SectorsFit, Limit
<1> QED BY <1>1, GeometryHolds, PTL

\* createDsiWareSave that returns true leaves a file of the asked-for size with
\* its boot sector; one that returns false leaves no file.
THEOREM DsiWareWholeOrNothing == SaveSpec => []WholeOrNothing
<1>1. GeometryInv => WholeOrNothing
  BY DEF GeometryInv, WholeOrNothing, RefusedLeavesNone
<1> QED BY <1>1, GeometryHolds, PTL

\* Rounded up to whole units
LEMMA RoundedUp ==
    ASSUME NEW n \in Nat, NEW m \in Nat \ {0}
    PROVE  /\ RoundUp(n, m) \div m \in Nat
           /\ (RoundUp(n, m) \div m) * m >= n /\ (RoundUp(n, m) \div m) * m < n + m
<1> DEFINE q == (n + m - 1) \div m
<1>1. q \in Nat /\ q * m <= n + m - 1 /\ n + m - 1 < q * m + m
  OBVIOUS
<1> HIDE DEF q
<1>2. RoundUp(n, m) = q * m
  BY DEF RoundUp, q
<1>3. (q * m) \div m = q
  BY <1>1
<1> QED BY <1>1, <1>2, <1>3

\* The FAT of every image has an entry for each of its clusters, and no image
\* of less than 16 MB has more clusters than FAT12 counts, whatever geometry
\* the search ended with: the size of the FAT is reckoned from the clusters of
\* the whole volume, which are two more at least than those behind the root
\* directory.
LEMMA FatIsSound ==
    ASSUME GeometryInv, Formatted
    PROVE  FatCovers /\ Fat12Limit
<1> DEFINE total == TotalClusters
           pairs == RoundUp(total, 2) \div 2
<1>1. /\ sectors \in Nat \ {0} /\ max \in Nat /\ sectors <= max
  BY SaveAssumption DEF GeometryInv, SaveTypeOK, Formatted
<1>2. /\ PerCluster \in {1, 4, 8}
      /\ PerCluster = 1 => sectors <= 1024
      /\ PerCluster = 4 => sectors <= 8192 /\ sectors > 1024
      /\ PerCluster = 8 => sectors > 8192
  BY <1>1 DEF PerCluster
<1>3. total \in Nat /\ total * PerCluster >= sectors /\ total * PerCluster < sectors + PerCluster
  <2>1. PerCluster \in Nat \ {0}
    BY <1>2
  <2> QED BY <1>1, <2>1, RoundedUp DEF TotalClusters
<1>4. RootSectors \in {2, 32}
  BY DEF RootSectors, RootEntries
<1> HIDE DEF total
<1>5. pairs \in Nat /\ pairs * 2 >= total
  BY <1>3, RoundedUp
<1> HIDE DEF pairs
<1>6. FatSize \in Nat /\ FatSize * 512 >= pairs * 3
  <2>1. pairs * 3 \in Nat
    BY <1>5
  <2>2. FatSize = RoundUp(pairs * 3, 512) \div 512
    BY DEF FatSize, pairs, total
  <2> QED BY <2>1, <2>2, RoundedUp
<1>7. FatSize >= 1 /\ FatSize * 4096 >= total * 12
  <2>1. total >= 1
    BY <1>1, <1>2, <1>3
  <2> QED BY <1>3, <1>5, <1>6, <2>1
<1>8. DataClusters = (sectors - 1 - 2 * FatSize - RootSectors) \div PerCluster
  BY DEF DataClusters
<1> DEFINE data == sectors - 1 - 2 * FatSize - RootSectors
<1>9. data \in Int /\ data <= sectors - 5
  BY <1>1, <1>4, <1>6, <1>7
<1>10. FatCovers
  <2> HIDE DEF data
  <2> SUFFICES ASSUME sectors > 5 PROVE (DataClusters + 2) * 12 <= FatSize * 512 * 8
    BY DEF FatCovers
  <2>1. DataClusters \in Int /\ DataClusters + 2 <= total
    <3>1. CASE PerCluster = 1
      BY <1>1, <1>3, <1>8, <1>9, <3>1 DEF data
    <3>2. CASE PerCluster = 4
      BY <1>1, <1>3, <1>8, <1>9, <3>2 DEF data
    <3>3. CASE PerCluster = 8
      <4>1. total >= 1024
        BY <1>1, <1>2, <1>3, <3>3
      <4>2. FatSize >= 3 /\ data <= sectors - 9
        <5>1. FatSize >= 3
          BY <1>3, <1>5, <1>6, <4>1
        <5> QED BY <1>1, <1>4, <1>6, <5>1 DEF data
      <4>3. DataClusters = data \div 8
        BY <1>8, <3>3 DEF data
      <4>4. data \div 8 \in Int /\ (data \div 8) * 8 <= data
        BY <1>9
      <4>5. total * 8 >= sectors
        BY <1>3, <3>3
      <4> HIDE DEF data
      <4> QED BY <1>1, <1>3, <1>9, <4>2, <4>3, <4>4, <4>5
    <3> QED BY <1>2, <3>1, <3>2, <3>3
  <2> QED BY <1>3, <1>6, <1>7, <2>1
<1>11. Fat12Limit
  <2> SUFFICES ASSUME max <= 32672 PROVE DataClusters <= 4084
    BY DEF Fat12Limit
  <2>1. CASE PerCluster = 1
    BY <1>1, <1>2, <1>8, <1>9, <2>1
  <2>2. CASE PerCluster = 4
    BY <1>1, <1>2, <1>8, <1>9, <2>2
  <2>3. CASE PerCluster = 8
    BY <1>1, <1>8, <1>9, <2>3
  <2> QED BY <1>2, <2>1, <2>2, <2>3
<1> QED BY <1>10, <1>11

\* The table of a formatted save covers its volume, and FAT12 can number the
\* clusters of every save a title has, whatever size was asked for.
THEOREM DsiWareFatSound == SaveSpec => []FatSound
<1>1. GeometryInv => FatSound
  BY FatIsSound DEF FatSound
<1> QED BY <1>1, GeometryHolds, PTL
==============================================================================
