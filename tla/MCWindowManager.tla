--------------------------- MODULE MCWindowManager ---------------------------
\* Two windows above the main one: the settings, or a dialog, and the question
\* or the second window that its keys and buttons open.
EXTENDS WindowManager
-----------------------------------------------------------------------------
(* What Signals says of itself: every history of six operations on two       *)
(* signals and two holders, and calls whose slots connect and destroy.       *)
Net == INSTANCE Signals

Slot == [void |-> TRUE, name |-> "clicked"]

ASSUME ConnectionsKept == Net!NetKept({"s", "t"}, {"g", "h"}, {Slot}, 6)

(* The one way to break it: disconnect of a holder connected twice, which    *)
(* the menu never calls.                                                     *)
ASSUME OnlyDisconnectBreaks ==
    \E n \in Net!Reached({"s"}, {"h"}, {Slot}, 6, TRUE) : ~Net!NoneDangles(n)

TwoHolders == Net!newHolder(Net!newHolder(Net!Nothing, "g"), "h")
TwoSignals == Net!newSignal(Net!newSignal(TwoHolders, "s"), "t")
Connected ==
    Net!connect(Net!connect(Net!connect(TwoSignals, "s", "g", Slot), "s", "h", Slot), "s", "g", Slot)

ASSUME SlotsCalled ==
    /\ Net!CallsEach(Connected, "s", 6, LAMBDA n, c : n)
    /\ Net!CallsEach(Connected, "s", 6, LAMBDA n, c : Net!connect(n, "t", c.target, Slot))
    /\ Net!CallsEach(Connected, "s", 6, LAMBDA n, c :
                       IF "t" \in Net!AliveSignals(n) THEN Net!deleteSignal(n, "t") ELSE n)
    /\ Net!CallsEach(Connected, "s", 6, LAMBDA n, c :
                       IF c.id = 1 THEN Net!connect(n, "s", "h", Slot) ELSE n)

(* A slot may destroy its own holder, but not the next one.                  *)
ASSUME NextMustLive ==
    /\ Net!Emit(Connected, "s", 6, LAMBDA n, c :
                  IF c.id = 1 THEN Net!deleteHolder(n, "h") ELSE n).lost
    /\ ~Net!Emit(Connected, "s", 6, LAMBDA n, c :
                  IF c.id = 1 THEN Net!deleteHolder(n, "g") ELSE n).lost
=============================================================================
