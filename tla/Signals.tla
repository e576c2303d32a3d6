------------------------------ MODULE Signals ------------------------------
(* Signals and slots (ui/sigslot.h): a signal keeps a list of connections to *)
(* holders of slots, a holder the set of the signals that may call it. Both  *)
(* die in any order, and a slot may connect and destroy while it is called.  *)
(*                                                                           *)
(* A connection is [id, target, fn]; the state n has the lists of the living *)
(* signals (`lists`), the senders of the living holders (`senders`) and the  *)
(* next id. Signals without and with a parameter differ in the parameter.    *)
EXTENDS Integers, Sequences, FiniteSets, SequencesExt

Nothing == [lists |-> <<>>, senders |-> <<>>, next |-> 1]

AliveSignals(n) == DOMAIN n.lists
AliveHolders(n) == DOMAIN n.senders
Without(f, x) == [y \in DOMAIN f \ {x} |-> f[y]]
With(f, x, v) == [y \in DOMAIN f \cup {x} |-> IF y = x THEN v ELSE f[y]]
Targets(n, s) == {n.lists[s][k].target : k \in DOMAIN n.lists[s]}

newSignal(n, s) == [n EXCEPT !.lists = With(@, s, <<>>)]
newHolder(n, h) == [n EXCEPT !.senders = With(@, h, {})]

connect(n, s, h, fn) ==
    [n EXCEPT !.lists[s] = Append(@, [id |-> n.next, target |-> h, fn |-> fn]),
              !.senders[h] = @ \cup {s}, !.next = @ + 1]

(* Only the first connection to the holder goes, and the signal is struck    *)
(* from the holder's senders all the same.                                   *)
disconnect(n, s, h) ==
    LET mine == {k \in DOMAIN n.lists[s] : n.lists[s][k].target = h}
        first == CHOOSE k \in mine : \A j \in mine : k <= j
    IN IF mine = {} THEN n
       ELSE [n EXCEPT !.lists[s] = RemoveAt(@, first), !.senders[h] = @ \ {s}]

(* All connections to the holder go.                                         *)
disconnectSlot(n, s, h) ==
    [n EXCEPT !.lists[s] = SelectSeq(@, LAMBDA c : c.target # h)]

(* A holder that dies has every signal that may call it forget it.           *)
disconnectHolder(n, h) ==
    [n EXCEPT !.lists = [s \in DOMAIN n.lists |->
                           IF s \in n.senders[h] THEN disconnectSlot(n, s, h).lists[s] ELSE n.lists[s]],
              !.senders[h] = {}]
deleteHolder(n, h) == LET m == disconnectHolder(n, h) IN [m EXCEPT !.senders = Without(@, h)]

(* A signal that dies strikes itself from every holder it would call.        *)
disconnectSignal(n, s) ==
    [n EXCEPT !.lists[s] = <<>>,
              !.senders = [h \in DOMAIN n.senders |->
                             IF h \in Targets(n, s) THEN n.senders[h] \ {s} ELSE n.senders[h]]]
deleteSignal(n, s) == LET m == disconnectSignal(n, s) IN [m EXCEPT !.lists = Without(@, s)]

(* A copied signal has copies of the connections.                            *)
copySignal(n, s, t) ==
    [n EXCEPT !.lists = With(@, t, [k \in DOMAIN n.lists[s] |->
                                      [n.lists[s][k] EXCEPT !.id = n.next + k]]),
              !.senders = [h \in DOMAIN n.senders |->
                             IF h \in Targets(n, s) THEN n.senders[h] \cup {t} ELSE n.senders[h]],
              !.next = @ + Len(n.lists[s]) + 1]

(* A copied holder is appended to every list the old one is in, once for     *)
(* each of its connections. Of a connection to a function without a result   *)
(* the copy has no function: only the other kind is copied.                  *)
CopiedFn(fn) == IF fn.void THEN [fn EXCEPT !.name = "none"] ELSE fn
duplicateSlot(n, s, old, new) ==
    LET mine == SelectSeq(n.lists[s], LAMBDA c : c.target = old)
    IN [n EXCEPT !.lists[s] = @ \o [k \in DOMAIN mine |->
                                     [id |-> n.next + k, target |-> new, fn |-> CopiedFn(mine[k].fn)]],
                 !.next = @ + Len(mine) + 1]
copyHolder(n, old, new) ==
    LET m == [n EXCEPT !.senders = With(@, new, n.senders[old])]
    IN FoldLeft(LAMBDA st, s : duplicateSlot(st, s, old, new), m, SetToSeq(n.senders[old]))
-----------------------------------------------------------------------------
(* A call: the connections from the first on; the next one is found before   *)
(* the slot is called, and the list's end is that of the moment. Effect(n,c) *)
(* is what the slot of c does. The result has the slots called, in order,    *)
(* and whether the next connection was one that is gone.                     *)

PositionOf(list, id) == {k \in DOMAIN list : list[k].id = id}
NextId(list, id) ==
    LET here == PositionOf(list, id)
        k == CHOOSE k \in here : TRUE
    IN IF here # {} /\ k < Len(list) THEN list[k + 1].id ELSE 0

EmitStep(e, s, Effect(_, _)) ==
    LET list == e.n.lists[s]
        at == CHOOSE k \in PositionOf(list, e.it) : TRUE
    IN CASE e.it = 0 \/ e.lost -> e
         [] e.it # 0 /\ ~e.lost /\ (s \notin AliveSignals(e.n) \/ PositionOf(list, e.it) = {}) ->
              [e EXCEPT !.lost = TRUE]
         [] OTHER -> [n |-> Effect(e.n, list[at]), it |-> NextId(list, e.it), lost |-> FALSE,
                      called |-> Append(e.called, list[at].id)]

Emit(n, s, most, Effect(_, _)) ==
    LET start == [n |-> n, it |-> IF n.lists[s] = <<>> THEN 0 ELSE n.lists[s][1].id,
                  lost |-> FALSE, called |-> <<>>]
        f[k \in 0 .. most] == IF k = 0 THEN start ELSE EmitStep(f[k - 1], s, Effect)
    IN f[most]
-----------------------------------------------------------------------------
(* What may be relied on.                                                    *)

(* No list has a connection to a holder that is gone, and no holder a signal *)
(* that is gone: both are called without being asked.                        *)
NoneDangles(n) ==
    /\ \A s \in AliveSignals(n) : Targets(n, s) \subseteq AliveHolders(n)
    /\ \A h \in AliveHolders(n) : n.senders[h] \subseteq AliveSignals(n)

(* A holder knows the signals that call it, which is what keeps the lists    *)
(* whole when it dies.                                                       *)
BothKnow(n) ==
    \A h \in AliveHolders(n) : {s \in AliveSignals(n) : h \in Targets(n, s)} \subseteq n.senders[h]

(* Every state reached in `depth` operations from n; S and H are the signals *)
(* and holders there may be.                                                 *)
Operations(n, S, H, fns, withDisconnect) ==
    LET s1 == AliveSignals(n)  h1 == AliveHolders(n)
    IN {newSignal(n, s) : s \in S \ s1} \cup {newHolder(n, h) : h \in H \ h1}
         \cup {connect(n, s, h, fn) : s \in s1, h \in h1, fn \in fns}
         \cup {deleteSignal(n, s) : s \in s1} \cup {deleteHolder(n, h) : h \in h1}
         \cup {disconnectSignal(n, s) : s \in s1} \cup {disconnectHolder(n, h) : h \in h1}
         \cup {copySignal(n, s, t) : s \in s1, t \in S \ s1}
         \cup {copyHolder(n, g, h) : g \in h1, h \in H \ h1}
         \cup (IF withDisconnect THEN {disconnect(n, s, h) : s \in s1, h \in h1} ELSE {})
WithoutIds(n) ==
    [n EXCEPT !.next = 1, !.lists = [s \in DOMAIN @ |-> [k \in DOMAIN @[s] |-> [@[s][k] EXCEPT !.id = k]]]]
Reached(S, H, fns, depth, withDisconnect) ==
    LET r[k \in 0 .. depth] ==
          IF k = 0 THEN {Nothing}
          ELSE r[k - 1] \cup {WithoutIds(m) : m \in UNION {Operations(n, S, H, fns, withDisconnect) : n \in r[k - 1]}}
    IN r[depth]

NetKept(S, H, fns, depth) ==
    \A n \in Reached(S, H, fns, depth, FALSE) : NoneDangles(n) /\ BothKnow(n)

(* When the slots leave the connections of the signal that calls them, each  *)
(* is called once and in order, with those added meanwhile but by the last;  *)
(* no call goes to one that is gone.                                         *)
CallsEach(n, s, most, Effect(_, _)) ==
    LET e == Emit(n, s, most, Effect)
        Ids(list) == [k \in DOMAIN list |-> list[k].id]
    IN ~e.lost /\ IsPrefix(Ids(n.lists[s]), e.called) /\ IsPrefix(e.called, Ids(e.n.lists[s]))
=============================================================================
