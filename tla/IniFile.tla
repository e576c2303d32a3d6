------------------------------- MODULE IniFile -------------------------------
(***************************************************************************)
(* CIniFile (inifile.cpp): an INI file in memory is the list of its lines, *)
(* and every get and set walks that list again.  A line is a record: a     *)
(* header, an item with its value, a broken header ('[' without ']', which *)
(* ends a section and starts none), a comment, or any other text.  A value *)
(* is a number or a word: what strtol makes of it is all the menu asks of  *)
(* its spelling.  Names with '=' in them are left out: the menu has none.  *)
(***************************************************************************)
EXTENDS Integers, Sequences

Number(n) == [k |-> "number", n |-> n]
Word(w) == [k |-> "word", w |-> w]
Absent == [k |-> "absent"]

Header(s) == [kind |-> "header", name |-> s]
Item(i, v) == [kind |-> "item", name |-> i, value |-> v]
Text == [kind |-> "text"]
Broken == [kind |-> "broken"]
Comment == [kind |-> "comment"]

(* The least of a set of line numbers, or "none" when there is none. *)
FirstOf(S, none) == IF S = {} THEN none ELSE CHOOSE x \in S : \A y \in S : x <= y

IsHeader(l, s) == l.kind = "header" /\ l.name = s
IsItem(l, i) == l.kind = "item" /\ l.name = i
EndsSection(l) == l.kind = "header" \/ l.kind = "broken"

(* Where a section starts (0: nowhere), where it ends, where its item is.  *)
HeaderAt(f, s) == FirstOf({n \in 1 .. Len(f) : IsHeader(f[n], s)}, 0)
EndAt(f, h) == FirstOf({n \in 1 .. Len(f) : h < n /\ EndsSection(f[n])}, Len(f) + 1)
ItemAt(f, h, i) ==
    LET end == EndAt(f, h) IN FirstOf({n \in 1 .. Len(f) : h < n /\ n < end /\ IsItem(f[n], i)}, 0)

GetFileString(f, s, i) ==
    LET h == HeaderAt(f, s)
        at == IF h = 0 THEN 0 ELSE ItemAt(f, h, i)
    IN  IF at = 0 THEN Absent ELSE f[at].value

InsertLine(f, n, l) ==
    [m \in 1 .. Len(f) + 1 |-> IF m < n THEN f[m] ELSE IF m = n THEN l ELSE f[m - 1]]
ReplaceLine(f, n, l) == [f EXCEPT ![n] = l]

SetFileString(f, s, i, v) ==
    LET h == HeaderAt(f, s)
        at == ItemAt(f, h, i)
    IN  IF h = 0 THEN InsertLine(InsertLine(f, Len(f) + 1, Header(s)), Len(f) + 2, Item(i, v))
        ELSE IF at # 0 THEN ReplaceLine(f, at, Item(i, v))
        ELSE InsertLine(f, EndAt(f, h), Item(i, v))

(* SetString and SetInt leave a file that has the value as it is; an item  *)
(* that is not there reads as the empty word, and is not added for it.     *)
Put(f, s, i, v) ==
    LET old == GetFileString(f, s, i) IN
    IF old = v \/ (old = Absent /\ v = Word("")) THEN f ELSE SetFileString(f, s, i, v)

AsNumber(v) == IF v.k = "number" THEN v.n ELSE 0
GetInt(f, s, i, default) ==
    IF GetFileString(f, s, i) = Absent THEN default ELSE AsNumber(GetFileString(f, s, i))
GetString(f, s, i, default) ==
    IF GetFileString(f, s, i) = Absent THEN Word(default) ELSE GetFileString(f, s, i)

HasSection(f, s) == HeaderAt(f, s) # 0

(* The language files are read-only and remember where their sections      *)
(* start: the first header met of every name on the way to the one wanted. *)
CacheAfter(f, cache, s) ==
    LET from == IF s \in DOMAIN cache THEN cache[s] ELSE 1
        to == FirstOf({n \in from .. Len(f) : IsHeader(f[n], s)}, Len(f))
        met == {f[n].name : n \in {m \in from .. to : f[m].kind = "header"}}
    IN  [t \in DOMAIN cache \cup met |->
            IF t \in DOMAIN cache THEN cache[t]
            ELSE FirstOf({n \in from .. to : IsHeader(f[n], t)}, 0)]
GetCached(f, cache, s, i) ==
    LET from == IF s \in DOMAIN cache THEN cache[s] ELSE 1
        h == FirstOf({n \in from .. Len(f) : IsHeader(f[n], s)}, 0)
        at == IF h = 0 THEN 0 ELSE ItemAt(f, h, i)
    IN  IF at = 0 THEN Absent ELSE f[at].value

(* LoadIniFile forgets comments; what is saved next has lost them.         *)
LoadedUpTo(raw) ==
    LET upTo[n \in 0 .. Len(raw)] ==
            IF n = 0 THEN <<>>
            ELSE IF raw[n].kind = "comment" THEN upTo[n - 1] ELSE Append(upTo[n - 1], raw[n])
    IN  upTo
LoadIniFile(raw) == LoadedUpTo(raw)[Len(raw)]

(* SaveIniFile rewrites the file in place.  Off before it is closed, any   *)
(* number of lines is there, and the last may have lost its value (torn    *)
(* before the '=' it is text, which nobody reads).                         *)
CutFiles(f) ==
    {SubSeq(f, 1, n) : n \in 0 .. Len(f)}
    \cup {SubSeq(f, 1, n - 1) \o <<Item(f[n].name, Word(""))>> :
             n \in {m \in 1 .. Len(f) : f[m].kind = "item"}}

(* An item of several strings joined with a delimiter: empty ones are not  *)
(* read back, and reading never fails.                                     *)
StringVector(v) == SelectSeq(v, LAMBDA x : x # "")
=============================================================================
