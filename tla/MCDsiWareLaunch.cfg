CONSTANTS
    pub = pub
    prv = prv
    slot0 = slot0
    slot1 = slot1
    rom = rom
    absent = absent
    empty = empty
    short = short
    blank = blank
    Absent = absent
    Empty = empty
    Short = short
    Blank = blank
    Kinds = {pub, prv}
    Elsewhere = {slot0, slot1}
    Beside = rom
    MaxSessions = 2

SPECIFICATION Spec
INVARIANT SavesThere
INVARIANT NewestUsed
PROPERTY PlayedKept
