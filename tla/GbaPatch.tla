------------------------------ MODULE GbaPatch ------------------------------
(***************************************************************************)
(* A GBA ROM is put into NOR flash or PSRAM and patched there              *)
(* (CGbaLoader::LoadNor and LoadPSRAM, CGbaPatcher::PatchInternal,         *)
(* gbasleep.cpp).  The patcher finds the marks of GbaPatcher, writes what  *)
(* its tables say, and, for a game that is in no list, can look for the    *)
(* instructions that install an interrupt handler and turn each into a     *)
(* jump to code appended behind the game, so that a key press there puts   *)
(* the console to sleep.  The writes go through GbaNorWriter, or straight  *)
(* to PSRAM.                                                               *)
(***************************************************************************)
EXTENDS GbaPatcher, GbaNorWriter

CONSTANTS Roms,       \* ROM files: see RomsAssumption
          Literals,   \* address |-> what the literal there is: "intr" (0x03007FFC,
                      \* where the handler is installed), "iwram" or "other"
          Gaps,       \* distances from one instruction of interest to the next; at
                      \* address 0 there is none (a ROM starts with a branch)
          MaxInstrs,  \* bound: such instructions in each of the two searches
          Registers   \* bound: those the instructions use

ASSUME RomsAssumption ==
    \A r \in Roms :
        /\ r.size \in Nat /\ r.last \in Nat /\ r.last < r.size \* the last byte that is no filler
        /\ r.nes \in Nat /\ r.eeprom111 \in 0..6 /\ r.sleep \in Nat  \* places in lists, 0: not there
        /\ r.marks \in Seq([type : MarkTypes, at : Nat, ver : Nat])

\* Literals and ARM instructions are words; a load from elsewhere reads nothing.
ASSUME SearchAssumption ==
    /\ \A lit \in DOMAIN Literals : lit \in Nat /\ lit % 4 = 0
    /\ Gaps \subseteq Nat \ {0} /\ MaxInstrs \in Nat

\* The sizes in gbaloader.cpp.
ASSUME PageAssumption == EPageSize = 262144 /\ EGuardSize = 256

VARIABLES step,     \* what the patcher does
          game,     \* the ROM
          place,    \* where it goes: "psram" or "nor"
          marks,    \* iPatchInfo
          cur,      \* the mark the scan or a save library's patch is at
          todo,     \* writes not made yet
          failed,   \* Error was called
          spilled,  \* history: a write ran past the guard
          at, instrs, regs,      \* scan and search: address, count and registers
          info2, info3, info4,   \* what it has found
          hooks     \* history: the stores it has replaced

patchVars == <<step, game, place, marks, cur, todo, failed, spilled, at, instrs, regs,
          info2, info3, info4, hooks, flash, iBuffer, iCurPage, image>>

SleepSize      == 428   \* gba_sleep_patch.bin
ActivationSize == 36
PatchLength    == 2048
MaxSize == [psram |-> 16 * 1024 * 1024, nor |-> 32 * 1024 * 1024]

\* What a cell holds: its kind, and the number that goes with it.
Val(kind, n) == [kind |-> kind, n |-> n]

\* A write with what it puts there.
Put(at_, len, v) == [at |-> at_, len |-> len, v |-> v]
Patches(writes) ==
    [k \in DOMAIN writes |->
        Put(writes[k].at, writes[k].len, Val("patch", writes[k].at))]

NoRegs == [data |-> [r \in Registers |-> "other"],
           addr |-> [r \in Registers |-> 0], last |-> [r \in Registers |-> 0]]

PatchInit ==
    /\ step = "load" /\ game \in Roms /\ place \in {"psram", "nor"}
    /\ marks = <<>> /\ cur = 1 /\ todo = <<>> /\ failed = FALSE /\ spilled = FALSE
    /\ at = 0 /\ instrs = 0 /\ regs = NoRegs
    /\ info2 = <<>> /\ info3 = <<>> /\ info4 = <<>> /\ hooks = <<>>
    /\ flash = [x \in Cells |-> Val("old", 0)] /\ iBuffer = flash
    /\ iCurPage = NoPage /\ image = flash

searchVars == <<at, instrs, regs, info2, info3, info4, hooks>>

-----------------------------------------------------------------------------
\* LoadNor erases the blocks the ROM needs and programs it in pieces of LEN_NOR;
\* LoadPSRAM writes pieces of LEN.  The rest of the last piece is filled.
LoadedNor ==
    LET up(n, unit) == ((n + unit - 1) \div unit) * unit
        erased == [x \in Cells |-> IF x < up(game.size, EPageSize) THEN Erased ELSE flash[x]]
    IN  [x \in Cells |-> IF x < up(game.size, 32768)
                         THEN (IF erased[x] = Erased
                               THEN Val(IF x < game.size THEN "rom" ELSE "filler", 0) ELSE Mixed)
                         ELSE erased[x]]

LoadedPsram ==
    LET end == ((game.size + 1048575) \div 1048576) * 1048576 IN
    [x \in Cells |-> IF x < end THEN Val(IF x < game.size THEN "rom" ELSE "filler", 0)
                     ELSE flash[x]]

LoadRom ==
    /\ step = "load"
    /\ Open(IF place = "nor" THEN LoadedNor ELSE LoadedPsram)
    /\ step' = "scan"
    /\ UNCHANGED <<game, place, marks, cur, todo, failed, spilled>> /\ UNCHANGED searchVars

Added(list, x, room) == IF Len(list) < room THEN Append(list, x) ELSE list

\* The scan comes to the next mark in the ROM, in ascending order, unless the
\* mark starts in the words the scan has skipped.
ScanMark ==
    LET m == game.marks[cur] IN
    /\ step = "scan" /\ cur <= Len(game.marks)
    /\ IF m.at >= at THEN marks' = Added(marks, m, EMax) /\ at' = AfterMark(m)
       ELSE UNCHANGED <<marks, at>>
    /\ cur' = cur + 1
    /\ UNCHANGED <<step, game, place, todo, failed, spilled, instrs, regs,
                   info2, info3, info4, hooks>>
    /\ UNCHANGED writerVars

ScanDone ==
    /\ step = "scan" /\ cur > Len(game.marks)
    /\ at' = 0 /\ cur' = 1
    /\ step' = "save"
    /\ UNCHANGED <<game, place, marks, todo, failed, spilled, instrs, regs,
                   info2, info3, info4, hooks>>
    /\ UNCHANGED writerVars

\* The next write, to the writer of the place.
WriteNext ==
    LET w == Head(todo) IN
    /\ todo # <<>>
    /\ IF place = "nor" THEN Write(w.at, w.len, w.v)
       ELSE /\ flash' = Patched(flash, w.at, w.len, w.v)
            /\ image' = Patched(image, w.at, w.len, w.v)
            /\ UNCHANGED <<iBuffer, iCurPage>>
    /\ spilled' = (spilled \/ (place = "nor" /\ ~Fits(w.at, w.len)))
    /\ todo' = Tail(todo)
    /\ UNCHANGED <<step, game, place, marks, cur, failed>> /\ UNCHANGED searchVars

\* The save library: what is written whatever the marks are; an error jumps out
\* of the patcher.
Save ==
    LET family == PatchSave(game, marks) IN
    /\ step = "save" /\ todo = <<>>
    /\ todo' = Patches(family.writes)
    /\ failed' = family.error
    /\ step' = IF family.error THEN "abort" ELSE "marks"
    /\ UNCHANGED <<game, place, marks, cur, spilled>>
    /\ UNCHANGED searchVars /\ UNCHANGED writerVars

\* What the library's table says of the next mark; an error comes after the
\* writes of the marks before.
SaveMark ==
    LET family == PatchSave(game, marks)
        done == ApplyMark(family.table, family.ver, marks[cur])
    IN
    /\ step = "marks" /\ todo = <<>> /\ cur <= Len(marks)
    /\ todo' = Patches(done.writes)
    /\ failed' = done.error
    /\ step' = IF done.error THEN "abort" ELSE "marks"
    /\ cur' = cur + 1
    /\ UNCHANGED <<game, place, marks, spilled>>
    /\ UNCHANGED searchVars /\ UNCHANGED writerVars

SaveDone ==
    /\ step = "marks" /\ todo = <<>> /\ cur > Len(marks)
    /\ step' = "dbz"
    /\ UNCHANGED <<game, place, marks, cur, todo, failed, spilled>>
    /\ UNCHANGED searchVars /\ UNCHANGED writerVars

\* The writer is not closed, and the ROM counts as loaded all the same.
Abort ==
    /\ step = "abort" /\ todo = <<>>
    /\ step' = "done"
    /\ UNCHANGED <<game, place, marks, cur, todo, failed, spilled>>
    /\ UNCHANGED searchVars /\ UNCHANGED writerVars

Cracks ==
    /\ step = "dbz" /\ todo = <<>>
    /\ todo' = Patches(PatchDragonBallZ(game))
    /\ step' = "sleep"
    /\ UNCHANGED <<game, place, marks, cur, failed, spilled>>
    /\ UNCHANGED searchVars /\ UNCHANGED writerVars

-----------------------------------------------------------------------------
\* Sleep: by the list, or by a search if the user wants that.

\* The appended code starts behind the last byte that differs from the filler at
\* the end of the file, but at most PATCH_LENGTH + 16 bytes before that end.
\* mutant: right at the limit, whatever the game has there
SetTrimSizeFixed == game.size - 2 - PatchLength - 16

SetTrimSize ==
    LET align(n) == n + (16 - (n % 16))
        top == game.size - 2 - PatchLength - 16
        end == align((IF game.last > top THEN game.last ELSE top) + 4)
    IN  IF top < 0 THEN game.size
        ELSE IF end > align(game.size) THEN align(game.size) ELSE end

PatchSleep ==
    /\ step = "sleep" /\ todo = <<>>
    /\ todo' = Patches(PatchSleepWrites(game, marks))
    /\ \/ step' = "close"
       \/ /\ ~SleepListed(game, marks)
          /\ SetTrimSize + PatchLength <= MaxSize[place]
          /\ step' = "arm"  \* the user wants the search
    /\ UNCHANGED <<game, place, marks, cur, failed, spilled>>
    /\ UNCHANGED searchVars /\ UNCHANGED writerVars

\* The search looks at the first FAKE_SIZE bytes of the game, a word or a
\* halfword at a time.
FakeSize == 512 * 1024

InSearch(a) ==
    LET width == IF step = "arm" THEN 4 ELSE 2 IN
    a % width = 0 /\ a + width <= FakeSize /\ a + width <= SetTrimSize

\* A literal has a value if it is in the ROM; the address of the handler is not
\* one byte four times, as filler is, and not the code of a store.
Readable(lit) ==
    Literals[lit] # "other" =>
        lit + 4 <= game.size /\ (Literals[lit] = "intr" => lit <= game.last)

NoStore(a) == \E lit \in DOMAIN Literals : Literals[lit] = "intr" /\ lit <= a /\ a < lit + 4

\* An instruction that loads a literal into a register, in the ARM search and in
\* the Thumb search.
Ldr(rd, lit, gap) ==
    /\ step \in {"arm", "thumb"} /\ todo = <<>> /\ instrs < MaxInstrs
    /\ InSearch(at + gap) /\ Readable(lit)
    /\ at' = at + gap /\ instrs' = instrs + 1
    /\ regs' = [regs EXCEPT !.data[rd] = Literals[lit], !.addr[rd] = lit, !.last[rd] = at']
    /\ UNCHANGED <<step, game, place, marks, cur, todo, failed, spilled, info2, info3, info4, hooks>>
    /\ UNCHANGED writerVars

\* A store through a register that holds the address of the handler, of a value
\* that can be a handler, both loaded shortly before.
Installs(rd, rn, a) ==
    /\ regs.data[rn] = "intr" /\ regs.data[rd] \in {"intr", "iwram"}
    /\ regs.last[rd] # 0 /\ regs.last[rn] # 0
    /\ a - regs.last[rd] < (IF step = "arm" THEN 64 ELSE 80)
    /\ a - regs.last[rn] < 64

\* One place is known to install the handler whatever is stored.
KnownPlace(rn, a) == step = "arm" /\ a = 224 /\ regs.data[rn] = "intr"

\* The store becomes a jump through its register, the literal the address of a
\* new activation, which does the store and returns behind it.  In Thumb code
\* the register counts as used up then.  A store that installs nothing changes
\* nothing.
Str(rd, rn, gap) ==
    LET a == at + gap
        loc == SetTrimSize + SleepSize + ActivationSize * Len(hooks)
        jump == [at |-> regs.addr[rn], v |-> Val("jump", loc)]
        bx == [at |-> a, v |-> Val("bx", 0)]
        back == IF step = "arm" THEN a + 4 ELSE a + 3  \* odd: to Thumb code
    IN
    /\ step \in {"arm", "thumb"} /\ todo = <<>> /\ instrs < MaxInstrs
    /\ InSearch(a) /\ ~NoStore(a)
    /\ at' = a /\ instrs' = instrs + 1
    /\ Installs(rd, rn, a) \/ KnownPlace(rn, a)
    /\ info2' = IF step = "arm" THEN Added(Added(info2, bx, 2 * EMax), jump, 2 * EMax)
                ELSE Added(info2, jump, 2 * EMax)
    /\ info4' = IF step = "arm" THEN info4 ELSE Added(info4, bx, EMax)
    /\ info3' = Added(info3, [at |-> loc, v |-> Val("activation", back)], EMax)
    /\ hooks' = Append(hooks, [store |-> a, lit |-> regs.addr[rn], arm |-> step = "arm"])
    /\ regs' = IF step = "arm" THEN regs ELSE [regs EXCEPT !.data[rn] = "other"]
    /\ UNCHANGED <<step, game, place, marks, cur, todo, failed, spilled>>
    /\ UNCHANGED writerVars

ArmDone ==
    /\ step = "arm" /\ todo = <<>>
    /\ at' = 0 /\ instrs' = 0 /\ regs' = NoRegs
    /\ step' = "thumb"
    /\ UNCHANGED <<game, place, marks, cur, todo, failed, spilled, info2, info3, info4, hooks>>
    /\ UNCHANGED writerVars

\* CommonSleepPatch
\* mutant: the table of the Thumb stores is not written
CommonSleepPatchWithoutThumb ==
    LET puts(list, len) == [k \in DOMAIN list |-> Put(list[k].at, len, list[k].v)] IN
    /\ step = "thumb" /\ todo = <<>>
    /\ todo' = IF info2 \o info4 = <<>> THEN <<>>
               ELSE puts(info2, 4) \o <<Put(SetTrimSize, SleepSize, Val("sleep", 0))>>
                    \o puts(info3, ActivationSize)
    /\ step' = "close"
    /\ UNCHANGED <<game, place, marks, cur, failed, spilled>>
    /\ UNCHANGED searchVars /\ UNCHANGED writerVars

CommonSleepPatch ==
    LET puts(list, len) == [k \in DOMAIN list |-> Put(list[k].at, len, list[k].v)] IN
    /\ step = "thumb" /\ todo = <<>>
    /\ todo' = IF info2 \o info4 = <<>> THEN <<>>
               ELSE puts(info2, 4) \o puts(info4, 2)
                    \o <<Put(SetTrimSize, SleepSize, Val("sleep", 0))>>
                    \o puts(info3, ActivationSize)
    /\ step' = "close"
    /\ UNCHANGED <<game, place, marks, cur, failed, spilled>>
    /\ UNCHANGED searchVars /\ UNCHANGED writerVars

CloseWriter ==
    /\ step = "close" /\ todo = <<>>
    /\ IF place = "nor" THEN Close ELSE UNCHANGED writerVars
    /\ step' = "done"
    /\ UNCHANGED <<game, place, marks, cur, todo, failed, spilled>> /\ UNCHANGED searchVars

PatchNext ==
    \/ LoadRom \/ ScanMark \/ ScanDone \/ WriteNext
    \/ Save \/ SaveMark \/ SaveDone \/ Abort \/ Cracks \/ PatchSleep
    \/ \E rd \in Registers, gap \in Gaps :
          \/ \E lit \in DOMAIN Literals : Ldr(rd, lit, gap)
          \/ \E rn \in Registers : Str(rd, rn, gap)
    \/ ArmDone \/ CommonSleepPatch \/ CloseWriter

PatchSpec == PatchInit /\ [][PatchNext]_patchVars

-----------------------------------------------------------------------------
\* Properties

Finished == step = "done" /\ ~failed /\ ~spilled
Behind(x) == place = "nor" /\ iCurPage # NoPage /\ InGuard(iCurPage, x)

\* When the patcher has closed its writer, every write it made is in the flash,
\* whatever pages they jump between, but for what lies behind the last page.
PatchesArrive == Finished => \A x \in Cells : flash[x] = image[x] \/ Behind(x)

\* Every store that was turned into a jump lands, through its literal, in an
\* activation that was written, and the last one of a literal comes back behind
\* itself - as long as the tables had room.
JumpsLand ==
    (Finished /\ Len(hooks) <= EMax) =>
        \A k \in DOMAIN hooks :
            LET h == hooks[k]
                jump == image[h.lit]
                last == \A j \in DOMAIN hooks : hooks[j].lit = h.lit => j <= k
            IN  /\ h.store \in Cells => image[h.store].kind = "bx"
                /\ h.lit \in Cells =>
                      /\ jump.kind = "jump"
                      /\ jump.n \in Cells =>
                            /\ image[jump.n].kind = "activation"
                            /\ last => image[jump.n].n = h.store + (IF h.arm THEN 4 ELSE 3)

\* What is appended overwrites nothing but filler, and stays within the room
\* that was asked for; only the sleep routine can run past the guard.
AppendedBehindData ==
    /\ \A k \in DOMAIN todo :
          todo[k].v.kind \in {"sleep", "activation"} =>
              /\ todo[k].at > game.last
              /\ todo[k].at + todo[k].len <= MaxSize[place]
    /\ \A k \in DOMAIN todo : todo[k].v.kind # "sleep" => Fits(todo[k].at, todo[k].len)
=============================================================================
