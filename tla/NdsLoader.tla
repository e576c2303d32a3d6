----------------------------- MODULE NdsLoader -----------------------------
(* Starting another program (launcher/nds_loader_arm9.c): the boot loader    *)
(* is put into a bank of video memory with its parameters and arguments, the *)
(* card's driver (DLDI) is patched into it, and ARM7 is sent there.          *)
(*                                                                           *)
(* Memory is words, a function from 0 .. n-1; an address in it is a byte     *)
(* offset. A driver is [kind, size, allocated, fix, words]: size and         *)
(* allocated are powers of two of bytes, words its image, whose first 32 are *)
(* the header with the sections' bounds as addresses of the driver's own.    *)
EXTENDS Integers, Sequences, FiniteSets, FiniteSetsExt, SequencesExt

(* The words of the header (DldiOffsets).                                    *)
TextStart == 16
DataEnd == 17
GlueStart == 18
GlueEnd == 19
GotStart == 20
GotEnd == 21
BssStart == 22
BssEnd == 23
Startup == 26
Code == 128
HeaderPointers == (16 .. 23) \cup (26 .. 31)

(* Halfwords are copied while bytes are left: an odd last byte takes the     *)
(* next one with it.                                                         *)
vramcpyBytes(len) == len + (len % 2)

(* The first word at which the text is found whole; a word like the text's   *)
(* first one with too little behind it ends the search.                      *)
quickFind(data, search) ==
    LET Fits(i) == i + Len(search) <= Len(data)
        Matches(i) == Fits(i) /\ \A k \in 1 .. Len(search) : data[i + k] = search[k]
        found == {i \in 0 .. (Len(data) - 1) : Matches(i)}
    IN IF found = {} THEN -1 ELSE 4 * Min(found)
-----------------------------------------------------------------------------
(* The driver's pointers.                                                    *)

InDriver(d, v) == d.words[TextStart] <= v /\ v < d.words[TextStart] + 2 ^ d.size
Moved(d, by, v) == IF InDriver(d, v) THEN v + by ELSE v
MovedTimes(d, by, v, n) ==
    LET f[k \in 0 .. n] == IF k = 0 THEN v ELSE Moved(d, by, f[k - 1]) IN f[n]

(* A section is gone through byte by byte, and each time the word the byte   *)
(* lies in is looked at: four times for one that lies in it whole.           *)
Visits(d, from, to, w) ==
    Cardinality({i \in (4 * w) .. (4 * w + 3) : /\ from - d.words[TextStart] <= i
                                                 /\ i < to - d.words[TextStart]})
FixSection(mem, d, by, from, to) ==
    [w \in DOMAIN mem |-> MovedTimes(d, by, mem[w], Visits(d, d.words[from], d.words[to], w))]

FixSections(mem, d, by) ==
    LET all == IF "all" \in d.fix THEN FixSection(mem, d, by, TextStart, DataEnd) ELSE mem
        glue == IF "glue" \in d.fix THEN FixSection(all, d, by, GlueStart, GlueEnd) ELSE all
    IN IF "got" \in d.fix THEN FixSection(glue, d, by, GotStart, GotEnd) ELSE glue

ClearBss(mem, d) ==
    [w \in DOMAIN mem |-> IF /\ d.words[BssStart] - d.words[TextStart] <= 4 * w
                             /\ 4 * w < d.words[BssEnd] - d.words[TextStart]
                          THEN 0 ELSE mem[w]]

(* The loader's own room for a driver: where it is (-1: it has none), how    *)
(* large it is, and the addresses its header gives.                          *)
SpaceStart(s) == IF s.words[TextStart] # 0 THEN s.words[TextStart] ELSE s.words[Startup] - Code

(* The room with the driver in it, or FALSE; the driver in memory is told    *)
(* how large the room is.                                                    *)
dldiPatchLoader(s, d, clearBSS) ==
    LET by == SpaceStart(s) - d.words[TextStart]
        copied == [w \in DOMAIN s.words |-> IF 4 * w < 2 ^ d.size THEN d.words[w] ELSE s.words[w]]
        header == [w \in DOMAIN copied |-> IF w \in HeaderPointers THEN copied[w] + by ELSE copied[w]]
        fixed == FixSections(header, d, by)
    IN IF s.at < 0 \/ d.kind = "none" \/ d.size > s.allocated
       THEN [ok |-> FALSE, space |-> s, driver |-> d]
       ELSE [ok |-> TRUE,
             space |-> [s EXCEPT !.words = IF clearBSS /\ "bss" \in d.fix THEN ClearBss(fixed, d) ELSE fixed],
             driver |-> [d EXCEPT !.allocated = s.allocated]]
-----------------------------------------------------------------------------
(* The arguments, each a sequence of characters other than 0, go into video  *)
(* memory as halfwords.                                                      *)

NoArgs == [data |-> <<>>, low |-> 0, size |-> 0]

PutChar(p, c) ==
    IF (p.size % 2) = 1
    THEN [p EXCEPT !.data = Append(@, <<p.low, c>>), !.low = 0, !.size = @ + 1]
    ELSE [p EXCEPT !.low = c, !.size = @ + 1]

EndArg(p) ==
    [data |-> IF (p.size % 2) = 1 THEN Append(p.data, <<p.low, 0>>) ELSE p.data,
     low |-> 0, size |-> p.size + 1]

PutArg(p, arg) == EndArg(FoldLeft(PutChar, p, arg))

PackArgs(argv) ==
    LET p == FoldLeft(PutArg, NoArgs, argv)
    IN [bytes |-> FlattenSeq(p.data) \o <<p.low, 0>>, size |-> p.size]
-----------------------------------------------------------------------------
(* The parameters of the loader in its bank and the hand-over. `sys` is      *)
(* [irq, bankC, wiped, arm7], a console and the loader's file are given.     *)

OnSd(argv) == argv # <<>> /\ Len(argv[1]) >= 2 /\ argv[1][1] = "s" /\ argv[1][2] = "d"

runNds(sys, dsi, loader, driver, cluster, initDisc, wantDldi, argv, argc) ==
    LET want == wantDldi /\ ~OnSd(argv)
        patched == dldiPatchLoader(loader.space, driver, initDisc)
        args == PackArgs(SubSeq(argv, 1, argc))
        start == 4 * ((loader.argStart + 3) \div 4)
        params == [loaded |-> vramcpyBytes(loader.size), cluster |-> cluster, initDisc |-> initDisc, dsiMode |-> dsi,
                   dsiSd |-> IF OnSd(argv) THEN TRUE ELSE loader.dsiSd, wantDldi |-> want,
                   argStart |-> start, argSize |-> args.size, args |-> args.bytes,
                   space |-> IF want THEN patched.space ELSE loader.space]
        prepared == [sys EXCEPT !.irq = FALSE, !.bankC = "cpu", !.wiped = ~dsi, !.arm7 = @]
    IN IF want /\ ~patched.ok
       THEN [code |-> "PATCH_DLDI_FAILED", sys |-> prepared, params |-> params]
       ELSE [code |-> "OK", params |-> params,
             sys |-> [prepared EXCEPT !.bankC = "arm7", !.arm7 = "loader"]]

(* The program that brings the menu back, above the heap: its own copy of    *)
(* the loader, patched for the card or told to use the console's SD.         *)
installBootStub(heap, dsi, loader, driver, onSd) ==
    LET patched == dldiPatchLoader(loader.space, driver, FALSE)
    IN [ok |-> onSd \/ patched.ok,
        driver |-> IF onSd THEN driver ELSE patched.driver,
        stub |-> [base |-> heap, dsiMode |-> dsi, wantDldi |-> IF onSd THEN FALSE ELSE loader.wantDldi,
                  dsiSd |-> IF onSd THEN TRUE ELSE loader.dsiSd,
                  space |-> IF onSd THEN loader.space ELSE patched.space,
                  arm9reboot |-> loader.arm9reboot + heap, arm7reboot |-> loader.arm7reboot + heap]]

(* A file that is there is run; without arguments its name behind the        *)
(* current directory is what is looked at, and no argument is handed on.     *)
runNdsFile(sys, dsi, loader, driver, file, cwd, heap, argv) ==
    LET given == IF argv = <<>> THEN <<cwd \o file.name>> ELSE argv
        stub == installBootStub(heap, dsi, loader, driver, OnSd(given))
    IN CASE ~file.there -> [code |-> "STAT_FAILED", sys |-> sys, params |-> <<>>]
         [] file.there /\ argv = <<>> /\ cwd = <<>> ->
               [code |-> "GETCWD_FAILED", sys |-> sys, params |-> <<>>]
         [] OTHER -> runNds(sys, dsi, loader, stub.driver, file.cluster, TRUE, TRUE, given, Len(argv))
-----------------------------------------------------------------------------
(* What may be relied on.                                                    *)

Apart(s, d) ==
    \/ SpaceStart(s) + 2 ^ d.size <= d.words[TextStart]
    \/ d.words[TextStart] + 2 ^ d.size <= SpaceStart(s)

Fixed(d, w) ==
    LET In(from, to) == Visits(d, d.words[from], d.words[to], w) > 0
    IN \/ "all" \in d.fix /\ In(TextStart, DataEnd)
       \/ "glue" \in d.fix /\ In(GlueStart, GlueEnd)
       \/ "got" \in d.fix /\ In(GotStart, GotEnd)

(* A pointer of the driver is moved once, however often and by however many  *)
(* of the sections its word is visited, when the driver's addresses and      *)
(* those of the room do not meet; other words stay as the driver has them.   *)
MovedOnce(s, d) ==
    LET p == dldiPatchLoader(s, d, FALSE)
        by == SpaceStart(s) - d.words[TextStart]
    IN p.ok /\ Apart(s, d) =>
         \A w \in DOMAIN p.space.words :
            p.space.words[w] =
              CASE 4 * w >= 2 ^ d.size -> s.words[w]
                [] 4 * w < 2 ^ d.size /\ w \in HeaderPointers -> d.words[w] + by
                [] OTHER -> IF Fixed(d, w) THEN Moved(d, by, d.words[w]) ELSE d.words[w]

(* A driver that is patched in can be patched in again: the second time, for *)
(* the program handed to, it is found as large as it was.                    *)
PatchesAgain(s, d) ==
    LET p == dldiPatchLoader(s, d, FALSE)
    IN p.ok => /\ dldiPatchLoader(s, p.driver, FALSE).ok
               /\ dldiPatchLoader(s, p.driver, FALSE).space = p.space

(* The bytes handed over are the arguments, each with its 0, and the size is *)
(* theirs.                                                                   *)
PacksExactly(argv) ==
    LET plain == FlattenSeq([k \in DOMAIN argv |-> Append(argv[k], 0)])
        p == PackArgs(argv)
    IN p.size = Len(plain) /\ SubSeq(p.bytes, 1, p.size) = plain

(* ARM7 is sent into the bank only when it owns it, the interrupts are off   *)
(* and, on a card, the driver has been patched in.                           *)
HandsOverPatched(r, driver, argv) ==
    /\ r.sys.arm7 = "loader" => r.sys.bankC = "arm7" /\ ~r.sys.irq
    /\ r.code = "OK" /\ ~OnSd(argv) => r.params.wantDldi /\ driver.kind # "none"
    /\ r.code = "OK" => r.params.argStart % 4 = 0
=============================================================================
