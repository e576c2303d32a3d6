---------------------------- MODULE GbaNorWriter ----------------------------
(***************************************************************************)
(* CGbaWriterNor (gbaloader.cpp:50-134): patches of a few bytes in NOR     *)
(* flash, which can only be erased a page at a time.  The page last        *)
(* written to is kept in a buffer, with a few bytes of the page behind it  *)
(* (the guard) for a patch that crosses the end of the page; the buffer is *)
(* committed when another page is written to and on Close.                 *)
(***************************************************************************)
EXTENDS Integers

CONSTANTS Cells,   \* the addresses that are looked at
          Values,  \* what a cell can hold
          Erased,  \* a cell after its block was erased: every bit set
          Mixed,   \* a cell programmed over contents that were not erased
          EPageSize, EGuardSize

ASSUME WriterAssumption ==
    /\ Cells \subseteq Nat
    /\ Erased \in Values /\ Mixed \in Values
    /\ EPageSize \in Nat \ {0}
    /\ EGuardSize \in Nat /\ EGuardSize <= EPageSize

VARIABLES flash,     \* contents of the flash
          iBuffer,   \* the buffer: a copy of the flash around the current page
          iCurPage,  \* its address, or NoPage
          image      \* history: the flash if every write went there at once

writerVars == <<flash, iBuffer, iCurPage, image>>

NoPage == -1  \* 0x666 in the code, which is the address of no page

WriterTypeOK ==
    /\ flash \in [Cells -> Values]
    /\ iBuffer \in [Cells -> Values]
    /\ iCurPage \in Nat \cup {NoPage}
    /\ image \in [Cells -> Values]

PageOf(a) == a - (a % EPageSize)
InPage(p, x)  == p <= x /\ x < p + EPageSize
InGuard(p, x) == p + EPageSize <= x /\ x < p + EPageSize + EGuardSize
InBuffer(p, x) == InPage(p, x) \/ InGuard(p, x)

-----------------------------------------------------------------------------
\* Block_Erase; programming (WriteNorFlash) can only clear bits.
Erase(f, p) == [x \in Cells |-> IF InPage(p, x) THEN Erased ELSE f[x]]

Program(f, b, p) ==
    [x \in Cells |-> IF ~InPage(p, x) THEN f[x]
                     ELSE IF f[x] = Erased THEN b[x]
                     ELSE IF f[x] = b[x] THEN f[x] ELSE Mixed]

Commit(f, b, p) == Program(Erase(f, p), b, p)

\* The guard bytes of page p, on top of f.
WithGuard(f, b, p) == [x \in Cells |-> IF InGuard(p, x) THEN b[x] ELSE f[x]]

\* mutant: the guard is dropped with the page
GuardDiffersIgnored(f, b, p) == FALSE

GuardDiffers(f, b, p) == \E x \in Cells : InGuard(p, x) /\ b[x] # f[x]

\* Flash and buffer after Write has turned from the current page to page p.  A
\* guard that differs from the flash goes along if p is the page it belongs to;
\* otherwise that page is written on the way.
TurnTo(p) ==
    LET f == Commit(flash, iBuffer, iCurPage) IN
    CASE iCurPage = NoPage -> [flash |-> flash, buffer |-> flash]
      [] iCurPage = p -> [flash |-> flash, buffer |-> iBuffer]
      [] iCurPage # NoPage /\ iCurPage # p /\ ~GuardDiffers(f, iBuffer, iCurPage) ->
            [flash |-> f, buffer |-> f]
      [] iCurPage # NoPage /\ iCurPage # p /\ GuardDiffers(f, iBuffer, iCurPage) ->
            IF p = iCurPage + EPageSize
            THEN [flash |-> f, buffer |-> WithGuard(f, iBuffer, iCurPage)]
            ELSE LET g == Commit(f, WithGuard(f, iBuffer, iCurPage), iCurPage + EPageSize)
                 IN  [flash |-> g, buffer |-> g]

\* n bytes from address a on become v.
Patched(m, a, n, v) == [x \in Cells |-> IF a <= x /\ x < a + n THEN v ELSE m[x]]

\* Whether a write ends within the guard.  Nothing in Write looks: what is past
\* the guard is not in the buffer (it hits whatever is behind it in memory).
Fits(a, n) == a + n <= PageOf(a) + EPageSize + EGuardSize

Write(a, n, v) ==
    /\ LET turned == TurnTo(PageOf(a)) IN
       /\ flash' = turned.flash
       /\ iBuffer' = Patched(turned.buffer, a, n, v)
    /\ iCurPage' = PageOf(a)
    /\ image' = Patched(image, a, n, v)

\* Close commits the page, and forgets the guard.
Close ==
    /\ flash' = IF iCurPage = NoPage THEN flash ELSE Commit(flash, iBuffer, iCurPage)
    /\ UNCHANGED <<iBuffer, iCurPage, image>>

Open(f) ==
    /\ flash' = f /\ iBuffer' = f /\ iCurPage' = NoPage /\ image' = f

\* The writer on its own, with any writes that fit.
WriterInit ==
    /\ flash \in [Cells -> Values] /\ iBuffer = flash
    /\ iCurPage = NoPage /\ image = flash

WriterNext ==
    \/ \E a, n \in Nat, v \in Values : Fits(a, n) /\ Write(a, n, v)
    \/ Close

WriterSpec == WriterInit /\ [][WriterNext]_writerVars

-----------------------------------------------------------------------------
\* What the buffer hides: everywhere else the flash is up to date, so that no
\* page is left behind when the writer turns to another one.
Overlay ==
    \A x \in Cells :
        image[x] = IF iCurPage # NoPage /\ InBuffer(iCurPage, x) THEN iBuffer[x] ELSE flash[x]

\* A byte differs from what was written only behind the end of the last page.
WrittenThrough ==
    \A x \in Cells :
        flash[x] # image[x] => iCurPage # NoPage /\ InGuard(iCurPage, x)
=============================================================================
