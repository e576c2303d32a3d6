---------------------------- MODULE UpperScreen ----------------------------
(* What the vertical blank does (irqs.cpp, animation.cpp, timer.cpp) and     *)
(* what it draws on the upper screen: the calendar, the clock and the user's *)
(* window (calendar.cpp, bigclock.cpp, userwnd.cpp). The cover is in Covers. *)
(*                                                                           *)
(* A moment is a record of year, month, day, weekday (Sunday is 0), hours    *)
(* and minutes. A digit drawn is [at |-> <<x, y>>, digit |-> n].             *)
EXTENDS Integers, Sequences, FiniteSets, SequencesExt

U8(n) == n % 256

(* The year handed over is the whole one, and the test adds 1900 to it.      *)
IsLeap(n) ==
    \/ ((n + 1900) % 400) = 0
    \/ ((n + 1900) % 4) = 0 /\ ((n + 1900) % 100) # 0

(* Two bits for each month say how many days it has beyond 28; the days are  *)
(* 28 with those bits set.                                                   *)
daysOfMonth(t) ==
    28 + (((IF IsLeap(t.year) THEN 62648028 ELSE 62648012) \div 4 ^ t.month) % 4)

weekDayOfFirstDay(t) == (t.weekday + 7 - ((t.day - 1) % 7)) % 7

(* A day's two digits, from the sheet of ten digits below each other.        *)
drawDayNumber(t, day, position, size, w) ==
    LET weekDay == (((day - 1) % 7) + weekDayOfFirstDay(t)) % 7
        x == U8(weekDay * size[1] + position[1])
        y == U8(((day - 1 + weekDayOfFirstDay(t)) \div 7) * size[2] + position[2])
    IN IF day > 31 THEN {}
       ELSE {[at |-> <<x, y>>, digit |-> day \div 10], [at |-> <<x + w, y>>, digit |-> day % 10]}

(* The day that is marked has its rectangle filled below its digits.         *)
Highlight(t, position, size, w, h) ==
    LET weekDay == (((t.day - 1) % 7) + weekDayOfFirstDay(t)) % 7
        x == U8(weekDay * size[1] + position[1])
        y == U8(((t.day - 1 + weekDayOfFirstDay(t)) \div 7) * size[2] + position[2])
    IN [x |-> x - ((size[1] \div 2) - w), y |-> y - ((size[2] - h) \div 2),
        w |-> size[1] - 1, h |-> size[2] - 1]

(* A number is drawn from its highest digit on; `factor` is the weight of    *)
(* that digit.                                                               *)
drawText(position, value, digits, w) ==
    {[at |-> <<U8(position[1] + (k - 1) * w), U8(position[2])>>,
      digit |-> IF k = 1 THEN U8(value \div 10 ^ (digits - 1))
                ELSE (value % 10 ^ (digits - k + 1)) \div 10 ^ (digits - k)] : k \in 1 .. digits}

(* The calendar, with what its theme shows of it.                            *)
drawCalendar(t, theme) ==
    (IF theme.showDay
     THEN UNION {drawDayNumber(t, d, theme.day, theme.daySize, theme.dayWidth) :
                   d \in 1 .. daysOfMonth(t)} ELSE {})
      \cup (IF theme.showDayX THEN drawText(theme.dayx, t.day, 2, theme.width) ELSE {})
      \cup (IF theme.showMonth THEN drawText(theme.month, t.month, 2, theme.width) ELSE {})
      \cup (IF theme.showYear THEN drawText(theme.year, t.year, 4, theme.width) ELSE {})
-----------------------------------------------------------------------------
(* The clock.                                                                *)

Hours12(hours) ==
    LET h == IF hours > 12 THEN hours - 12 ELSE hours
    IN IF h = 0 THEN 12 ELSE h

AmPm(t) == IF t.hours < 12 THEN "AM" ELSE "PM"

(* Places 0, 1, 3 and 4 have the digits; those of the minutes move eight     *)
(* pixels to the left.                                                       *)
ClockX(position, id, width) ==
    LET x == U8(position[1] + id * (width + 2))
    IN IF id > 2 THEN U8(x - 8) ELSE x

drawClock(t, twelve, position, width) ==
    LET hours == IF twelve THEN Hours12(t.hours) ELSE t.hours
        Digit(id, n) == [at |-> <<ClockX(position, id, width), position[2]>>, digit |-> n]
    IN {Digit(0, hours \div 10), Digit(1, hours % 10),
        Digit(3, t.minutes \div 10), Digit(4, t.minutes % 10)}

ColonX(position, width) == U8(position[1] + 2 * width)
-----------------------------------------------------------------------------
(* The user's window: the date as a text, or in digits of its own sheet.     *)

Field(value, digits) == [k \in 1 .. digits |-> (value \div 10 ^ (digits - k)) % 10]

(* The fields of a date in the order of its format; any format that is not   *)
(* known is that of the day first.                                           *)
DateFields(t, format) ==
    CASE format = "MM/DD/YYYY" -> <<Field(t.month, 2), Field(t.day, 2), Field(t.year, 4)>>
      [] format = "YYYY/MM/DD" -> <<Field(t.year, 4), Field(t.month, 2), Field(t.day, 2)>>
      [] OTHER -> <<Field(t.day, 2), Field(t.month, 2), Field(t.year, 4)>>

formatDate(t, format) ==
    LET f == DateFields(t, format) IN f[1] \o <<"/">> \o f[2] \o <<"/">> \o f[3]

appendTime(t, twelve) ==
    LET h == Hours12(t.hours)
    IN IF twelve
       THEN <<" ">> \o (IF h < 10 THEN <<h>> ELSE Field(h, 2)) \o <<":">>
              \o Field(t.minutes, 2) \o <<" ", AmPm(t)>>
       ELSE <<" ">> \o Field(t.hours, 2) \o <<":">> \o Field(t.minutes, 2)

DigitWidth == 9
DigitHeight == 14
FieldGap == 12

DateSheetFits(sheet) == sheet.width = DigitWidth /\ sheet.height >= 10 * DigitHeight

drawBitmapDate(t, format, x, y, sheet) ==
    LET f == DateFields(t, format)
        start == <<x, x + Len(f[1]) * DigitWidth + FieldGap,
                   x + (Len(f[1]) + Len(f[2])) * DigitWidth + 2 * FieldGap>>
    IN IF DateSheetFits(sheet)
       THEN {[at |-> <<start[q[1]] + (q[2] - 1) * DigitWidth, y>>, digit |-> f[q[1]][q[2]]] :
               q \in {q \in (1 .. 3) \X (1 .. 4) : q[2] <= Len(f[q[1]])}}
       ELSE {}

(* What the window draws, in order.                                          *)
drawUser(user) ==
    SelectSeq(<<"picture", "text", "name", "digits", "date">>,
              LAMBDA part : CASE part = "picture" -> user.showPicture /\ user.pictureValid
                              [] part = "text" -> user.showText /\ user.text # ""
                              [] part = "name" -> user.showName /\ user.name # ""
                              [] part = "digits" -> user.showDate /\ user.dateFont
                              [] part = "date" -> user.showDate /\ ~user.dateFont)
-----------------------------------------------------------------------------
(* The vertical blank: a frame counter, the colon and the disk's icon.       *)

Frames == 30

redrawTopScreen(covers) ==
    <<"background", "calendar", "clock", "user">>
      \o (IF covers THEN <<"backdrop", "cover">> ELSE <<>>) \o <<"overlay", "present">>

(* One interrupt. `v` is [started, counter, colon, disk, drawn].             *)
vBlank(v, covers, cardBusy) ==
    LET due == v.counter > Frames
    IN IF ~v.started THEN v
       ELSE [v EXCEPT !.counter = IF due THEN 0 ELSE v.counter + 1,
                      !.colon = IF due THEN ~v.colon ELSE v.colon,
                      !.drawn = IF due THEN redrawTopScreen(covers) ELSE <<>>,
                      !.disk = cardBusy]

cardMC(v) == [v EXCEPT !.disk = ~v.disk]
-----------------------------------------------------------------------------
(* The timer: it counts to `wrap` and raises an interrupt that adds `wrap`   *)
(* to what has run over, `over`. The read, with the interrupt off, may meet  *)
(* a timer that has wrapped round and an `over` that does not know it yet;   *)
(* what it gives is what the next read compares, `last`.                     *)

getTick(over, data, last, wrap) ==
    LET tick == over + data IN IF tick < last THEN tick + wrap ELSE tick
-----------------------------------------------------------------------------
(* What may be relied on.                                                    *)

Leap(year) == (year % 4) = 0 /\ ((year % 100) # 0 \/ (year % 400) = 0)
DaysIn(year, month) ==
    CASE month \in {4, 6, 9, 11} -> 30
      [] month = 2 -> IF Leap(year) THEN 29 ELSE 28
      [] OTHER -> 31

(* The days drawn are those of the month in every year a console's clock     *)
(* runs through, but for 2000, which the test takes for 3900.                *)
DaysRight(years) ==
    \A y \in years, m \in 1 .. 12 :
       (daysOfMonth([year |-> y, month |-> m]) = DaysIn(y, m)) <=> ~(y = 2000 /\ m = 2)

(* Today lies in the column of its weekday, and the day after a Saturday     *)
(* starts the next row.                                                      *)
CalendarLaysOut(t, position, size, w) ==
    LET AtOf(d) == CHOOSE p \in {q.at : q \in drawDayNumber(t, d, position, size, w)} :
                      \A q \in drawDayNumber(t, d, position, size, w) : p[1] <= q.at[1]
    IN /\ AtOf(t.day)[1] = position[1] + t.weekday * size[1]
       /\ \A d \in 1 .. (daysOfMonth(t) - 1) :
             IF AtOf(d)[1] = position[1] + 6 * size[1]
             THEN AtOf(d + 1) = <<position[1], AtOf(d)[2] + size[2]>>
             ELSE AtOf(d + 1) = <<AtOf(d)[1] + size[1], AtOf(d)[2]>>

(* Twelve hours and the half of the day name the hour, and none is zero.     *)
TwelveHoursName ==
    /\ \A h \in 0 .. 23 : Hours12(h) \in 1 .. 12
    /\ \A g, h \in 0 .. 23 :
          Hours12(g) = Hours12(h) /\ AmPm([hours |-> g]) = AmPm([hours |-> h]) => g = h

(* The text of a date is ten characters and the time at most nine: both fit  *)
(* the buffer of 32 with its end. (Two of the nine are those of AM or PM.)   *)
TextFits(t, format, twelve) ==
    Len(formatDate(t, format)) + Len(appendTime(t, twelve)) + 1 < 32

(* No two digits of a date cover each other.                                 *)
DigitsApart(t, format, x, y) ==
    LET drawn == drawBitmapDate(t, format, x, y, [width |-> DigitWidth, height |-> 140])
    IN /\ Cardinality(drawn) = 8
       /\ \A a, b \in drawn : a # b => a.at[1] + DigitWidth <= b.at[1] \/ b.at[1] + DigitWidth <= a.at[1]

(* Frames of the vertical blank from v on.                                   *)
FrameOf(v, covers) ==
    LET f[n \in Nat] == IF n = 0 THEN v ELSE vBlank(f[n - 1], covers, FALSE) IN f

(* The screen is drawn once in 32 frames and the colon turned each time.     *)
DrawnEvery32(v, covers) ==
    \A n \in 1 .. 96 :
       /\ FrameOf(v, covers)[n].drawn # <<>> <=> v.started /\ (n + v.counter) % 32 = 0
       /\ FrameOf(v, covers)[n].colon =
            (IF v.started /\ ((n + v.counter) \div 32) % 2 = 1 THEN ~v.colon ELSE v.colon)

(* A tick is never before the one read last, also when the timer wrapped     *)
(* round and the interrupt has not been taken: the reads are made `first`    *)
(* and `then` units after the start, less than one round apart.              *)
TicksRise(first, then, wrap) ==
    \A pending \in {0, wrap} :
       LET last == getTick((first \div wrap) * wrap, first % wrap, 0, wrap)
           over == (then \div wrap) * wrap - pending
       IN over >= (first \div wrap) * wrap => getTick(over, then % wrap, last, wrap) >= last
=============================================================================
