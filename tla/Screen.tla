------------------------------- MODULE Screen -------------------------------
(***************************************************************************)
(* A pane's screen (screen.c), what the output of its program does to it   *)
(* (screen-write.c, called by the parser in input.c), and what the         *)
(* terminals of the clients that show the pane are told of it (tty.c,      *)
(* server-client.c).                                                       *)
(*                                                                         *)
(* The program's output is parsed a read at a time: Start, some commands,  *)
(* Stop.  A command changes the grid at once.  What the terminals must     *)
(* show of it is partly collected, as pending scrolls and as cells to      *)
(* write on a line (write_list), until it is flushed, and partly written   *)
(* at once, after a flush.  Writing is cut short for a client that is to   *)
(* be redrawn, and for all clients once the pane is: the server's loop     *)
(* draws what the grid shows then.  A program may also hold back what it   *)
(* writes (MODE_SYNC); the pane is redrawn at the end of that.             *)
(*                                                                         *)
(* Characters are one column wide and plain here, and the pane is in no    *)
(* mode and covered by nothing.  Where the code leaves terminal and grid   *)
(* apart, or the grid without meaning, s.fault says so and the run ends.   *)
(***************************************************************************)
EXTENDS Grid

CONSTANTS
    Client,     \* the clients that show the pane
    Char,       \* what the program prints
    Options     \* the settings and commands of the instances

VARIABLES
    option,     \* the instance
    s,          \* screen, write context and terminals
    open,       \* the program's output is being parsed
    moves       \* commands and events so far

vars == <<option, s, open, moves>>

NoItem == ""
NoSaved == [sx |-> 0]
Modes == {"wrap", "insert", "origin", "sync"}
Faults == {"none", "left over", "scroll kept", "outside", "missed", "cut",
           "not erased", "not inserted", "off the grid", "underflow", "history"}

(* The clients of the instance, in the order of the server's list. *)
Viewers == ToSet(option.clients)

FaultIf(bad, t, what) == IF bad /\ t.fault = "none" THEN [t EXCEPT !.fault = what] ELSE t

Fault(t, what) == FaultIf(TRUE, t, what)

Sx(t) == t.grid.sx
Sy(t) == t.grid.sy
Columns(t) == 0..(Sx(t) - 1)
Rows(t) == 0..(Sy(t) - 1)

NoList(sx, sy) == [y \in 0..(sy - 1) |-> [x \in 0..(sx - 1) |-> NoItem]]

(* What the grid shows. *)
View(t) == [y \in Rows(t) |-> Cells(ViewLine(t.grid, y), Sx(t))]

ScreenInit ==
    /\ option \in Options
    /\ \E at \in option.cursors :
        s = [grid |-> [lines |-> option.lines, sx |-> option.sx, sy |-> option.sy,
                       hsize |-> Len(option.lines) - option.sy,
                       hscrolled |-> Len(option.lines) - option.sy,
                       hlimit |-> option.limit, history |-> option.limit # 0],
             cx |-> at[1], cy |-> at[2], rupper |-> 0, rlower |-> option.sy - 1,
             mode |-> {"wrap"}, saved |-> NoSaved, saved_cx |-> -1, saved_cy |-> -1,
             list |-> NoList(option.sx, option.sy), item |-> <<>>,
             scrolled |-> 0, bg |-> FALSE,
             redraw |-> FALSE, due |-> [c \in Viewers |-> "no"], blocked |-> {},
             term |-> [c \in Viewers |-> [y \in 0..(option.sy - 1) |->
                          Cells(option.lines[Len(option.lines) - option.sy + y + 1], option.sx)]],
             fault |-> "none"]
    /\ open = FALSE
    /\ moves = 0

-----------------------------------------------------------------------------
(* The terminals (tty.c).                                                  *)

(* tty_write: Draw for every client in turn, until one is found whose      *)
(* panes wait for their redraw: the pane is then redrawn for all.  A       *)
(* client that can not keep up gets nothing of what is drawn.              *)
Written(t, Draw(_, _)) ==
    LET Write(u, c) ==
            IF u.redraw \/ u.due[c] = "window" THEN u
            ELSE IF u.due[c] = "panes" THEN [u EXCEPT !.redraw = TRUE]
            ELSE IF c \in u.blocked THEN [Draw(u, c) EXCEPT !.term[c] = u.term[c]]
            ELSE Draw(u, c)
    IN  FoldLeft(Write, t, option.clients)

(* Cells over what the terminal shows, where there are any. *)
Over(p, cells) ==
    [y \in DOMAIN p |-> [x \in DOMAIN p[y] |->
        IF cells[y][x] = NoItem THEN p[y][x] ELSE cells[y][x]]]

Painted(t, cells) == Written(t, LAMBDA u, c : [u EXCEPT !.term[c] = Over(@, cells)])

(* Every cell for which In holds is c. *)
Area(t, In(_, _), c) ==
    [y \in Rows(t) |-> [x \in Columns(t) |-> IF In(x, y) THEN c ELSE NoItem]]

(* tty_draw_pane for some lines. *)
DrawnRows(t, c, rows) ==
    [t EXCEPT !.term[c] = [y \in Rows(t) |-> IF y \in rows THEN View(t)[y] ELSE @[y]]]

(* What a terminal of the pane's full width does itself; for another the   *)
(* region is drawn from the grid, or the pane is redrawn if it is large.   *)
InRegion(t, Native(_)) ==
    Written(t, LAMBDA u, c :
        IF c \in option.native THEN [u EXCEPT !.term[c] = Native(@)]
        ELSE IF u.rlower - u.rupper >= Sy(u) \div 2 THEN [u EXCEPT !.redraw = TRUE]
        ELSE DrawnRows(u, c, u.rupper..u.rlower))

InLine(t, Native(_)) ==
    Written(t, LAMBDA u, c :
        IF c \in option.native THEN [u EXCEPT !.term[c] = Native(@)]
        ELSE DrawnRows(u, c, {u.cy}))

(* Lines top .. bottom of a picture n up or down, c in what they leave. *)
ShiftedUp(p, top, bottom, n, c) ==
    [y \in DOMAIN p |-> IF y \notin top..bottom THEN p[y]
                        ELSE IF y + n <= bottom THEN p[y + n]
                        ELSE [x \in DOMAIN p[y] |-> c]]

ShiftedDown(p, top, bottom, n, c) ==
    [y \in DOMAIN p |-> IF y \notin top..bottom THEN p[y]
                        ELSE IF y - n >= top THEN p[y - n]
                        ELSE [x \in DOMAIN p[y] |-> c]]

-----------------------------------------------------------------------------
(* Collecting and flushing (screen-write.c:1969-2378).                     *)

Discarded(t) == [t EXCEPT !.list = NoList(Sx(t), Sy(t)), !.scrolled = 0, !.bg = FALSE]

(* collect_flush: the pending scroll, then the cells. *)
ScrollFlushed(t) ==
    LET n == Min({t.scrolled, t.rlower - t.rupper + 1})
        scroll(p) == ShiftedUp(p, t.rupper, t.rlower, n, Erased(t.bg))
    IN  IF t.scrolled = 0 THEN [t EXCEPT !.bg = FALSE]
        ELSE [InRegion(t, scroll) EXCEPT !.scrolled = 0, !.bg = FALSE]

Flushed(t) ==
    LET Listed(u) == IF u.list = NoList(Sx(t), Sy(t)) THEN u
                    ELSE [Painted(u, u.list) EXCEPT !.list = NoList(Sx(t), Sy(t))]
    IN  IF "sync" \in t.mode THEN Discarded(t) ELSE Listed(ScrollFlushed(t))

FlushedScroll(t) == IF "sync" \in t.mode THEN Discarded(t) ELSE ScrollFlushed(t)

(* collect_insert: n cells to write at x, over those pending there. *)
Inserted(t, y, x, n, At(_)) ==
    [t EXCEPT !.list[y] = [i \in DOMAIN @ |-> IF i \in x..(x + n - 1) THEN At(i) ELSE @[i]]]

InsertedClear(t, y, x, n, bg) ==
    LET erased(i) == Erased(bg) IN Inserted(t, y, x, n, erased)

ListCleared(t, rows) ==
    [t EXCEPT !.list = [y \in DOMAIN @ |-> IF y \in rows THEN [x \in DOMAIN @[y] |-> NoItem] ELSE @[y]]]

(* collect_scroll: the pending cells go up with their lines, the bottom    *)
(* line is to be erased.                                                   *)
ListScrolled(t, bg) ==
    [t EXCEPT !.list = ShiftedUp(@, t.rupper, t.rlower, 1, Erased(bg))]

(* collect_end: the characters collected go to the grid and the list. *)
Collected(t) ==
    LET char(x) == t.item[x - t.cx + 1]
        n == Len(t.item)
    IN  IF n = 0 THEN t
        ELSE [Inserted(t, t.cy, t.cx, n, char) EXCEPT
                 !.grid = SetCells(t.grid, t.cx, t.grid.hsize + t.cy, t.item),
                 !.cx = t.cx + n, !.item = <<>>]

-----------------------------------------------------------------------------
(* Scrolling and line feed (screen-write.c:1622-1725).                     *)

WithBackground(t, bg) ==
    IF bg = t.bg THEN t ELSE [FlushedScroll(t) EXCEPT !.bg = bg]

ScrolledUp(t, n, bg) ==
    [FoldLeft(LAMBDA u, i : ListScrolled([u EXCEPT !.grid = RegionUp(@, u.rupper, u.rlower, bg)], bg),
              t, [i \in 1..n |-> i])
     EXCEPT !.scrolled = t.scrolled + n]

LineFed(t, wrapped, bg) ==
    LET line == [ViewLine(t.grid, t.cy) EXCEPT !.wrapped = TRUE]
        marked == IF wrapped THEN [t EXCEPT !.grid = WithLine(@, t.grid.hsize + t.cy, line)] ELSE t
        Down(u) == IF u.cy = u.rlower THEN ScrolledUp(u, 1, bg)
                   ELSE IF u.cy < Sy(u) - 1 THEN [u EXCEPT !.cy = u.cy + 1]
                   ELSE u
    IN  Down(WithBackground(marked, bg))

Lines(t, n) == Min({n, t.rlower - t.rupper + 1})

ScrollUp(t, n, bg) == ScrolledUp(WithBackground(t, bg), Lines(t, n), bg)

ScrollDown(t, n, bg) ==
    LET lines == Lines(t, n)
        native(p) == ShiftedDown(p, t.rupper, t.rlower, lines, Erased(bg))
        moved == FoldLeft(LAMBDA g, i : RegionDown(g, t.rupper, t.rlower, bg),
                          t.grid, [i \in 1..lines |-> i])
    IN  InRegion(Flushed([t EXCEPT !.grid = moved]), native)

(* A mutant: what is pending is not flushed first. *)
ReverseIndexUnflushed(t, bg) ==
    LET native(p) == ShiftedDown(p, t.rupper, t.rlower, 1, Erased(bg))
    IN  IF t.cy = t.rupper
        THEN InRegion([t EXCEPT !.grid = RegionDown(@, t.rupper, t.rlower, bg)], native)
        ELSE IF t.cy > 0 THEN [t EXCEPT !.cy = t.cy - 1]
        ELSE t

ReverseIndex(t, bg) ==
    LET native(p) == ShiftedDown(p, t.rupper, t.rlower, 1, Erased(bg))
    IN  IF t.cy = t.rupper
        THEN InRegion(Flushed([t EXCEPT !.grid = RegionDown(@, t.rupper, t.rlower, bg)]), native)
        ELSE IF t.cy > 0 THEN [t EXCEPT !.cy = t.cy - 1]
        ELSE t

ScrollRegion(t, upper, lower) ==
    IF upper >= lower THEN t
    ELSE [Flushed(t) EXCEPT !.cx = 0, !.cy = 0, !.rupper = upper, !.rlower = lower]

-----------------------------------------------------------------------------
(* Printing (screen-write.c:2380-2600).                                    *)

(* collect_add of a character that can be collected. *)
Added1(t, c) ==
    LET full == t.cx > Sx(t) - 1 \/ Len(t.item) > Sx(t) - 1 - t.cx
        Fed(u) == IF u.cx > Sx(t) - 1 THEN [LineFed(u, TRUE, FALSE) EXCEPT !.cx = 0] ELSE u
        Taken(u) == [u EXCEPT !.item = Append(u.item, c)]
    IN  Taken(Fed(IF full THEN Collected(t) ELSE t))

(* screen_write_cell: the character is written at once, unless it is there *)
(* already.  Without wrapping the last column is written over and over.  A *)
(* character to insert that goes to the next line had its room made on     *)
(* this one: the grid writes it over what a terminal moves.                *)
CellPut(t, c) ==
    LET insert == "insert" \in t.mode
        wrap == "wrap" \in t.mode
        RoomMade(u) ==
            IF insert THEN [u EXCEPT !.grid = InsertCells(@, u.cx, u.cy, 1, FALSE)] ELSE u
        Fed(u) == Flushed([LineFed(u, TRUE, FALSE) EXCEPT !.cx = 0])
        Wrapped(u) == IF wrap /\ u.cx > Sx(t) - 1 THEN FaultIf(insert, Fed(u), "not inserted")
                      ELSE u
        There(u) == ~insert /\ CellAt(ViewLine(u.grid, u.cy), u.cx) = c
        Stored(u) == [u EXCEPT !.grid = SetCells(@, u.cx, u.grid.hsize + u.cy, <<c>>)]
        Pushed(u) ==
            LET native(p) == [p EXCEPT ![u.cy] = [x \in DOMAIN @ |->
                                 IF x < u.cx THEN @[x] ELSE IF x = u.cx THEN Blank ELSE @[x - 1]]]
            IN  IF insert THEN InLine(Flushed(u), native) ELSE u
        Shown(u) ==
            LET here(x, y) == x = u.cx /\ y = u.cy
            IN  IF "sync" \in t.mode THEN u ELSE Painted(u, Area(u, here, c))
        Put(u) == IF There(u) THEN u ELSE Shown(Pushed(Stored(u)))
        Moved(u) == [u EXCEPT !.cx = IF wrap \/ u.cx < Sx(t) - 1 THEN u.cx + 1 ELSE Sx(t) - 1]
        At(u) == IF u.cx > Sx(t) - 1 THEN u ELSE Moved(Put(u))
    IN  At(Wrapped(RoomMade(FlushedScroll(t))))

(* A character of more than a byte is not collected, and none is without   *)
(* wrapping or in insert mode.                                             *)
Printed(t, c, alone) ==
    IF ~alone /\ "wrap" \in t.mode /\ "insert" \notin t.mode THEN Added1(t, c)
    ELSE CellPut(Flushed(Collected(t)), c)

-----------------------------------------------------------------------------
(* Inserting, deleting and erasing (screen-write.c:1171-1544, 1735-1960).  *)

Room(t, n) == Min({n, Sx(t) - t.cx})

(* When fewer than n cells are moved those between are left in the grid    *)
(* (grid.c:763); a terminal erases them.                                   *)
InsertCharacter(t, n, bg) ==
    LET native(p) == [p EXCEPT ![t.cy] = [x \in DOMAIN @ |->
                         IF x < t.cx THEN @[x] ELSE IF x < t.cx + n THEN Erased(bg) ELSE @[x - n]]]
        u == [t EXCEPT !.grid = InsertCells(@, t.cx, t.cy, Room(t, n), bg)]
    IN  IF t.cx > Sx(t) - 1 THEN t
        ELSE FaultIf(t.cx < Sx(t) - 1 /\ t.cx + 2 * Room(t, n) > Sx(t),
                     InLine(Flushed(u), native), "not erased")

DeleteCharacter(t, n, bg) ==
    LET native(p) == [p EXCEPT ![t.cy] = [x \in DOMAIN @ |->
                         IF x < t.cx THEN @[x] ELSE IF x + n < Sx(t) THEN @[x + n] ELSE Erased(bg)]]
    IN  IF t.cx > Sx(t) - 1 THEN t
        ELSE InLine(Flushed([t EXCEPT !.grid = DeleteCells(@, t.cx, t.cy, Room(t, n), bg)]), native)

ClearCharacter(t, n, bg) ==
    LET gone(x, y) == y = t.cy /\ x \in t.cx..(t.cx + n - 1)
        u == Flushed([t EXCEPT !.grid = ViewClear(@, t.cx, t.cy, Room(t, n), 1, bg)])
    IN  IF t.cx > Sx(t) - 1 THEN t ELSE Painted(u, Area(u, gone, Erased(bg)))

(* Outside the scroll region the grid moves its lines as far as the end of *)
(* the screen, and a terminal does nothing.                                *)
InsertLine(t, n, bg) ==
    LET inside == t.cy \in t.rupper..t.rlower
        ny == Min({n, IF inside THEN t.rlower + 1 - t.cy ELSE Sy(t) - t.cy})
        native(p) == IF inside THEN ShiftedDown(p, t.cy, t.rlower, ny, Erased(bg)) ELSE p
        u == [t EXCEPT !.grid = IF inside THEN InsertLinesRegion(@, t.rlower, t.cy, ny, bg)
                                ELSE InsertLines(@, t.cy, ny, bg)]
    IN  FaultIf(~inside, InRegion(Flushed(u), native), "outside")

DeleteLine(t, n, bg) ==
    LET inside == t.cy \in t.rupper..t.rlower
        ny == Min({n, IF inside THEN t.rlower + 1 - t.cy ELSE Sy(t) - t.cy})
        native(p) == IF inside THEN ShiftedUp(p, t.cy, t.rlower, ny, Erased(bg)) ELSE p
        u == [t EXCEPT !.grid = IF inside THEN DeleteLinesRegion(@, t.rlower, t.cy, ny, bg)
                                ELSE DeleteLines(@, t.cy, ny, bg)]
    IN  FaultIf(~inside, InRegion(Flushed(u), native), "outside")

ClearLine(t, bg) ==
    IF ViewLine(t.grid, t.cy).cells = <<>> /\ ~bg THEN t
    ELSE InsertedClear([t EXCEPT !.grid = ViewClear(@, 0, t.cy, Sx(t), 1, bg)],
                       t.cy, 0, Sx(t), bg)

ClearEndOfLine(t, bg) ==
    IF t.cx = 0 THEN ClearLine(t, bg)
    ELSE IF t.cx > Sx(t) - 1 \/ (t.cx >= Len(ViewLine(t.grid, t.cy).cells) /\ ~bg) THEN t
    ELSE InsertedClear([t EXCEPT !.grid = ViewClear(@, t.cx, t.cy, Sx(t) - t.cx, 1, bg)],
                       t.cy, t.cx, Sx(t) - t.cx, bg)

ClearStartOfLine(t, bg) ==
    IF t.cx >= Sx(t) - 1 THEN ClearLine(t, bg)
    ELSE InsertedClear([t EXCEPT !.grid = ViewClear(@, 0, t.cy, t.cx + 1, 1, bg)],
                       t.cy, 0, t.cx + 1, bg)

(* With a history what is cleared from the top is scrolled into it. *)
ClearEndOfScreen(t, bg) ==
    LET line == IF t.cx <= Sx(t) - 1 THEN ViewClear(t.grid, t.cx, t.cy, Sx(t) - t.cx, 1, bg)
                                     ELSE t.grid
        g == IF t.cx = 0 /\ t.cy = 0 /\ t.grid.history THEN ClearIntoHistory(t.grid, bg)
             ELSE ViewClear(line, 0, t.cy + 1, Sx(t), Sy(t) - (t.cy + 1), bg)
        u == Flushed(ListCleared([t EXCEPT !.grid = g], (t.cy + 1)..(Sy(t) - 1)))
        gone(x, y) == y > t.cy \/ (y = t.cy /\ x >= t.cx)
    IN  Painted(u, Area(u, gone, Erased(bg)))

ClearStartOfScreen(t, bg) ==
    LET above == ViewClear(t.grid, 0, 0, Sx(t), t.cy, bg)
        g == ViewClear(above, 0, t.cy, Min({t.cx + 1, Sx(t)}), 1, bg)
        u == Flushed(ListCleared([t EXCEPT !.grid = g], 0..(t.cy - 1)))
        gone(x, y) == y < t.cy \/ (y = t.cy /\ x <= t.cx)
    IN  Painted(u, Area(u, gone, Erased(bg)))

(* The pending scroll is not flushed before the screen is cleared, nor     *)
(* forgotten: if it brings a colour, the terminal gets it afterwards.      *)
ClearScreen(t, bg) ==
    LET g == IF t.grid.history THEN ClearIntoHistory(t.grid, bg)
             ELSE ViewClear(t.grid, 0, 0, Sx(t), Sy(t), bg)
        all(x, y) == TRUE
        u == [Discarded(t) EXCEPT !.grid = g, !.scrolled = t.scrolled, !.bg = t.bg]
    IN  FaultIf(t.scrolled # 0 /\ t.bg # bg, Painted(u, Area(t, all, Erased(bg))), "scroll kept")

(* Nor is it before the alignment test, and what is pending on the bottom  *)
(* line stays pending.                                                     *)
AlignmentTest(t) ==
    LET g == FoldLeft(LAMBDA h, y : SetCells(h, 0, h.hsize + y, [i \in 1..h.sx |-> "E"]),
                      t.grid, [i \in 1..Sy(t) |-> i - 1])
        all(x, y) == TRUE
        u == ListCleared([t EXCEPT !.grid = g, !.cx = 0, !.cy = 0,
                                   !.rupper = 0, !.rlower = Sy(t) - 1], 0..(Sy(t) - 2))
    IN  FaultIf(t.scrolled # 0 \/ \E x \in Columns(t) : t.list[Sy(t) - 1][x] # NoItem,
                Painted(u, Area(t, all, "E")), "left over")

(* RIS: region, modes, screen; the pane is redrawn. *)
Reset(t) ==
    LET u == ClearScreen([ScrollRegion(t, 0, Sy(t) - 1) EXCEPT !.mode = {"wrap"}], FALSE)
    IN  [Flushed([u EXCEPT !.cx = 0, !.cy = 0]) EXCEPT !.redraw = TRUE]

MoveTo(t, x, y) ==
    LET oy == IF "origin" \notin t.mode THEN y
              ELSE IF y > t.rlower - t.rupper THEN t.rlower ELSE y + t.rupper
    IN  [t EXCEPT !.cx = Min({x, Sx(t) - 1}), !.cy = Min({oy, Sy(t) - 1})]

(* Back over the end of a wrapped line. *)
Backspace(t) ==
    IF t.cx > 0 THEN [t EXCEPT !.cx = t.cx - 1]
    ELSE IF t.cy > 0 /\ ViewLine(t.grid, t.cy - 1).wrapped
    THEN [t EXCEPT !.cx = Sx(t) - 1, !.cy = t.cy - 1]
    ELSE t

ModeSet(t, mode) ==
    LET u == [t EXCEPT !.mode = t.mode \cup {mode}]
    IN  IF mode = "origin" THEN MoveTo(u, 0, 0) ELSE u

ModeClear(t, mode) ==
    LET u == [t EXCEPT !.mode = t.mode \ {mode}]
    IN  IF mode = "origin" THEN MoveTo(u, 0, 0)
        ELSE IF mode = "sync" THEN [u EXCEPT !.redraw = TRUE]
        ELSE u

-----------------------------------------------------------------------------
(* The size and the alternate screen (screen.c:337-500, 650-770).          *)

(* Lines go from the bottom up to the cursor, then into the history; or    *)
(* come from it, and then empty ones at the bottom.  py is the cursor's    *)
(* line counted with the history.                                          *)
Shorter(t, sy) ==
    LET eaten == Min({Sy(t) - sy, Sy(t) - 1 - t.cy})
        needed == Sy(t) - sy - eaten
        top == IF t.grid.history THEN 0 ELSE Min({needed, t.cy})
        Deleted(g, y, n) == IF n = 0 THEN g ELSE DeleteLines(g, y, n, FALSE)
        Scrolled(g) == IF t.grid.history
                       THEN [g EXCEPT !.hscrolled = @ + needed, !.hsize = @ + needed]
                       ELSE Deleted(g, 0, top)
        Cut(g) == [g EXCEPT !.lines = SubSeq(g.lines, 1, g.hsize + sy), !.sy = sy]
    IN  [t |-> [t EXCEPT !.grid = Cut(Scrolled(Deleted(t.grid, Sy(t) - eaten, eaten)))],
         py |-> t.grid.hsize + t.cy - top]

Taller(t, sy) ==
    LET pulled == IF t.grid.history THEN Min({t.grid.hscrolled, sy - Sy(t)}) ELSE 0
        empty == sy - Sy(t) - pulled
        g == [t.grid EXCEPT !.lines = @ \o [i \in 1..empty |-> NoLine],
                            !.hscrolled = @ - pulled, !.hsize = @ - pulled, !.sy = sy]
    IN  [t |-> IF pulled > t.grid.hsize THEN Fault(t, "underflow") ELSE [t EXCEPT !.grid = g],
         py |-> t.grid.hsize + t.cy]

WithHeight(t, sy) ==
    IF sy = Sy(t) THEN [t |-> t, py |-> t.grid.hsize + t.cy]
    ELSE LET r == IF sy < Sy(t) THEN Shorter(t, sy) ELSE Taller(t, sy)
         IN  [r EXCEPT !.t.rupper = 0, !.t.rlower = sy - 1]

(* The cursor stays on its character, or goes to the top left if that has  *)
(* left the view.                                                          *)
Placed(t, px, py) ==
    IF py >= t.grid.hsize THEN [t EXCEPT !.cx = px, !.cy = py - t.grid.hsize]
    ELSE [t EXCEPT !.cx = 0, !.cy = 0]

Reflowing(t, px, py) ==
    LET To(u, f, to) == IF to = NoPosition THEN Fault(u, "off the grid")
                        ELSE FaultIf(f.cut, Placed(u, to.x, to.y), "cut")
        From(at, f) == To([t EXCEPT !.grid = f.grid], f, UnwrapPosition(f.grid, at.x, at.y))
    IN  From(WrapPosition(t.grid, px, py), Reflowed(t.grid))

Resized(t, sx, sy, reflow) ==
    LET To(r) == IF r.t.fault # "none" THEN r.t
                 ELSE IF reflow /\ sx # Sx(t) THEN Reflowing(r.t, t.cx, r.py)
                 ELSE Placed(r.t, t.cx, r.py)
    IN  [To(WithHeight([t EXCEPT !.grid.sx = sx], sy)) EXCEPT !.list = NoList(sx, sy)]

(* A mutant: the history stays on. *)
AlternateOnHistory(t, cursor) ==
    LET u == Flushed(t)
        v == IF cursor THEN [u EXCEPT !.saved_cx = t.cx, !.saved_cy = t.cy] ELSE u
        on == [v EXCEPT
                  !.saved = [sx |-> Sx(t), sy |-> Sy(t), history |-> t.grid.history,
                             lines |-> SubSeq(t.grid.lines, t.grid.hsize + 1, Total(t.grid)),
                             above |-> SubSeq(t.grid.lines, 1, t.grid.hsize)],
                  !.grid = ViewClear(t.grid, 0, 0, Sx(t), Sy(t), FALSE)]
        after == IF t.saved = NoSaved THEN on ELSE u
    IN  [after EXCEPT !.redraw = TRUE]

AlternateOn(t, cursor) ==
    LET u == Flushed(t)
        v == IF cursor THEN [u EXCEPT !.saved_cx = t.cx, !.saved_cy = t.cy] ELSE u
        on == [v EXCEPT
                  !.saved = [sx |-> Sx(t), sy |-> Sy(t), history |-> t.grid.history,
                             lines |-> SubSeq(t.grid.lines, t.grid.hsize + 1, Total(t.grid)),
                             above |-> SubSeq(t.grid.lines, 1, t.grid.hsize)],
                  !.grid = [ViewClear(t.grid, 0, 0, Sx(t), Sy(t), FALSE) EXCEPT !.history = FALSE]]
        after == IF t.saved = NoSaved THEN on ELSE u
    IN  [after EXCEPT !.redraw = TRUE]

Clamped(t) == [t EXCEPT !.cx = Min({t.cx, Sx(t) - 1}), !.cy = Min({t.cy, Sy(t) - 1})]

(* A mutant: the cursor saved may be off the screen as it is now. *)
AlternateOffUnclamped(t, cursor) ==
    LET Restored(u) == [u EXCEPT !.grid.lines = SubSeq(@, 1, u.grid.hsize) \o t.saved.lines,
                                 !.grid.history = t.saved.history]
        Cursored(u) == IF cursor /\ t.saved_cx # -1
                       THEN [u EXCEPT !.cx = t.saved_cx, !.cy = t.saved_cy] ELSE u
        Back(u) == Resized(Restored(Cursored(Resized(u, t.saved.sx, t.saved.sy, FALSE))),
                           Sx(t), Sy(t), TRUE)
        Off(u) == IF t.saved = NoSaved THEN Cursored(u)
                  ELSE [Back(u) EXCEPT !.saved = NoSaved]
    IN  [Off(Flushed(t)) EXCEPT !.redraw = TRUE]

(* At the size it was saved at, then resized with the history on again. *)
AlternateOff(t, cursor) ==
    LET Restored(u) == [u EXCEPT !.grid.lines = SubSeq(@, 1, u.grid.hsize) \o t.saved.lines,
                                 !.grid.history = t.saved.history]
        Cursored(u) == IF cursor /\ t.saved_cx # -1
                       THEN [u EXCEPT !.cx = t.saved_cx, !.cy = t.saved_cy] ELSE u
        Back(u) == Resized(Restored(Cursored(Resized(u, t.saved.sx, t.saved.sy, FALSE))),
                           Sx(t), Sy(t), TRUE)
        Off(u) == IF t.saved = NoSaved THEN Cursored(u)
                  ELSE [Back(u) EXCEPT !.saved = NoSaved]
    IN  [Clamped(Off(Flushed(t))) EXCEPT !.redraw = TRUE]

-----------------------------------------------------------------------------
(* The program's output (input.c). *)

Start ==
    /\ ~open
    /\ s.fault = "none"
    /\ moves < option.moves
    /\ open' = TRUE
    /\ UNCHANGED <<option, s, moves>>

Stop ==
    /\ open
    /\ open' = FALSE
    /\ s' = Flushed(Collected(s))
    /\ UNCHANGED <<option, moves>>

Step(t) ==
    /\ s.fault = "none"
    /\ moves < option.moves
    /\ moves' = moves + 1
    /\ s' = t
    /\ UNCHANGED <<option, open>>

Output(name, t) == open /\ name \in option.commands /\ Step(t)

PrintChar == \E c \in Char, alone \in option.alone : Output("print", Printed(s, c, alone))

(* Every other command ends what is collected. *)
Command(name, Do(_)) == Output(name, Do(Collected(s)))

LineFeed == \E bg \in option.colours : Command("LF", LAMBDA t : LineFed(t, FALSE, bg))

CarriageReturn == Command("CR", LAMBDA t : [t EXCEPT !.cx = 0])

CursorPosition ==
    \E x \in 0..(Sx(s) - 1), y \in 0..(Sy(s) - 1) : Command("CUP", LAMBDA t : MoveTo(t, x, y))

BackspaceOne == Command("BS", Backspace)

ReverseLineFeed == \E bg \in option.colours : Command("RI", LAMBDA t : ReverseIndex(t, bg))

Scroll == \E n \in option.counts, bg \in option.colours :
    \/ Command("SU", LAMBDA t : ScrollUp(t, n, bg))
    \/ Command("SD", LAMBDA t : ScrollDown(t, n, bg))

SetRegion == \E upper, lower \in 0..(Sy(s) - 1) :
    Command("DECSTBM", LAMBDA t : ScrollRegion(t, upper, lower))

Characters == \E n \in option.counts, bg \in option.colours :
    \/ Command("ICH", LAMBDA t : InsertCharacter(t, n, bg))
    \/ Command("DCH", LAMBDA t : DeleteCharacter(t, n, bg))
    \/ Command("ECH", LAMBDA t : ClearCharacter(t, n, bg))

InsertOrDelete == \E n \in option.counts, bg \in option.colours :
    \/ Command("IL", LAMBDA t : InsertLine(t, n, bg))
    \/ Command("DL", LAMBDA t : DeleteLine(t, n, bg))

EraseLine == \E bg \in option.colours :
    \/ Command("EL", LAMBDA t : ClearEndOfLine(t, bg))
    \/ Command("EL", LAMBDA t : ClearStartOfLine(t, bg))
    \/ Command("EL", LAMBDA t : ClearLine(t, bg))

EraseScreen == \E bg \in option.colours :
    \/ Command("ED", LAMBDA t : ClearEndOfScreen(t, bg))
    \/ Command("ED", LAMBDA t : ClearStartOfScreen(t, bg))
    \/ Command("ED", LAMBDA t : ClearScreen(t, bg))

WithoutHistory(t) ==
    LET u == [t EXCEPT !.grid = ClearHistory(@)]
    IN  IF t.saved = NoSaved THEN u ELSE [u EXCEPT !.saved.above = <<>>]

EraseHistory == Command("ED3", WithoutHistory)

Alignment == Command("DECALN", AlignmentTest)

FullReset == Command("RIS", Reset)

Modal == \E mode \in option.modes :
    \/ Command("SM", LAMBDA t : ModeSet(t, mode))
    \/ Command("RM", LAMBDA t : ModeClear(t, mode))

Alternate == \E cursor \in BOOLEAN :
    \/ Command("alternate", LAMBDA t : AlternateOn(t, cursor))
    \/ Command("alternate", LAMBDA t : AlternateOff(t, cursor))

-----------------------------------------------------------------------------
(* The server. *)

Event(name, t) == ~open /\ name \in option.commands /\ Step(t)

(* window_pane_resize.  The layout has changed: all the window is drawn. *)
PaneResize == \E size \in option.sizes :
    LET t == [s EXCEPT !.mode = @ \ {"sync"}]
        r == Resized(t, size[1], size[2], s.saved = NoSaved)
        new == [y \in 0..(size[2] - 1) |-> [x \in 0..(size[1] - 1) |-> Blank]]
    IN  /\ size # <<Sx(s), Sy(s)>>
        /\ Event("resize", [r EXCEPT !.due = [c \in Viewers |-> "window"],
                                     !.term = [c \in Viewers |-> new]])

(* resize-pane -T: the lines below the cursor go, the history comes down.  *)
(* The count of scrolled lines stays.  In the alternate screen the history *)
(* comes into the part that is overwritten at its end.                     *)
TrimBottom ==
    LET adjust == Min({Sy(s) - 1 - s.cy, s.grid.hsize})
        t == [s EXCEPT !.grid = RemoveHistory(@, adjust), !.cy = @ + adjust, !.redraw = TRUE]
    IN  Event("trim", FaultIf(s.saved # NoSaved /\ adjust > 0, t, "history"))

ClearHistoryCommand == Event("clear-history", WithoutHistory(s))

(* server_client_check_redraw for every client: those that still have      *)
(* output to take are left for later.  Drawing a pane ends the holding     *)
(* back (screen-redraw.c:1335), and a client that is not drawn then never  *)
(* gets what was held back.                                                *)
Redraw ==
    LET asked == {c \in Viewers : s.redraw \/ s.due[c] # "no"}
    IN  /\ ~open
        /\ s.fault = "none"
        /\ asked # {}
        /\ \E slow \in SUBSET asked :
            LET drawn == asked \ slow
                t == [s EXCEPT
                         !.redraw = FALSE,
                         !.mode = IF drawn = {} THEN @ ELSE @ \ {"sync"},
                         !.term = [c \in Viewers |-> IF c \in drawn THEN View(s) ELSE @[c]],
                         !.due = [c \in Viewers |-> IF c \in drawn THEN "no"
                                                   ELSE IF c \in slow /\ @[c] = "no" THEN "panes"
                                                   ELSE @[c]]]
                missed == t.mode # s.mode /\ \E c \in Viewers \ (asked \cup s.blocked) :
                             s.term[c] # View(s)
            IN  s' = FaultIf(missed, t, "missed")
        /\ UNCHANGED <<option, open, moves>>

(* screen_write_sync_callback *)
SyncTimeout ==
    /\ "sync" \in s.mode
    /\ Event("sync", [s EXCEPT !.mode = @ \ {"sync"}, !.redraw = TRUE])

(* A client takes its output too slowly: what it has not taken is dropped, *)
(* and so is what comes until the timer finds that less has come.          *)
Block == \E c \in Viewers \ s.blocked : Event("block", [s EXCEPT !.blocked = @ \cup {c}])

TimerFires == \E c \in s.blocked, still \in BOOLEAN :
    Event("block", [s EXCEPT !.due[c] = "window",
                             !.blocked = IF still THEN @ ELSE @ \ {c}])

RefreshClient == \E c \in Viewers : Event("refresh", [s EXCEPT !.due[c] = "window"])

ScreenNext ==
    \/ Start \/ Stop \/ PrintChar \/ LineFeed \/ CarriageReturn \/ CursorPosition
    \/ BackspaceOne \/ ReverseLineFeed \/ Scroll \/ SetRegion \/ Characters
    \/ InsertOrDelete \/ EraseLine \/ EraseScreen \/ EraseHistory \/ Alignment
    \/ FullReset \/ Modal \/ Alternate
    \/ PaneResize \/ TrimBottom \/ ClearHistoryCommand
    \/ Redraw \/ SyncTimeout \/ Block \/ TimerFires \/ RefreshClient

ScreenSpec == ScreenInit /\ [][ScreenNext]_vars

-----------------------------------------------------------------------------
(* The screen's numbers stay in their range, as the code that indexes the  *)
(* grid's lines and the write list with them takes for granted; the column *)
(* alone may be past the end, in an alternate screen made narrower.        *)
ScreenTypeOK ==
    /\ s.fault \in Faults
    /\ s.fault = "none" =>
        /\ s.mode \subseteq Modes
        /\ s.cx >= 0 /\ (s.cx <= Sx(s) \/ s.saved # NoSaved) /\ s.cy \in 0..(Sy(s) - 1)
        /\ s.rupper <= s.rlower /\ s.rlower < Sy(s)
        /\ Len(s.grid.lines) = Total(s.grid)
        /\ \A i \in DOMAIN s.grid.lines : s.grid.lines[i].used <= Len(s.grid.lines[i].cells)
        /\ ~open => s.item = <<>> /\ s.scrolled = 0 /\ s.list = NoList(Sx(s), Sy(s))
        /\ \A c \in Viewers : DOMAIN s.term[c] = Rows(s)

(* Every terminal that is not due a redraw shows what the grid shows once  *)
(* the program's output is written: the pending scrolls, the write list    *)
(* and what is written at once add up, whatever the order of the commands. *)
TerminalsShowScreen ==
    ~open /\ s.fault = "none" /\ ~s.redraw /\ "sync" \notin s.mode =>
        \A c \in Viewers \ s.blocked : s.due[c] = "no" => s.term[c] = View(s)

ResizeStep == <<Sx(s), Sy(s)>> # <<Sx(s'), Sy(s')>> /\ s'.fault = "none"

(* The texts of the paragraphs of some lines, without empty ones at the end. *)
Paragraphs(lines) ==
    LET Put(ps, l) ==
            LET text == [done |-> ps.done, text |-> ps.text \o Text(l)]
            IN  IF l.wrapped THEN text ELSE [done |-> Append(ps.done, text.text), text |-> <<>>]
        ps == FoldLeft(Put, [done |-> <<>>, text |-> <<>>], lines)
        all == Append(ps.done, ps.text)
        written == {i \in DOMAIN all : all[i] # <<>>}
    IN  SubSeq(all, 1, IF written = {} THEN 0 ELSE Max(written))

(* A resize loses no text but that of the lines below the cursor that do   *)
(* not fit any more, and splits or joins no paragraphs, as long as the     *)
(* screen has its history: what grid_reflow breaks into lines and joins    *)
(* again, over the history and the view, is the same text; and the cursor  *)
(* stays on its character of its paragraph, or goes to the top left when   *)
(* that has gone into the history.                                         *)
TextKept ==
    LET kept == s.grid.hsize + Max({Sy(s'), s.cy + 1})
    IN  Paragraphs(s'.grid.lines) =
        Paragraphs(SubSeq(s.grid.lines, 1, Min({kept, Total(s.grid)})))
CursorKept ==
    \/ WrapPosition(s'.grid, s'.cx, s'.grid.hsize + s'.cy) =
       WrapPosition(s.grid, s.cx, s.grid.hsize + s.cy)
    \/ s'.cx = 0 /\ s'.cy = 0
ResizeKeeps == [][ResizeStep /\ s.saved = NoSaved => TextKept /\ CursorKept]_vars

(* Leaving the alternate screen brings back the lines it was entered with, *)
(* and the history is as it was, whatever was done in between, resizes     *)
(* too, if the size is what it was.                                        *)
AlternateRestores ==
    [][s.saved # NoSaved /\ s'.saved = NoSaved /\ s'.fault = "none"
       /\ s.saved.sx = Sx(s) /\ s.saved.sy = Sy(s) =>
          LET texts(lines) == [i \in DOMAIN lines |-> Text(lines[i])]
          IN  texts(s'.grid.lines) = texts(s.saved.above \o s.saved.lines)]_vars
=============================================================================
