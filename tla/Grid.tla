-------------------------------- MODULE Grid --------------------------------
(***************************************************************************)
(* The grid of a screen (grid.c) and the view of its last sy lines         *)
(* (grid-view.c), as operators on a grid record.                           *)
(*                                                                         *)
(* A cell is Blank, Coloured (erased with a background colour), the Wide   *)
(* character, the Padding under its right half, or any other one-column    *)
(* character.  A line has the cells allocated so far (cellsize of them),   *)
(* how many were written (cellused) and whether it goes on in the next     *)
(* line (GRID_LINE_WRAPPED).  Coordinates count from 0, as in the code; py *)
(* counts from the top of the history, y from the top of the view.         *)
(***************************************************************************)
EXTENDS Integers, Sequences, FiniteSets, FiniteSetsExt, SequencesExt

Blank    == "."
Coloured == "#"
Wide     == "W"
Padding  == "-"

NoLine == [cells |-> <<>>, used |-> 0, wrapped |-> FALSE]

(* The cell grid_clear_cell leaves: coloured or the default. *)
Erased(bg) == IF bg THEN Coloured ELSE Blank

CellAt(l, x) == IF x < Len(l.cells) THEN l.cells[x + 1] ELSE Blank

Cells(l, n) == [x \in 0..(n - 1) |-> CellAt(l, x)]

(* The characters of a line, the unwritten end left out. *)
Text(l) == SubSeq(l.cells, 1, l.used)

(* grid_expand_line: a quarter, half or the whole of the width at a time. *)
Expanded(g, l, n) ==
    LET size == IF n < g.sx \div 4 THEN g.sx \div 4
                ELSE IF n < g.sx \div 2 THEN g.sx \div 2 ELSE Max({n, g.sx})
    IN  IF n <= Len(l.cells) THEN l
        ELSE [l EXCEPT !.cells = [i \in 1..size |-> CellAt(l, i - 1)]]

Total(g) == g.hsize + g.sy

LineAt(g, py) == g.lines[py + 1]

ViewLine(g, y) == LineAt(g, g.hsize + y)

Emptied(g, bg) ==
    IF bg THEN [NoLine EXCEPT !.cells = [i \in 1..g.sx |-> Coloured]] ELSE NoLine

WithLine(g, py, l) ==
    [g EXCEPT !.lines = [i \in DOMAIN g.lines |-> IF i = py + 1 THEN l ELSE g.lines[i]]]

Unwrapped(g, py) ==
    IF py < 0 THEN g ELSE WithLine(g, py, [LineAt(g, py) EXCEPT !.wrapped = FALSE])

-----------------------------------------------------------------------------
(* Writing, clearing and moving (grid.c:590-790). *)

SetCells(g, px, py, cells) ==
    LET end == px + Len(cells)
        l == Expanded(g, LineAt(g, py), end)
    IN  WithLine(g, py,
            [l EXCEPT !.cells = [i \in DOMAIN l.cells |->
                                    IF i - 1 \in px..(end - 1) THEN cells[i - px] ELSE l.cells[i]],
                      !.used = Max({l.used, end})])

(* The lines py .. py + ny - 1 are emptied, and the one before ends here. *)
ClearLines(g, py, ny, bg) ==
    IF ny = 0 THEN g
    ELSE Unwrapped([g EXCEPT !.lines = [i \in DOMAIN g.lines |->
                        IF i - 1 \in py..(py + ny - 1) THEN Emptied(g, bg) ELSE g.lines[i]]],
                   py - 1)

(* A part of a line is erased, as far as it is allocated or a colour needs *)
(* it to be; a whole line is emptied.                                      *)
Clear(g, px, py, nx, ny, bg) ==
    LET Part(l) ==
            LET e == IF bg THEN Expanded(g, l, px + nx) ELSE l
            IN  [e EXCEPT !.cells = [i \in DOMAIN e.cells |->
                    IF i - 1 \in px..(px + nx - 1) THEN Erased(bg) ELSE e.cells[i]]]
    IN  IF nx = 0 \/ ny = 0 THEN g
        ELSE IF px = 0 /\ nx = g.sx THEN ClearLines(g, py, ny, bg)
        ELSE [g EXCEPT !.lines = [i \in DOMAIN g.lines |->
                 IF i - 1 \in py..(py + ny - 1) THEN Part(g.lines[i]) ELSE g.lines[i]]]

(* The ny lines at py go to dy; the lines they leave are emptied. *)
MoveLines(g, dy, py, ny, bg) ==
    IF ny = 0 \/ py = dy THEN g
    ELSE LET to == dy..(dy + ny - 1)
             left == (py..(py + ny - 1)) \ to
             above == Unwrapped(g, dy - 1)
             moved == [g EXCEPT !.lines = [i \in DOMAIN g.lines |->
                           IF i - 1 \in to THEN above.lines[i - dy + py]
                           ELSE IF i - 1 \in left THEN Emptied(g, bg)
                           ELSE above.lines[i]]]
         IN  IF py \in to THEN moved ELSE Unwrapped(moved, py - 1)

(* The nx cells at px go to dx; the cells they leave are erased. *)
MoveCells(g, dx, px, py, nx, bg) ==
    IF nx = 0 \/ px = dx THEN g
    ELSE LET l == Expanded(g, LineAt(g, py), Max({dx, px}) + nx)
             Moved(x) == IF x \in dx..(dx + nx - 1) THEN CellAt(l, x - dx + px)
                         ELSE IF x \in px..(px + nx - 1) THEN Erased(bg)
                         ELSE CellAt(l, x)
         IN  WithLine(g, py,
                 [l EXCEPT !.cells = [i \in DOMAIN l.cells |-> Moved(i - 1)],
                           !.used = Max({l.used, dx + nx})])

-----------------------------------------------------------------------------
(* The history (grid.c:367-487, grid-view.c:64-95). *)

(* The oldest tenth of a full history goes, or all above the limit. *)
CollectHistory(g, all) ==
    IF g.hsize = 0 \/ g.hsize < g.hlimit THEN g
    ELSE LET asked == IF all THEN g.hsize - g.hlimit ELSE g.hlimit \div 10
             ny == Min({g.hsize, Max({asked, 1})})
         IN  [g EXCEPT !.lines = SubSeq(g.lines, ny + 1, Len(g.lines)),
                       !.hsize = g.hsize - ny,
                       !.hscrolled = Min({g.hscrolled, g.hsize - ny})]

(* Lines go from the bottom; the view moves up into the history. *)
RemoveHistory(g, ny) ==
    IF ny > g.hsize THEN g
    ELSE [g EXCEPT !.lines = SubSeq(g.lines, 1, Total(g) - ny), !.hsize = g.hsize - ny]

ClearHistory(g) ==
    [g EXCEPT !.lines = SubSeq(g.lines, g.hsize + 1, Total(g)), !.hsize = 0, !.hscrolled = 0]

(* The top line of the view goes into the history. *)
ScrollHistory(g, bg) ==
    [g EXCEPT !.lines = Append(g.lines, Emptied(g, bg)),
              !.hsize = g.hsize + 1, !.hscrolled = g.hscrolled + 1]

(* The line at upper goes into the history, those below it move up. *)
ScrollHistoryRegion(g, upper, lower, bg) ==
    [g EXCEPT !.lines = SubSeq(g.lines, 1, g.hsize) \o <<LineAt(g, upper)>>
                        \o SubSeq(g.lines, g.hsize + 1, upper)
                        \o SubSeq(g.lines, upper + 2, lower + 1)
                        \o <<Emptied(g, bg)>>
                        \o SubSeq(g.lines, lower + 2, Len(g.lines)),
              !.hsize = g.hsize + 1, !.hscrolled = g.hscrolled + 1]

(* The lines of the view are scrolled into the history. *)
ClearIntoHistory(g, bg) ==
    LET written == {y \in 0..(g.sy - 1) : ViewLine(g, y).used # 0}
        last == IF written = {} THEN 0 ELSE Max(written) + 1
        scrolled == FoldLeft(LAMBDA h, y : ScrollHistory(CollectHistory(h, FALSE), bg),
                             g, [i \in 1..last |-> i])
    IN  IF last = 0 THEN ClearLines(g, g.hsize, g.sy, bg)
        ELSE [ClearLines(scrolled, scrolled.hsize, g.sy - last, bg) EXCEPT !.hscrolled = 0]

-----------------------------------------------------------------------------
(* Operations on the view (grid-view.c:97-221). *)

ViewClear(g, x, y, nx, ny, bg) == Clear(g, x, g.hsize + y, nx, ny, bg)

RegionUp(g, upper, lower, bg) ==
    LET h == CollectHistory(g, FALSE)
    IN  IF ~g.history
        THEN MoveLines(g, g.hsize + upper, g.hsize + upper + 1, lower - upper, bg)
        ELSE IF upper = 0 /\ lower = g.sy - 1 THEN ScrollHistory(h, bg)
        ELSE ScrollHistoryRegion(h, h.hsize + upper, h.hsize + lower, bg)

RegionDown(g, upper, lower, bg) ==
    MoveLines(g, g.hsize + upper + 1, g.hsize + upper, lower - upper, bg)

InsertLines(g, y, ny, bg) ==
    MoveLines(g, g.hsize + y + ny, g.hsize + y, g.sy - y - ny, bg)

(* grid_clear of ny - kept lines: with more kept than inserted or deleted  *)
(* the unsigned difference wraps, no line is emptied, and the line above   *)
(* ends there all the same.                                                *)
ClearRest(g, y, kept, ny, bg) ==
    IF kept > ny THEN Unwrapped(g, g.hsize + y + kept - 1)
                 ELSE ViewClear(g, 0, y + kept, g.sx, ny - kept, bg)

(* The space for ny lines at y is made in the region that ends at lower. *)
InsertLinesRegion(g, lower, y, ny, bg) ==
    LET kept == lower + 1 - y - ny
    IN  ClearRest(MoveLines(g, g.hsize + lower + 1 - kept, g.hsize + y, kept, bg),
                  y, kept, ny, bg)

DeleteLines(g, y, ny, bg) ==
    ViewClear(MoveLines(g, g.hsize + y, g.hsize + y + ny, g.sy - y - ny, bg),
              0, g.sy - ny, g.sx, ny, bg)

DeleteLinesRegion(g, lower, y, ny, bg) ==
    LET kept == lower + 1 - y - ny
    IN  ClearRest(MoveLines(g, g.hsize + y, g.hsize + y + ny, kept, bg), y, kept, ny, bg)

InsertCells(g, x, y, nx, bg) ==
    IF x >= g.sx - 1 THEN ViewClear(g, x, y, 1, 1, bg)
    ELSE MoveCells(g, x + nx, x, g.hsize + y, g.sx - x - nx, bg)

DeleteCells(g, x, y, nx, bg) ==
    ViewClear(MoveCells(g, x, x + nx, g.hsize + y, g.sx - x - nx, bg),
              g.sx - nx, y, nx, 1, bg)

-----------------------------------------------------------------------------
(* Reflow to a new width (grid.c:1218-1512).                               *)

Width(c) == IF c = Wide THEN 2 ELSE IF c = Padding THEN 0 ELSE 1

TextWidth(text) == FoldLeft(LAMBDA n, c : n + Width(c), 0, text)

(* How many of the characters fit into the columns left. *)
Fitting(text, left) ==
    Max({n \in 0..Len(text) : TextWidth(SubSeq(text, 1, n)) <= left})

(* grid_set_cell at the end of what is written, a character at a time. *)
Added(g, l, text) ==
    LET Add(m, c) ==
            LET e == Expanded(g, m, m.used + 1)
            IN  [e EXCEPT !.cells = [i \in DOMAIN e.cells |->
                                        IF i = m.used + 1 THEN c ELSE e.cells[i]],
                          !.used = m.used + 1]
    IN  FoldLeft(Add, l, text)

(* The state of a reflow: the source lines (those gone are dead), the      *)
(* lines made of them, the scrolled part of the history and whether a line *)
(* was ended that goes on.                                                 *)
(* grid_reflow_join: the lines after yy are taken into the last line made, *)
(* of which width columns are in use, as far as there is room.  A line     *)
(* looked at and not wrapped takes the mark from the line joined, even if  *)
(* nothing of it was taken.                                                *)
JoinTaken(g, f, yy, j) ==
    LET from == f.lines[j.from + 1]
        left == from.used - j.want
        lines == IF left = 0 THEN j.lines ELSE j.lines - 1
        last == f.target[Len(f.target)]
        joined == [Added(g, last, j.taken) EXCEPT
                      !.wrapped = last.wrapped /\ ~(left = 0 /\ ~j.wrapped)]
        rest == [from EXCEPT !.cells = SubSeq(from.cells, j.want + 1, from.used), !.used = left]
        to == Len(f.target) - 1
    IN  IF j.from = -1 THEN f
        ELSE [f EXCEPT !.target[Len(f.target)] = joined,
                       !.lines = IF left = 0 THEN f.lines
                                 ELSE [f.lines EXCEPT ![j.from + 1] = rest],
                       !.dead = f.dead \cup ((yy + 1)..(yy + lines)),
                       !.hscrolled = IF f.hscrolled > to + lines THEN f.hscrolled - lines
                                     ELSE IF f.hscrolled > to THEN to ELSE f.hscrolled,
                       !.cut = f.cut \/ (left = 0 /\ ~j.wrapped /\ f.lines[yy + lines + 1].wrapped)]

Join(g, f, yy, width) ==
    LET TakeSome(j, next, line, wrapped, taken) ==
            [taken |-> j.taken \o taken, width |-> j.width + TextWidth(taken),
             lines |-> j.lines + 1, from |-> line, want |-> Len(taken), wrapped |-> wrapped,
             full |-> ~wrapped \/ Len(taken) # next.used \/ j.width + TextWidth(taken) = g.sx]
        TakeLine(j, next, line, wrapped, n) ==
            IF next.used = 0
            THEN IF wrapped THEN [j EXCEPT !.lines = j.lines + 1]
                            ELSE [j EXCEPT !.wrapped = FALSE, !.full = TRUE]
            ELSE IF n = 0 THEN [j EXCEPT !.wrapped = wrapped, !.full = TRUE]
            ELSE TakeSome(j, next, line, wrapped, SubSeq(Text(next), 1, n))
        Take(j, line) ==
            LET next == f.lines[line + 1]
            IN  IF j.full THEN j
                ELSE TakeLine(j, next, line, j.wrapped /\ next.wrapped,
                              Fitting(Text(next), g.sx - j.width))
    IN  JoinTaken(g, f, yy,
            FoldLeft(Take, [taken |-> <<>>, width |-> width, lines |-> 0, from |-> -1,
                            want |-> 0, wrapped |-> TRUE, full |-> FALSE],
                     [i \in 1..(Len(f.lines) - yy - 1) |-> yy + i]))

(* grid_reflow_split: the characters from at on go to lines of their own,  *)
(* as many as needed, and the last of them is joined with what follows if  *)
(* it has room.                                                            *)
Pieces(text, sx) ==
    LET Put(ps, c) ==
            IF TextWidth(Last(ps)) + Width(c) > sx THEN Append(ps, <<c>>)
            ELSE Append(Front(ps), Append(Last(ps), c))
    IN  FoldLeft(Put, << <<>> >>, text)

(* A mutant: the last piece ends the paragraph, whether or not the line did. *)
SplitIntoEnded(g, f, yy, at, pieces) ==
    LET l == f.lines[yy + 1]
        n == Len(pieces)
        first == [cells |-> SubSeq(l.cells, 1, at), used |-> at, wrapped |-> TRUE]
        piece(i) == [Added(g, NoLine, pieces[i]) EXCEPT !.wrapped = i < n]
    IN  [f EXCEPT !.target = f.target \o <<first>> \o [i \in 1..n |-> piece(i)],
                  !.dead = f.dead \cup {yy},
                  !.hscrolled = IF yy <= f.hscrolled THEN f.hscrolled + n ELSE f.hscrolled]

SplitInto(g, f, yy, at, pieces) ==
    LET l == f.lines[yy + 1]
        n == Len(pieces)
        first == [cells |-> SubSeq(l.cells, 1, at), used |-> at, wrapped |-> TRUE]
        piece(i) == [Added(g, NoLine, pieces[i]) EXCEPT !.wrapped = (i < n) \/ l.wrapped]
    IN  [f EXCEPT !.target = f.target \o <<first>> \o [i \in 1..n |-> piece(i)],
                  !.dead = f.dead \cup {yy},
                  !.hscrolled = IF yy <= f.hscrolled THEN f.hscrolled + n ELSE f.hscrolled]

Split(g, f, yy, at) ==
    LET l == f.lines[yy + 1]
        Rejoined(split, width) ==
            IF width < g.sx /\ l.wrapped THEN Join(g, split, yy, width) ELSE split
        Into(pieces) == Rejoined(SplitInto(g, f, yy, at, pieces), TextWidth(Last(pieces)))
    IN  Into(Pieces(SubSeq(l.cells, at + 1, l.used), g.sx))

(* grid_reflow, the width being the grid's new one. *)
Reflowed(g) ==
    LET Line(f, yy) ==
            LET l == f.lines[yy + 1]
                width == TextWidth(Text(l))
                moved == [f EXCEPT !.target = Append(f.target, l)]
            IN  IF yy \in f.dead THEN f
                ELSE IF width > g.sx THEN Split(g, f, yy, Max({1, Fitting(Text(l), g.sx)}))
                ELSE IF width < g.sx /\ l.wrapped THEN Join(g, moved, yy, width)
                ELSE moved
        Made(f, n) ==
            [grid |-> [g EXCEPT !.lines = [i \in 1..n |-> IF i <= Len(f.target) THEN f.target[i]
                                                                                ELSE NoLine],
                                !.hsize = n - g.sy,
                                !.hscrolled = Min({f.hscrolled, n - g.sy})],
             cut |-> f.cut]
        Finished(f) == Made(f, Max({Len(f.target), g.sy}))
    IN  Finished(FoldLeft(Line, [lines |-> SubSeq(g.lines, 1, Total(g)), dead |-> {},
                                 target |-> <<>>, hscrolled |-> g.hscrolled, cut |-> FALSE],
                          [i \in 1..Total(g) |-> i - 1]))

-----------------------------------------------------------------------------
(* A position as a paragraph and an offset in it, and back                 *)
(* (grid.c:1515-1568).                                                     *)

ParagraphEnd == -1

UsedIn(g, from, to) ==
    FoldLeft(LAMBDA n, py : n + LineAt(g, py).used, 0, [i \in 1..(to - from) |-> from + i - 1])

EndsBefore(g, py) == {yy \in 0..(py - 1) : ~LineAt(g, yy).wrapped}

WrapPosition(g, px, py) ==
    LET ends == EndsBefore(g, py)
        start == IF ends = {} THEN 0 ELSE Max(ends) + 1
    IN  [x |-> IF px >= LineAt(g, py).used THEN ParagraphEnd ELSE px + UsedIn(g, start, py),
         y |-> Cardinality(ends)]

(* No line of the grid where the search finds none: it then goes on behind *)
(* the last line, which may be wrapped.                                    *)
NoPosition == [x |-> 0, y |-> -1]

UnwrapPosition(g, wx, wy) ==
    LET start == Min({Total(g) - 1} \cup
                     {yy \in 0..(Total(g) - 1) : Cardinality(EndsBefore(g, yy)) = wy})
        Here(yy) == \/ ~LineAt(g, yy).wrapped
                    \/ wx # ParagraphEnd /\ wx - UsedIn(g, start, yy) < LineAt(g, yy).used
        found == {yy \in start..(Total(g) - 1) : Here(yy)}
        yy == Min(found)
    IN  IF found = {} THEN NoPosition
        ELSE [x |-> IF wx = ParagraphEnd THEN LineAt(g, yy).used ELSE wx - UsedIn(g, start, yy),
              y |-> yy]
=============================================================================
