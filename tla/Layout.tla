------------------------------- MODULE Layout -------------------------------
(* The panes of one window: the tree of cells that says where each one is,   *)
(* the commands that split, close, resize, swap, zoom and arrange them, and  *)
(* the window's own size, which follows the client's.  The arithmetic is the *)
(* code's, on unsigned integers of a width the bound Wrap sets.              *)
EXTENDS Integers, Sequences, FiniteSets, SequencesExt, FiniteSetsExt

CONSTANTS
    MaxPanes,           \* bound: panes of the window
    Screen,             \* bound: the sizes a client may have
    Hint,               \* bound: sizes given to split-window -l, -1 for none
    Adjustment,         \* bound: cells a resize asks for
    MainSize,           \* the main-pane-width and main-pane-height options
    OtherSize,          \* the other-pane-width and other-pane-height options
    Wrap,               \* 2^32 in the code
    Options,            \* bound: the option pane-border-status and the commands run
    MaxMoves            \* bound: commands and client resizes

ASSUME LayoutAssumption ==
    /\ MaxPanes \in Nat \ {0} /\ MaxMoves \in Nat
    /\ Screen \subseteq [lr : Nat \ {0}, tb : Nat \ {0}]
    /\ Hint \subseteq Int /\ Adjustment \subseteq Int
    /\ MainSize \in Nat /\ OtherSize \in Nat /\ Wrap \in Nat \ {0}

VARIABLES
    w,          \* struct window
    screen,     \* the size of the client that shows it
    option,     \* pane-border-status, and the commands this instance runs
    fault,      \* how the code left what it does here
    moves

vars == <<w, screen, option, fault, moves>>

Pane == 1 .. MaxPanes
Unassigned == 0         \* a cell that is to have a pane
PANE_MINIMUM == 1

(* A direction names a kind of node and a size: cells side by side share a   *)
(* width, "lr", and cells one above the other a height, "tb".                *)
Direction == {"lr", "tb"}
Across(d) == IF d = "lr" THEN "tb" ELSE "lr"

Leaf(p, sx, sy) == [type |-> "pane", lr |-> sx, tb |-> sy, pane |-> p, cells |-> <<>>]
Node(d, sx, sy, cells) == [type |-> d, lr |-> sx, tb |-> sy, pane |-> Unassigned, cells |-> cells]
NoCell == Leaf(Unassigned, 0, 0)
NoSize == [lr |-> 0, tb |-> 0]
Size(c) == [lr |-> c.lr, tb |-> c.tb]

SumOf(s) == FoldLeft(LAMBDA a, b : a + b, 0, s)
Larger(a, b) == IF a > b THEN a ELSE b
Smaller(a, b) == IF a < b THEN a ELSE b

-----------------------------------------------------------------------------
(* Trees.  A cell is named by its path from the root.                        *)

Each(cells, Op(_)) == SubSeq([i \in DOMAIN cells |-> Op(i)], 1, Len(cells))
Spliced(cells, i, new) == SubSeq(cells, 1, i - 1) \o new \o SubSeq(cells, i + 1, Len(cells))
WithCell(c, i, cell) == [c EXCEPT !.cells = Spliced(@, i, <<cell>>)]

RECURSIVE At(_, _), Put(_, _, _), Paths(_), Leaves(_)

At(c, path) == IF path = <<>> THEN c ELSE At(c.cells[Head(path)], Tail(path))

Put(c, path, new) ==
    IF path = <<>> THEN new
    ELSE WithCell(c, Head(path), Put(c.cells[Head(path)], Tail(path), new))

Paths(c) ==
    {<<>>} \cup UNION {{<<i>> \o path : path \in Paths(c.cells[i])} : i \in DOMAIN c.cells}

Leaves(c) == IF c.type = "pane" THEN <<c.pane>>
             ELSE FoldLeft(LAMBDA s, child : s \o Leaves(child), <<>>, c.cells)

PathOf(c, p) ==
    CHOOSE path \in Paths(c) : At(c, path).type = "pane" /\ At(c, path).pane = p

HasPane(c, p) == \E path \in Paths(c) : At(c, path).type = "pane" /\ At(c, path).pane = p

(* The panes of the list take the leaves in turn.                            *)
RECURSIVE Assigned(_, _)
Assigned(c, panes) ==
    IF c.type = "pane" THEN [c EXCEPT !.pane = Head(panes)]
    ELSE LET before(i) == SumOf([j \in 1 .. i - 1 |-> Len(Leaves(c.cells[j]))])
             taken(i) == Assigned(c.cells[i], SubSeq(panes, before(i) + 1, Len(panes)))
         IN [c EXCEPT !.cells = Each(@, taken)]

(* The line of the pane status is taken from the cells at the top, or at the *)
(* bottom: edge says a cell is one of them.                                  *)
RootEdge == option.status # "off"
Edge(c, i, edge) ==
    /\ edge
    /\ c.type = "tb" => i = IF option.status = "top" THEN 1 ELSE Len(c.cells)

RECURSIVE EdgeAt(_, _, _)
EdgeAt(c, path, edge) ==
    IF path = <<>> THEN edge
    ELSE EdgeAt(c.cells[Head(path)], Tail(path), Edge(c, Head(path), edge))

-----------------------------------------------------------------------------
(* Sizes.                                                                    *)

RECURSIVE Room(_, _, _), Ends(_, _, _, _), Adjust(_, _, _, _), AdjustNext(_, _, _, _, _)

(* What a cell can give up in a direction.                                   *)
Room(c, d, edge) ==
    LET least == PANE_MINIMUM + IF d = "tb" /\ edge THEN 1 ELSE 0
        rooms == [i \in DOMAIN c.cells |-> Room(c.cells[i], d, Edge(c, i, edge))]
    IN IF c.type = "pane" THEN Larger(c[d] - least, 0)
       ELSE IF c.type = d THEN SumOf(rooms) ELSE Min(Range(rooms))

(* The loop below stops.                                                     *)
Ends(c, d, change, edge) ==
    \/ c.type = "pane" \/ change >= 0
    \/ c.type = d /\ Room(c, d, edge) >= 0 - change
    \/ /\ c.type = Across(d)
       /\ \A i \in DOMAIN c.cells : Ends(c.cells[i], d, change, Edge(c, i, edge))

(* The children of a node of the direction take one line of the change at a  *)
(* time, in turn.                                                            *)
AdjustNext(c, d, change, i, edge) ==
    LET turn == (i % Len(c.cells)) + 1
        e == Edge(c, i, edge)
        by(n) == WithCell(c, i, Adjust(c.cells[i], d, n, e))
    IN IF change = 0 THEN c
       ELSE IF change > 0 THEN AdjustNext(by(1), d, change - 1, turn, edge)
       ELSE IF Room(c.cells[i], d, e) > 0 THEN AdjustNext(by(-1), d, change + 1, turn, edge)
       ELSE AdjustNext(c, d, change, turn, edge)

Adjust(c, d, change, edge) ==
    LET sized == [c EXCEPT ![d] = @ + change]
        adjusted(i) == Adjust(c.cells[i], d, change, Edge(c, i, edge))
    IN IF c.type = d THEN AdjustNext(sized, d, change, 1, edge)
       ELSE [sized EXCEPT !.cells = Each(@, adjusted)]

(* The size of a cell when its parent of a previous size is given another:   *)
(* n cells, this one included, are to share what is left.                    *)
NewSize(c, d, previous, size, n, left, edge) ==
    LET least == Larger((PANE_MINIMUM + 1) * (n - 1), c[d] - Room(c, d, edge))
    IN IF n = 1 THEN left
       ELSE Larger(PANE_MINIMUM,
                   Smaller((c[d] * size) \div previous, (left - least) % Wrap))

RECURSIVE SizeCheck(_, _, _, _), ChildCells(_, _)

(* The cell may be given the size.  Only the children in its direction are   *)
(* tried.                                                                    *)
SizeCheck(c, d, size, edge) ==
    LET n == Len(c.cells)
        RECURSIVE Fits(_, _)
        Fits(i, left) ==
            LET new == NewSize(c.cells[i], d, c[d], size, n - i + 1, left, Edge(c, i, edge))
            IN /\ i < n => new + 1 <= left
               /\ SizeCheck(c.cells[i], d, new, Edge(c, i, edge))
               /\ i < n => Fits(i + 1, left - new - 1)
    IN IF c.type = "pane" THEN size >= PANE_MINIMUM
       ELSE IF c.type = d THEN size >= 2 * n - 1 /\ Fits(1, size)
       ELSE \A i \in 1 .. n : \/ c.cells[i].type = "pane"
                              \/ SizeCheck(c.cells[i], d, size, Edge(c, i, edge))

(* The children of a cell that has a new size are made to fit it.            *)
ChildCells(c, edge) ==
    LET d == c.type
        n == Len(c.cells)
        previous == SumOf([i \in 1 .. n |-> c.cells[i][d]]) + n - 1
        RECURSIVE Sized(_, _)
        Sized(i, left) ==
            LET new == NewSize(c.cells[i], d, previous, c[d], n - i + 1, left, Edge(c, i, edge))
                child == [c.cells[i] EXCEPT ![d] = new, ![Across(d)] = c[Across(d)]]
            IN IF i > n THEN <<>>
               ELSE <<ChildCells(child, Edge(c, i, edge))>> \o Sized(i + 1, (left - new - 1) % Wrap)
    IN IF d = "pane" THEN c ELSE [c EXCEPT !.cells = Sized(1, c[d])]

-----------------------------------------------------------------------------
(* Splitting, closing and resizing one cell.                                 *)

(* A cell for a new pane is cut from the cell at the path, or from the whole *)
(* window: the first of the two has size1 and the second size2.              *)
Split(c, at, d, hint, before, full, new) ==
    LET path == IF full THEN <<>> ELSE at
        wanted(total) == IF hint < 0 THEN (total + 1) \div 2 - 1
                         ELSE IF before THEN (total - hint - 1) % Wrap
                         ELSE hint
        size2(total, size) == IF size < PANE_MINIMUM THEN PANE_MINIMUM ELSE Smaller(size, total - 2)
        kept(total, size) == IF before THEN size ELSE total - 1 - size
        pair(cell, leaf) == IF before THEN <<leaf, cell>> ELSE <<cell, leaf>>
        least(edge) == 2 * PANE_MINIMUM + IF d = "tb" /\ edge THEN 2 ELSE 1
        beside(parent, cells) ==
            Put(c, Front(path), [parent EXCEPT !.cells = Spliced(@, Last(path), cells)])
        fitted(whole, i) == [whole EXCEPT !.cells =
            Spliced(@, i, <<ChildCells(@[i], Edge(whole, i, RootEdge))>>)]
        cut(old, leaf, total) ==
            IF path # <<>> /\ At(c, Front(path)).type = d
            THEN beside(At(c, Front(path)), pair(old, leaf))
            ELSE IF full /\ old.type = d
            THEN [ChildCells(old, RootEdge) EXCEPT ![d] = total,
                    !.cells = IF before THEN <<leaf>> \o @ ELSE Append(@, leaf)]
            ELSE IF full
            THEN fitted([Node(d, old.lr, old.tb, pair(old, leaf)) EXCEPT ![d] = total],
                        IF before THEN 2 ELSE 1)
            ELSE Put(c, path, [Node(d, old.lr, old.tb, pair(old, leaf)) EXCEPT ![d] = total])
        with(lc, edge, size) ==
            [ok |-> lc[d] >= least(edge) /\ (full => SizeCheck(lc, d, size, edge)),
             root |-> cut([lc EXCEPT ![d] = size],
                          [Leaf(new, lc.lr, lc.tb) EXCEPT ![d] = lc[d] - 1 - size], lc[d])]
        of(lc, edge) == with(lc, edge, kept(lc[d], size2(lc[d], wanted(lc[d]))))
    IN of(At(c, path), EdgeAt(c, path, RootEdge))

(* The space goes to the cell before, or after the first; a node with one    *)
(* cell left gives way to it.                                                *)
Destroy(c, path) ==
    LET node == At(c, Front(path))
        i == Last(path)
        heir == IF i = 1 THEN 2 ELSE i - 1
        d == node.type
        grown == WithCell(node, heir, Adjust(node.cells[heir], d, node.cells[i][d] + 1, FALSE))
        left == Spliced(grown.cells, i, <<>>)
    IN IF path = <<>> THEN NoCell
       ELSE Put(c, Front(path), IF Len(left) = 1 THEN left[1] ELSE [node EXCEPT !.cells = left])

(* The cell to resize in a direction is the first on the way to the root     *)
(* with a parent that runs in it, and of the last child the one before.      *)
RECURSIVE Resizable(_, _, _)
Resizable(c, path, d) ==
    IF path = <<>> \/ At(c, Front(path)).type = d THEN path
    ELSE Resizable(c, Front(path), d)

Previous(c, path) ==
    IF Last(path) = Len(At(c, Front(path)).cells)
    THEN Append(Front(path), Last(path) - 1) ELSE path

(* Lines go from one child of a node to another.                             *)
MovedTo(c, path, d, from, to, n) ==
    LET node == At(c, path)
    IN Put(c, path, WithCell(node, to, Adjust(node.cells[to], d, n, FALSE)))

Moved(c, path, d, from, to, n) ==
    LET edge(i) == EdgeAt(c, Append(path, i), RootEdge)
        node == At(c, path)
        by(i, change) == Adjust(node.cells[i], d, change, edge(i))
    IN Put(c, path, WithCell(WithCell(node, to, by(to, n)), from, by(from, 0 - n)))

TakenWhole(room, change) == IF change > 0 THEN change ELSE 0 - change
Taken(room, change) == Smaller(room, IF change > 0 THEN change ELSE 0 - change)

(* A cell grows at the cost of the nearest after it that has room, or before *)
(* it if opposite allows; it shrinks, or else the nearest before it, for the *)
(* next.                                                                     *)
RECURSIVE ResizeCell(_, _, _, _, _)
ResizeCell(c, path, d, change, opposite) ==
    LET at == Front(path)
        i == Last(path)
        n == Len(At(c, at).cells)
        room(j) == Room(At(c, Append(at, j)), d, EdgeAt(c, Append(at, j), RootEdge))
        after == {j \in i + 1 .. n : room(j) > 0}
        before == {j \in 1 .. i - 1 : room(j) > 0}
        ahead == {j \in 1 .. i : room(j) > 0}
        from == IF change < 0 THEN Max(ahead)
                ELSE IF after # {} THEN Min(after) ELSE Max(before)
        to == IF change > 0 THEN i ELSE i + 1
        size == Taken(room(from), change)
    IN IF \/ change = 0
          \/ change > 0 /\ after = {} /\ (~opposite \/ before = {})
          \/ change < 0 /\ (ahead = {} \/ i = n)
       THEN c
       ELSE ResizeCell(Moved(c, at, d, from, to, size), path, d,
                       IF change > 0 THEN change - size ELSE change + size, opposite)

-----------------------------------------------------------------------------
(* Arranging.                                                                *)

(* The sizes the children of a node are to have when it is spread out; none  *)
(* if there is nothing to do.                                                *)
Shares(c, edge) ==
    LET d == c.type
        n == Len(c.cells)
        size == c[d] - IF d = "tb" /\ edge THEN 1 ELSE 0
        each == (size - (n - 1)) \div n
        over == size - n * (each + 1) + 1
    IN IF n <= 1 \/ size < n - 1 \/ each = 0 THEN <<>>
       ELSE [i \in 1 .. n |-> each + (IF d = "tb" /\ Edge(c, i, edge) THEN 1 ELSE 0)
                                   + (IF i <= over THEN 1 ELSE 0)]

SpreadEnds(c, edge) ==
    \A i \in DOMAIN Shares(c, edge) :
        Ends(c.cells[i], c.type, Shares(c, edge)[i] - c.cells[i][c.type], Edge(c, i, edge))

SpreadCell(c, edge) ==
    LET shared(i) == Adjust(c.cells[i], c.type, Shares(c, edge)[i] - c.cells[i][c.type],
                            Edge(c, i, edge))
    IN IF Shares(c, edge) = <<>> THEN c ELSE [c EXCEPT !.cells = Each(@, shared)]

(* select-layout -E spreads the nearest node around the pane that is uneven. *)
RECURSIVE SpreadAt(_, _)
SpreadAt(c, path) ==
    LET node == At(c, Front(path))
        shares == Shares(node, EdgeAt(c, Front(path), RootEdge))
    IN IF path = <<>> THEN {}
       ELSE IF \E i \in DOMAIN shares : shares[i] # node.cells[i][node.type]
       THEN {Front(path)}
       ELSE SpreadAt(c, Front(path))

(* even-horizontal and even-vertical.                                        *)
Even(d) ==
    LET n == Len(w.panes)
        leaf(i) == Leaf(w.panes[i], w.lr, w.tb)
        root == Node(d, w.lr, w.tb, Each(w.panes, leaf))
        wide == [root EXCEPT ![d] = Larger(n * (PANE_MINIMUM + 1) - 1, @)]
    IN SpreadCell(wide, RootEdge)

(* main-horizontal, main-vertical and their mirrors: the first pane has the  *)
(* main size and the others share the rest.                                  *)
Main(d, mirrored) ==
    LET a == Across(d)
        n == Len(w.panes) - 1
        total == w[d] - 1
        asked == IF MainSize <= total THEN MainSize ELSE IF d = "tb" THEN 24 ELSE 80
        other0 == IF OtherSize > total THEN 0 ELSE OtherSize
        tight == asked + PANE_MINIMUM >= total
        fixed == other0 # 0 /\ total - other0 >= asked
        main == IF tight THEN IF total <= 2 * PANE_MINIMUM THEN PANE_MINIMUM
                              ELSE total - PANE_MINIMUM
                ELSE IF fixed THEN total - other0 ELSE asked
        other == IF tight THEN PANE_MINIMUM ELSE total - main
        sized(size) == [Leaf(Unassigned, 0, 0) EXCEPT ![d] = size,
                            ![a] = Larger(n * (PANE_MINIMUM + 1) - 1, w[a])]
        least(i) == [Leaf(w.panes[i + 1], other, other) EXCEPT ![a] = PANE_MINIMUM]
        first == [sized(main) EXCEPT !.pane = w.panes[1]]
        rest == IF n = 1 THEN [sized(other) EXCEPT !.pane = w.panes[2]]
                ELSE [sized(other) EXCEPT !.type = a, !.cells = Each(Tail(w.panes), least)]
        spread == IF n = 1 THEN rest ELSE SpreadCell(rest, RootEdge)
    IN [sized(main + other + 1) EXCEPT !.type = d,
            !.cells = IF mirrored THEN <<spread, first>> ELSE <<first, spread>>]

RECURSIVE Grid(_, _, _)
Grid(rows, columns, n) ==
    IF rows * columns >= n THEN [rows |-> rows, columns |-> columns]
    ELSE Grid(rows + 1, IF (rows + 1) * columns < n THEN columns + 1 ELSE columns, n)

(* tiled: rows of cells of one size, the last of each row and the last row   *)
(* with what is over.                                                        *)
Tiled ==
    LET n == Len(w.panes)
        grid == Grid(1, 1, n)
        k == grid.columns
        width == Larger(((w.lr - (k - 1)) % Wrap) \div k, PANE_MINIMUM)
        height == Larger(((w.tb - (grid.rows - 1)) % Wrap) \div grid.rows, PANE_MINIMUM)
        in(j) == SubSeq(w.panes, (j - 1) * k + 1, Smaller(j * k, n))
        used(j) == Len(in(j)) * (width + 1) - 1
        row(j) ==
            LET cell(i) == Leaf(in(j)[i], IF i = Len(in(j)) /\ w.lr > used(j)
                                          THEN width + w.lr - used(j) ELSE width, height)
            IN IF Len(in(j)) = 1 THEN Leaf(in(j)[1], w.lr, height)
               ELSE Node("lr", w.lr, height, Each(in(j), cell))
        over == w.tb - (grid.rows * (height + 1) - 1)
        last == Adjust(row(grid.rows), "tb", Larger(over, 0), FALSE)
    IN Node("tb", Larger((width + 1) * k - 1, w.lr), Larger((height + 1) * grid.rows - 1, w.tb),
            Append([j \in 1 .. grid.rows - 1 |-> row(j)], last))

(* The row of a tiled layout is as wide as the window, its cells may not be. *)
TiledFits == w.lr >= 2 * Grid(1, 1, Len(w.panes)).columns - 1

layout_sets == 0 .. 6

Arranged(set) ==
    IF set \in {0, 1} THEN Even(IF set = 0 THEN "lr" ELSE "tb")
    ELSE IF set = 6 THEN Tiled
    ELSE Main(IF set \in {2, 3} THEN "tb" ELSE "lr", set \in {3, 5})

-----------------------------------------------------------------------------
(* A saved layout.                                                           *)

RECURSIVE Trimmed(_, _), BottomRight(_), Consistent(_)

BottomRight(c) == IF c.type = "pane" THEN <<>>
                  ELSE <<Len(c.cells)>> \o BottomRight(Last(c.cells))

Trimmed(c, n) == IF Len(Leaves(c)) <= n THEN c ELSE Trimmed(Destroy(c, BottomRight(c)), n)

(* layout_check.                                                             *)
Consistent(c) ==
    c.type # "pane" =>
        /\ \A i \in DOMAIN c.cells : /\ c.cells[i][Across(c.type)] = c[Across(c.type)]
                                     /\ Consistent(c.cells[i])
        /\ c[c.type] = SumOf([i \in DOMAIN c.cells |-> c.cells[i][c.type] + 1]) - 1

(* The layout of a string is cut to the panes there are.                     *)
WithSize(c) ==
    IF c.type = "pane" THEN c
    ELSE [c EXCEPT ![c.type] = SumOf([i \in DOMAIN c.cells |-> c.cells[i][c.type] + 1]) - 1,
                   ![Across(c.type)] = Last(c.cells)[Across(c.type)]]

ParsedWide(c, panes) ==
    LET wide(root) == IF root.type = "pane" THEN root ELSE [root EXCEPT ![root.type] = @ + 1]
        given(root) == [ok |-> Len(panes) = Len(Leaves(root)) /\ Consistent(root),
                        root |-> Assigned(root, panes)]
    IN given(wide(WithSize(Trimmed(c, Len(panes)))))

Parsed(c, panes) ==
    LET given(root) == [ok |-> Len(panes) = Len(Leaves(root)) /\ Consistent(root),
                        root |-> Assigned(root, panes)]
    IN given(WithSize(Trimmed(c, Len(panes))))

-----------------------------------------------------------------------------
(* The window.                                                               *)

IsZoomed(x) == x.saved # NoCell

(* A zoomed window has a layout of its one pane, the other cells are saved.  *)
Unzoomed(x) == IF IsZoomed(x) THEN [x EXCEPT !.root = x.saved, !.saved = NoCell] ELSE x

Without(s, p) == SelectSeq(s, LAMBDA q : q # p)

Activated(x, p) ==
    IF p = x.active THEN x
    ELSE [Unzoomed(x) EXCEPT !.active = p, !.stack = <<x.active>> \o Without(Without(@, p), x.active)]

Zoomed(x, p) ==
    LET y == Activated(x, p)
    IN IF IsZoomed(x) \/ Len(x.panes) = 1 THEN x
       ELSE [y EXCEPT !.saved = y.root, !.root = Leaf(p, x.lr, x.tb)]

Rezoomed(x, zoomed) == IF zoomed THEN Zoomed(x, x.active) ELSE x

IndexOf(s, p) == CHOOSE i \in DOMAIN s : s[i] = p

(* The last pane visited is the next to be active, or a neighbour.           *)
LostTwice(x, p) ==
    LET i == IndexOf(x.panes, p)
        stack == Without(x.stack, p)
        next == IF stack # <<>> THEN Head(stack)
                ELSE IF i > 1 THEN x.panes[i - 1] ELSE x.panes[i + 1]
    IN [x EXCEPT !.active = IF p = @ THEN next ELSE @, !.stack = stack]

Lost(x, p) ==
    LET i == IndexOf(x.panes, p)
        stack == Without(x.stack, p)
        next == IF stack # <<>> THEN Head(stack)
                ELSE IF i > 1 THEN x.panes[i - 1] ELSE x.panes[i + 1]
    IN IF p # x.active THEN [x EXCEPT !.stack = stack]
       ELSE [x EXCEPT !.active = next, !.stack = Without(stack, next)]

(* layout_close_pane and window_remove_pane.                                 *)
Closed(x, p) ==
    [Lost([x EXCEPT !.root = IF HasPane(@, p) THEN Destroy(@, PathOf(@, p)) ELSE @], p)
        EXCEPT !.panes = Without(@, p)]

(* The layout is never made smaller than it can be, nor the window smaller   *)
(* than the layout.                                                          *)
LayoutResized(c, size) ==
    LET by(root, d) ==
            Adjust(root, d, Larger(size[d] - root[d], 0 - Room(root, d, RootEdge)), RootEdge)
    IN by(by(c, "lr"), "tb")

WindowAsAsked(x, size) ==
    Rezoomed([Unzoomed(x) EXCEPT !.root = LayoutResized(@, size), !.want = NoSize,
                  !.lr = size.lr, !.tb = size.tb], IsZoomed(x))

WindowResized(x, size) ==
    LET root == LayoutResized(Unzoomed(x).root, size)
    IN Rezoomed([Unzoomed(x) EXCEPT !.root = root, !.want = NoSize,
                    !.lr = Larger(size.lr, root.lr), !.tb = Larger(size.tb, root.tb)],
                IsZoomed(x))

(* The size is the client's, or the one set by hand, which takes effect at   *)
(* once; another waits for the next turn of the server's loop.               *)
Recalculated(x, client, now) ==
    LET size == IF x.manual # NoSize THEN x.manual ELSE client
        changed == size # IF x.want # NoSize THEN x.want ELSE Size(x)
    IN IF now \/ (changed /\ x.manual # NoSize) THEN WindowResized(x, size)
       ELSE IF changed THEN [x EXCEPT !.want = size] ELSE x

-----------------------------------------------------------------------------
(* Commands.                                                                 *)

Running == fault = "none" /\ moves < MaxMoves

Done(x) ==
    /\ w' = x
    /\ moves' = moves + 1

Unused == {p \in Pane : \A i \in DOMAIN w.panes : w.panes[i] # p}

RECURSIVE Sized(_)
Sized(c) == /\ c.lr \in 1 .. Wrap \div 2 /\ c.tb \in 1 .. Wrap \div 2
            /\ \A i \in DOMAIN c.cells : Sized(c.cells[i])

(* The place of a new pane in the list.                                      *)
PlaceBeside(x, p, before, full) == IndexOf(x.panes, p) + (IF before THEN 0 ELSE 1)
Place(x, p, before, full) ==
    IF ~full THEN IndexOf(x.panes, p) + (IF before THEN 0 ELSE 1)
    ELSE IF before THEN 1 ELSE Len(x.panes) + 1

(* split-window; the program may fail to start, and the pane goes again.     *)
SplitWindow(p, d, hint, before, full, detached, zoom, starts) ==
    LET added(x, root, new) == [x EXCEPT !.root = root,
                                  !.panes = InsertAt(@, Place(x, p, before, full), new)]
        shown(y, new) == Rezoomed(IF detached THEN y ELSE Activated(y, new), zoom)
        with(x, split, new) ==
            /\ Done(IF ~split.ok THEN x
                    ELSE IF starts THEN shown(added(x, split.root, new), new)
                    ELSE Closed(added(x, split.root, new), new))
            /\ fault' = IF split.ok /\ ~Sized(split.root) THEN "squeezed" ELSE fault
        of(x, new) == with(x, Split(x.root, PathOf(x.root, p), d, hint, before, full, new), new)
    IN /\ Running /\ Unused # {}
       /\ of(Unzoomed(w), Min(Unused))
       /\ UNCHANGED <<screen, option>>

(* kill-pane; the last pane takes the window with it.                        *)
KillPaneZoomed(p) ==
    /\ Running /\ Len(w.panes) > 1
    /\ Done(Closed(w, p))
    /\ UNCHANGED <<screen, option, fault>>

KillPane(p) ==
    /\ Running /\ Len(w.panes) > 1
    /\ Done(Closed(Unzoomed(w), p))
    /\ UNCHANGED <<screen, option, fault>>

(* join-pane of a pane of the same window: the new cell is cut before the    *)
(* old one is closed, and the pane comes after the other in the list.        *)
JoinPane(p, target, d, hint, before, full, detached) ==
    LET filled(root, path) == Put(root, path, [At(root, path) EXCEPT !.pane = p])
        joined(x) == [x EXCEPT !.root = filled(@, PathOf(@, Unassigned)),
                               !.panes = InsertAt(@, IndexOf(@, target) + 1, p)]
        shown(x) == IF detached THEN x ELSE Activated(x, p)
        with(x, split) ==
            /\ Done(IF split.ok THEN shown(joined(Closed([x EXCEPT !.root = split.root], p))) ELSE x)
            /\ fault' = IF split.ok /\ ~Sized(split.root) THEN "squeezed" ELSE fault
        of(x) == with(x, Split(x.root, PathOf(x.root, target), d, hint, before, full, Unassigned))
    IN /\ Running /\ p # target
       /\ of(Unzoomed(w))
       /\ UNCHANGED <<screen, option>>

(* resize-pane by an amount, or with -x and -y to a size, where the last of  *)
(* its row or column is measured the other way.                              *)
ResizePane(p, d, change, to) ==
    LET size(root) ==
            change + IF d = "tb" /\ EdgeAt(root, PathOf(root, p), RootEdge) THEN 1 ELSE 0
        wanted(root, path) ==
            IF ~to THEN change
            ELSE IF Last(path) = Len(At(root, Front(path)).cells)
            THEN At(root, path)[d] - size(root)
            ELSE size(root) - At(root, path)[d]
        resized(root, path) ==
            IF path = <<>> THEN root
            ELSE ResizeCell(root, Previous(root, path), d, wanted(root, path), TRUE)
        of(root) == resized(root, Resizable(root, PathOf(root, p), d))
    IN /\ Running /\ (to => change >= 0)
       /\ Done([Unzoomed(w) EXCEPT !.root = of(@)])
       /\ UNCHANGED <<screen, option, fault>>

(* The mouse drags the border after a cell, which takes from that side only. *)
DragBorder(path, change) ==
    /\ Running /\ path # <<>> /\ Last(path) < Len(At(w.root, Front(path)).cells)
    /\ Done([w EXCEPT !.root = ResizeCell(@, path, At(@, Front(path)).type, change, FALSE)])
    /\ UNCHANGED <<screen, option, fault>>

(* resize-pane -Z.                                                           *)
ToggleZoom(p) ==
    /\ Running
    /\ Done(IF IsZoomed(w) THEN Unzoomed(w) ELSE Zoomed(w, p))
    /\ UNCHANGED <<screen, option, fault>>

SelectPane(p, keep) ==
    /\ Running /\ p # w.active
    /\ Done(Rezoomed(Activated(Unzoomed(w), p), keep /\ IsZoomed(w)))
    /\ UNCHANGED <<screen, option, fault>>

(* swap-pane: the two change places in the list and in the layout.           *)
SwapPane(p, q, detached, keep) ==
    LET x == Unzoomed(w)
        swap(r) == IF r = p THEN q ELSE IF r = q THEN p ELSE r
        panes == [i \in DOMAIN x.panes |-> swap(x.panes[i])]
        leaves == Leaves(x.root)
        y == [x EXCEPT !.panes = panes,
                       !.root = Assigned(@, [i \in DOMAIN leaves |-> swap(leaves[i])])]
        first == IF y.active = p THEN Activated(y, q) ELSE y
    IN /\ Running /\ p # q
       /\ Done(Rezoomed(IF ~detached THEN Activated(y, q)
                        ELSE IF first.active = q THEN Activated(first, p) ELSE first,
                        keep /\ IsZoomed(w)))
       /\ UNCHANGED <<screen, option, fault>>

(* rotate-window: every pane takes the cell of the one before it, or after.  *)
RotateWindow(down, keep) ==
    LET x == Unzoomed(w)
        n == Len(x.panes)
        by == IF down THEN n - 1 ELSE 1
        to(i) == ((i - 1 + by) % n) + 1
        panes == [i \in 1 .. n |-> x.panes[to(i)]]
        leaves == Leaves(x.root)
        root == Assigned(x.root, [k \in 1 .. n |-> panes[IndexOf(x.panes, leaves[k])]])
        i == IndexOf(panes, x.active)
        next == IF down THEN ((i + n - 2) % n) + 1 ELSE (i % n) + 1
    IN /\ Running
       /\ Done(Rezoomed(Activated([x EXCEPT !.panes = panes, !.root = root], panes[next]),
                        keep /\ IsZoomed(w)))
       /\ UNCHANGED <<screen, option, fault>>

(* select-layout and its kin keep the layout there was, and afterwards have  *)
(* the size worked out again.                                                *)
Selected(x) == [Unzoomed(x) EXCEPT !.old = Unzoomed(x).root]

SelectLayout(set) ==
    LET several == Len(w.panes) > 1
        with(x, root) == [x EXCEPT !.root = root, !.lr = root.lr, !.tb = root.tb, !.last = set]
    IN /\ Running
       /\ Done(Recalculated(IF several THEN with(Selected(w), Arranged(set))
                            ELSE [Selected(w) EXCEPT !.last = set], screen, FALSE))
       /\ fault' = IF several /\ set = 1 /\ Shares(Even("tb"), RootEdge) = <<>> THEN "uneven"
                   ELSE IF several /\ set = 6 /\ ~TiledFits THEN "narrow" ELSE fault
       /\ UNCHANGED <<screen, option>>

(* next-layout, previous-layout, and select-layout for the same once more.   *)
NextLayout == IF w.last = -1 THEN 0 ELSE (w.last + 1) % 7
PreviousLayout == IF w.last <= 0 THEN 6 ELSE w.last - 1

SelectRelative ==
    \E set \in {NextLayout, PreviousLayout} \cup ({w.last} \ {-1}) : SelectLayout(set)

(* select-layout -E.                                                         *)
SpreadOut(p) ==
    LET spread(x, path, edge) == [x EXCEPT !.root = Put(@, path, SpreadCell(At(@, path), edge))]
        ends(x, path) == SpreadEnds(At(x.root, path), EdgeAt(x.root, path, RootEdge))
        after(x, at) ==
            \E path \in IF at = {} THEN {<<>>} ELSE at :
              IF at = {} \/ ends(x, path)
              THEN /\ Done(Recalculated(IF at = {} THEN x
                                        ELSE spread(x, path, EdgeAt(x.root, path, RootEdge)),
                                        screen, FALSE))
                   /\ UNCHANGED fault
              ELSE Done(x) /\ fault' = "endless"
    IN /\ Running
       /\ after(Selected(w), SpreadAt(Unzoomed(w).root, PathOf(Unzoomed(w).root, p)))
       /\ UNCHANGED <<screen, option>>

(* select-layout -o: the layout kept takes the panes there are in turn.  A   *)
(* layout that does not fit is an error and the one kept stays.              *)
UndoLayout ==
    LET sized(x, root) == IF root.type = "pane" THEN x
                          ELSE [x EXCEPT !.lr = root.lr, !.tb = root.tb]
        with(x, root) == [sized(x, root) EXCEPT !.root = root, !.old = x.root]
        given(x, parsed) ==
            IF ~parsed.ok THEN Done(x) /\ UNCHANGED fault
            ELSE /\ Done(Recalculated(with(x, parsed.root), screen, FALSE))
                 /\ fault' = IF Size(parsed.root) # Size(sized(x, parsed.root)) THEN "stale" ELSE fault
    IN /\ Running
       /\ IF w.old = NoCell
          THEN Done([Unzoomed(w) EXCEPT !.old = Unzoomed(w).root]) /\ UNCHANGED fault
          ELSE given(Unzoomed(w), Parsed(w.old, w.panes))
       /\ UNCHANGED <<screen, option>>

(* resize-window: the size is set by hand from now on.                       *)
ResizeWindow(size) ==
    /\ Running
    /\ Done(Recalculated([w EXCEPT !.manual = size], screen, TRUE))
    /\ UNCHANGED <<screen, option, fault>>

(* The client's terminal changes its size.                                   *)
ClientResize(size) ==
    /\ Running /\ size # screen
    /\ screen' = size
    /\ Done(Recalculated(w, size, FALSE))
    /\ UNCHANGED <<option, fault>>

(* pane-border-status is set: only the panes are fixed, not the cells.       *)
SetStatus(status) ==
    /\ Running /\ status # option.status
    /\ option' = [option EXCEPT !.status = status]
    /\ Done(w)
    /\ UNCHANGED <<screen, fault>>

(* The server's loop: a window that is shown takes the size that waits.      *)
CheckWindowResize ==
    /\ fault = "none" /\ w.want # NoSize
    /\ w' = WindowResized(w, w.want)
    /\ UNCHANGED <<screen, option, fault, moves>>

-----------------------------------------------------------------------------

LayoutInit ==
    /\ option \in Options
    /\ screen \in Screen
    /\ w = [root |-> Leaf(1, screen.lr, screen.tb), saved |-> NoCell,
            lr |-> screen.lr, tb |-> screen.tb, panes |-> <<1>>, active |-> 1,
            stack |-> <<>>, last |-> -1, old |-> NoCell, want |-> NoSize, manual |-> NoSize]
    /\ fault = "none"
    /\ moves = 0

Has(command) == command \in option.commands
Maybe(flag) == IF Has(flag) THEN BOOLEAN ELSE {FALSE}

PaneCommand(p) ==
    \/ \E d \in Direction, hint \in Hint, before \in Maybe("-b"), full \in Maybe("-f"),
          detached \in Maybe("-d"), zoom \in Maybe("zoom"), fails \in Maybe("fail") :
              SplitWindow(p, d, hint, before, full, detached, zoom, ~fails)
    \/ Has("kill") /\ KillPane(p)
    \/ /\ Has("join")
       /\ \E q \in Range(w.panes), d \in Direction, before \in Maybe("-b"),
             full \in Maybe("-f"), detached \in Maybe("-d") :
              JoinPane(p, q, d, -1, before, full, detached)
    \/ /\ Has("resize")
       /\ \E d \in Direction, change \in Adjustment, to \in BOOLEAN : ResizePane(p, d, change, to)
    \/ Has("zoom") /\ ToggleZoom(p)
    \/ Has("zoom") /\ \E keep \in Maybe("-d") : SelectPane(p, keep)
    \/ /\ Has("swap")
       /\ \E q \in Range(w.panes), detached, keep \in Maybe("-d") : SwapPane(p, q, detached, keep)
    \/ Has("arrange") /\ SpreadOut(p)

WindowCommand ==
    \/ Has("resize") /\ \E path \in Paths(w.root), change \in Adjustment : DragBorder(path, change)
    \/ Has("swap") /\ \E down \in BOOLEAN, keep \in Maybe("-d") : RotateWindow(down, keep)
    \/ Has("arrange") /\ \E set \in layout_sets : SelectLayout(set)
    \/ Has("arrange") /\ SelectRelative
    \/ Has("arrange") /\ UndoLayout
    \/ Has("window") /\ \E size \in Screen : ResizeWindow(size)
    \/ Has("window") /\ \E size \in Screen : ClientResize(size)
    \/ Has("window") /\ \E status \in {"off", "top", "bottom"} : SetStatus(status)

LayoutNext ==
    \/ \E p \in Range(w.panes) : PaneCommand(p)
    \/ WindowCommand
    \/ CheckWindowResize

LayoutSpec == LayoutInit /\ [][LayoutNext]_vars

-----------------------------------------------------------------------------
(* Properties.                                                               *)

RECURSIVE IsCell(_)
IsCell(c) ==
    /\ DOMAIN c = {"type", "lr", "tb", "pane", "cells"}
    /\ c.lr \in Nat /\ c.tb \in Nat
    /\ IF c.type = "pane" THEN c.pane \in Pane /\ c.cells = <<>>
       ELSE /\ c.type \in Direction /\ c.pane = Unassigned /\ Len(c.cells) > 0
            /\ \A i \in DOMAIN c.cells : IsCell(c.cells[i])

(* The trees are trees, the active pane and the panes visited before it are  *)
(* different panes of the window.                                            *)
LayoutTypeOK ==
    /\ IsCell(w.root)
    /\ w.saved = NoCell \/ IsCell(w.saved)
    /\ w.old = NoCell \/ IsCell(w.old)
    /\ w.active \in Range(w.panes)
    /\ Range(w.stack) \subseteq Range(w.panes) \ {w.active}
    /\ IsInjective(w.panes) /\ IsInjective(w.stack)
    /\ w.last \in -1 .. 6
    /\ fault \in {"none", "squeezed", "endless", "uneven", "narrow", "stale"}

Sound == fault = "none"

RECURSIVE Branching(_)
Branching(c) == c.type # "pane" => /\ Len(c.cells) > 1
                                   /\ \A i \in DOMAIN c.cells : Branching(c.cells[i])

(* layout.c, layout-set.c, layout-custom.c: after any commands the cells of  *)
(* a node fill it side by side with one line between two of them, and every  *)
(* node has two cells at least.                                              *)
CellsFill ==
    Sound => \A c \in {w.root, w.saved, w.old} \ {NoCell} : Consistent(c) /\ Branching(c)

(* window.c, spawn.c, cmd-join-pane.c, cmd-swap-pane.c: every pane has one   *)
(* cell, and a zoomed window shows the active pane and keeps the rest.       *)
PanesHaveCells ==
    LET tree == IF IsZoomed(w) THEN w.saved ELSE w.root
    IN /\ Len(Leaves(tree)) = Len(w.panes) /\ Range(Leaves(tree)) = Range(w.panes)
       /\ IsZoomed(w) => Leaves(w.root) = <<w.active>> /\ Len(w.panes) > 1

(* No cell is without a line or a column.                                    *)
CellsHaveRoom == Sound => Sized(w.root) /\ (IsZoomed(w) => Sized(w.saved))

(* resize.c: the layout, and the saved one of a zoomed window, is as large   *)
(* as the window.                                                            *)
WindowIsLayout ==
    Sound => /\ Size(w.root) = Size(w)
             /\ IsZoomed(w) => Size(w.saved) = Size(w)

(* The layout is one of the window and its panes after every command.        *)
LayoutInv == LayoutTypeOK /\ CellsFill /\ CellsHaveRoom /\ PanesHaveCells /\ WindowIsLayout

InOrder(x) == Leaves(IF IsZoomed(x) THEN x.saved ELSE x.root) = x.panes

(* cmd-split-window.c, cmd-swap-pane.c, cmd-rotate-window.c, layout-set.c,   *)
(* layout-custom.c: no command loses the order of the panes, from left to    *)
(* right and down, on which a saved layout relies, but join-pane and the     *)
(* mirrored layouts.                                                         *)
OrderKept ==
    [][InOrder(w) => InOrder(w') \/ Has("join") \/ w'.last \in {3, 5}]_vars

(* layout-custom.c, cmd-select-layout.c: select-layout -o gives back every   *)
(* cell of the layout kept if the panes are the same and in the same order,  *)
(* whatever the window's size is by then, if it was not set by hand.         *)
UndoRestores ==
    [][UndoLayout /\ w.manual = NoSize /\ Leaves(w.old) = w.panes => w'.root = w.old]_vars

(* layout.c:467: the change layout_resize_adjust is given is bounded to the  *)
(* space available.                                                          *)
SpreadBounded == fault # "endless"
=============================================================================
