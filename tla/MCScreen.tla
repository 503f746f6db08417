------------------------------ MODULE MCScreen ------------------------------
EXTENDS Screen

CONSTANTS c1, c2

Line(cells, wrapped) == [cells |-> cells, used |-> Len(cells), wrapped |-> wrapped]

(* A pane of 2 columns and 3 lines, a line of history, one or two clients  *)
(* with terminals that can scroll a region or not.                         *)
Small == [lines |-> <<Line(<<"a", "b">>, FALSE), Line(<<"c", "d">>, TRUE),
                      Line(<<"e">> \o <<"f">>, FALSE), NoLine>>,
          sx |-> 2, sy |-> 3, limit |-> 2, cursors |-> {<<0, 0>>, <<1, 2>>},
          clients |-> <<c1, c2>>, native |-> {c1}, colours |-> BOOLEAN, counts |-> {1},
          modes |-> {}, alone |-> {FALSE}, sizes |-> {}, moves |-> 4, commands |-> {}]

(* Lines: scrolling in and out of a region, and what is pending. *)
Stream == [Small EXCEPT !.moves = 5, !.cursors = {<<1, 2>>}, !.commands =
    {"print", "LF", "CR", "RI", "DECSTBM"}]

LinesMoved == [Small EXCEPT !.alone = BOOLEAN, !.moves = 3, !.cursors = {<<1, 2>>}, !.counts = {1, 2}, !.commands =
    {"print", "LF", "CUP", "DECSTBM", "SU", "SD", "IL", "DL", "EL", "ED",
     "ED3", "DECALN", "RIS"}]

(* Cells: inserting, deleting and erasing with pending cells. *)
CellsMoved == [Small EXCEPT !.alone = BOOLEAN, !.moves = 4, !.sx = 3, !.sy = 2,
    !.lines = <<Line(<<"a", "b", "c">>, TRUE), Line(<<"d", "e">>, FALSE)>>, !.limit = 0,
    !.cursors = {<<0, 0>>, <<3, 0>>},
    !.counts = {1, 2}, !.modes = {"wrap", "insert", "origin"},
    !.commands = {"print", "CUP", "BS", "CR", "ICH", "DCH", "ECH", "EL", "SM", "RM"}]

(* Clients: redrawn late, refreshed, too slow, with writing held back. *)
Clients == [Small EXCEPT !.moves = 5, !.modes = {"sync"}, !.colours = {FALSE},
    !.cursors = {<<1, 2>>},
    !.commands = {"print", "LF", "RI", "SM", "RM", "sync", "block", "refresh"}]

(* Sizes: wide characters, wrapped lines, the alternate screen. *)
Sized == [Small EXCEPT
    !.lines = <<Line(<<"a", "b", Wide, Padding>>, TRUE), Line(<<"c">>, FALSE),
                Line(<<"d", "e", "f", "g">>, TRUE), Line(<<"h">>, FALSE), NoLine>>,
    !.sx = 4, !.sy = 3, !.limit = 3, !.clients = <<c1>>, !.colours = {FALSE}, !.moves = 4,
    !.cursors = {<<0, 0>>, <<1, 1>>, <<4, 0>>, <<0, 2>>},
    !.sizes = {<<2, 3>>, <<3, 3>>, <<4, 3>>, <<4, 2>>, <<3, 4>>, <<5, 4>>},
    !.commands = {"print", "LF", "RI", "alternate", "resize", "trim", "clear-history", "ED"}]

MCOptions == {Stream, LinesMoved, CellsMoved, Clients, Sized}
=============================================================================
