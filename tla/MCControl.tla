----------------------------- MODULE MCControl -----------------------------
(* Small instances of Control. *)
EXTENDS Control

CONSTANTS a, b

(* One session with every pane, one with the first. *)
TwoSessions == {{1}, Pane}
OneSession == {Pane}

(* A client with two panes and a command to come; two clients with one pane, *)
(* its last byte and all the commands; and a client with both.              *)
MCStart ==
    {[clients |-> {a}, panes |-> Pane, read |-> 0, moves |-> MaxMoves - 1],
     [clients |-> {a, b}, panes |-> {1}, read |-> MaxBytes - 1, moves |-> 0],
     [clients |-> {a}, panes |-> Pane, read |-> MaxBytes - 1, moves |-> 0]}

OnePane == {[clients |-> {a}, panes |-> {1}, read |-> 0, moves |-> 0]}
=============================================================================
