------------------------------ MODULE MCSession ------------------------------
(* Instances of Session for TLC.                                            *)
EXTENDS Session

CONSTANTS c1, c2

Setting(renumber, base, destroy, detach, sessions, windows, clients, most) ==
    [renumber |-> renumber, base |-> base, destroy |-> destroy, detach |-> detach,
     sessions |-> sessions, windows |-> windows, clients |-> clients, most |-> most]

(* Windows of two sessions, the sessions of a group beside another one, and *)
(* clients among sessions of one window.                                    *)
MCOptions ==
    { Setting(TRUE, 0, "off", "on", {1, 2}, {1, 2}, {}, 1),
      Setting(FALSE, 0, "off", "on", {1}, {1, 2, 3}, {}, 2),
      Setting(FALSE, 1, "keep-last", "off", {1, 2, 3}, {1, 2}, {c1}, 0),
      Setting(FALSE, 0, "off", "off", {1, 2}, {1, 2}, {c1, c2}, 0),
      Setting(FALSE, 0, "on", "no-detached", {1, 2}, {1, 2}, {c1, c2}, 0),
      Setting(FALSE, 0, "keep-group", "on", {1, 2}, {1, 2}, {c1, c2}, 0) }
==============================================================================
